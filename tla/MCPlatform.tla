----------------------------- MODULE MCPlatform -----------------------------
(***************************************************************************)
(* The hardware, the Bluetooth popup, the audio devices and the            *)
(* configuration on small instances.                                       *)
(***************************************************************************)
EXTENDS Platform

(* A Raspberry Pi with nothing on it, one with everything on board, one    *)
(* with all there is, and another computer; and no HAT or every one.       *)
MCMachines ==
  {{"raspberry_pi", "i2c"},
   {"raspberry_pi", "i2c", "hdmi", "onboard_audio", "wifi_onboard",
    "bt_onboard", "serial"},
   Device, Device \ {"raspberry_pi"}}
MCHatSets == {{}, Hat}

(* One phone and two scans, which can overlap; two phones that are paired  *)
(* and connected; and two adapters, between which the user changes, with   *)
(* the mode, three times.                                                  *)
MCScansWith ==
  [Device |-> {"p1"}, Adapter |-> {"hci0"},
   MaxScans |-> 2, MaxErrors |-> 1, MaxRequests |-> 1]
MCPhonesWith ==
  [Device |-> {"p1", "p2"}, Adapter |-> {"hci0"},
   MaxScans |-> 0, MaxErrors |-> 0, MaxRequests |-> 2]
MCAdaptersWith ==
  [Device |-> {}, Adapter |-> {"hci0", "hci1"},
   MaxScans |-> 0, MaxErrors |-> 0, MaxRequests |-> 3]

(* A card with two sinks, one of which is named after the platform, and a  *)
(* sink on the network, which has no card.                                 *)
MCCard ==
  [s \in {"named", "alias", "network"} |->
     IF s = "network" THEN None ELSE "dac"]

(* Devices that come and go; and a user who sets things, with one change   *)
(* and a restart.                                                          *)
MCDevicesWith ==
  [Sinks |-> {"named", "alias", "network"}, Platform |-> {"alias"},
   Card |-> MCCard, Sources |-> {"mic"}, Sliders |-> {0}, Limits |-> {50, 255},
   MaxChanges |-> 2, MaxInputs |-> 2, MaxRestarts |-> 0]
MCListeningWith ==
  [Sinks |-> {"named", "network"}, Platform |-> {"alias"},
   Card |-> MCCard, Sources |-> {"mic"}, Sliders |-> {0}, Limits |-> {50, 255},
   MaxChanges |-> 1, MaxInputs |-> 3, MaxRestarts |-> 1]

(* Two starts, and a user who sets two things. *)
MCSettingsWith ==
  [Typed |-> {0}, Levels |-> {60, 150}, MaxBoots |-> 2, MaxInputs |-> 2]
=============================================================================
