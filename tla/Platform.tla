------------------------------- MODULE Platform -------------------------------
(***************************************************************************)
(* What the head unit itself consists of: its hardware (HardwareDetection, *)
(* which is extended), the Bluetooth popup (BluetoothHandler), its audio   *)
(* devices (Volume) and its configuration (Settings).                      *)
(*                                                                         *)
(* As in Outputs a behaviour picks the one it exercises, for they share no *)
(* state: detection ends before the user interface starts, the two         *)
(* handlers talk to BlueZ and to PulseAudio, each from slots of its own,   *)
(* and each has parts of the configuration to itself.  Two of them are     *)
(* exercised in more than one way, each with constants of its own.         *)
(***************************************************************************)
EXTENDS HardwareDetection, Sequences

CONSTANTS
  None,         \* no device
  ScansWith,    \* constants of BluetoothHandler: scans that overlap,
  PhonesWith,   \* what happens between phones,
  AdaptersWith, \* and between adapters;
  DevicesWith,  \* of Volume: devices that come and go,
  ListeningWith,\* and a user who sets things;
  SettingsWith  \* of Settings

VARIABLES
  exercised, \* what moves in this behaviour
  listed, paired, connected, named, aliased, ignored, saved, status, settling,
  objects, bonded, resolvedNames, answers, reachable, pairing, overlay,
  scanning, agent, stops, passes, adapter, configured, hostMode, mode,
  agentRegistered, left, failed, scans, errors, requests,
  ready, present, preferred, soft, hw, silent, cardDevice, resolved, volume,
  muted, limits, stored, file, items, registered, posted, missed, page,
  modified, script, stuck, chosen, switched, changes, inputs, restarts,
  running, savedConfig, config, copies, field, popup, found, outputs, offered,
  told, wish, onAtStart, boots, settingsInputs

(* The instances are of the modules with the proofs about them, so that    *)
(* PlatformProofs can cite what is proved there of these very instances.   *)
Scans == INSTANCE BluetoothHandlerProofs WITH
  Device <- ScansWith.Device, Adapter <- ScansWith.Adapter,
  MaxScans <- ScansWith.MaxScans, MaxErrors <- ScansWith.MaxErrors,
  MaxRequests <- ScansWith.MaxRequests,
  resolved <- resolvedNames, registered <- agentRegistered
Phones == INSTANCE BluetoothHandlerProofs WITH
  Device <- PhonesWith.Device, Adapter <- PhonesWith.Adapter,
  MaxScans <- PhonesWith.MaxScans, MaxErrors <- PhonesWith.MaxErrors,
  MaxRequests <- PhonesWith.MaxRequests,
  resolved <- resolvedNames, registered <- agentRegistered
Adapters == INSTANCE BluetoothHandlerProofs WITH
  Device <- AdaptersWith.Device, Adapter <- AdaptersWith.Adapter,
  MaxScans <- AdaptersWith.MaxScans, MaxErrors <- AdaptersWith.MaxErrors,
  MaxRequests <- AdaptersWith.MaxRequests,
  resolved <- resolvedNames, registered <- agentRegistered

Devices == INSTANCE VolumeProofs WITH
  Sinks <- DevicesWith.Sinks, Platform <- DevicesWith.Platform,
  Card <- DevicesWith.Card, Sources <- DevicesWith.Sources,
  NoDevice <- "No device", Sliders <- DevicesWith.Sliders,
  Limits <- DevicesWith.Limits, MaxChanges <- DevicesWith.MaxChanges,
  MaxInputs <- DevicesWith.MaxInputs, MaxRestarts <- DevicesWith.MaxRestarts
Listening == INSTANCE VolumeProofs WITH
  Sinks <- ListeningWith.Sinks, Platform <- ListeningWith.Platform,
  Card <- ListeningWith.Card, Sources <- ListeningWith.Sources,
  NoDevice <- "No device", Sliders <- ListeningWith.Sliders,
  Limits <- ListeningWith.Limits, MaxChanges <- ListeningWith.MaxChanges,
  MaxInputs <- ListeningWith.MaxInputs,
  MaxRestarts <- ListeningWith.MaxRestarts

Configuration == INSTANCE SettingsProofs WITH
  Typed <- SettingsWith.Typed, Levels <- SettingsWith.Levels,
  MaxBoots <- SettingsWith.MaxBoots, MaxInputs <- SettingsWith.MaxInputs,
  file <- savedConfig, page <- copies, inputs <- settingsInputs

ASSUME PlatformAssumption ==
  /\ Scans!Constants /\ Phones!Constants /\ Adapters!Constants
  /\ Devices!Constants /\ Listening!Constants
  /\ Configuration!Constants

hardwareVars == vars
bluetoothVars ==
  <<listed, paired, connected, named, aliased, ignored, saved, status, settling,
    objects, bonded, resolvedNames, answers, reachable, pairing, overlay,
    scanning, agent, stops, passes, adapter, configured, hostMode, mode,
    agentRegistered, left, failed, scans, errors, requests>>
volumeVars ==
  <<ready, present, preferred, soft, hw, silent, cardDevice, resolved, volume,
    muted, limits, stored, file, items, registered, posted, missed, page,
    modified, script, stuck, chosen, switched, changes, inputs, restarts>>
settingsVars ==
  <<running, savedConfig, config, copies, field, popup, found, outputs,
    offered, told, wish, onAtStart, boots, settingsInputs>>
PlatformVars ==
  <<exercised, hardwareVars, bluetoothVars, volumeVars, settingsVars>>

Bluetooth == {"scans", "phones", "adapters"}

(* Of what does not move one start is enough; scans and phones are looked  *)
(* at with an adapter that is there.                                       *)
PlatformInit ==
  /\ exercised \in {"hardware", "devices", "listening", "configuration"}
                     \cup Bluetooth
  /\ Init
  /\ exercised # "hardware" =>
       /\ devices = CHOOSE machine \in Machines : TRUE
       /\ fitted = CHOOSE hats \in HatSets : TRUE
       /\ panel = "none" /\ eeprom = {} /\ writable
  /\ CASE exercised = "phones" -> Phones!Init
       [] exercised = "adapters" -> Adapters!Init
       [] OTHER -> Scans!Init
  /\ exercised \notin Bluetooth =>
       bonded = {} /\ reachable = {} /\ answers
  /\ exercised # "adapters" => adapter = configured /\ adapter # None
  /\ IF exercised = "listening" THEN Listening!Init ELSE Devices!Init
  /\ exercised \notin {"devices", "listening"} =>
       ready /\ Len(present["sink"]) = Cardinality(DevicesWith.Sinks)
  /\ Configuration!Init

PlatformNext ==
  /\ UNCHANGED exercised
  /\ \/ /\ exercised = "hardware" /\ Next
        /\ UNCHANGED <<bluetoothVars, volumeVars, settingsVars>>
     \/ /\ \/ exercised = "scans" /\ Scans!Next
           \/ exercised = "phones" /\ Phones!Next
           \/ exercised = "adapters" /\ Adapters!Next
        /\ UNCHANGED <<hardwareVars, volumeVars, settingsVars>>
     \/ /\ \/ exercised = "devices" /\ Devices!Next
           \/ exercised = "listening" /\ Listening!Next
        /\ UNCHANGED <<hardwareVars, bluetoothVars, settingsVars>>
     \/ /\ exercised = "configuration" /\ Configuration!Next
        /\ UNCHANGED <<hardwareVars, bluetoothVars, volumeVars>>

(* Fairness of each; the audio devices, which have calls to make from the  *)
(* beginning, only where they move.                                        *)
PlatformSpec ==
  /\ PlatformInit /\ [][PlatformNext]_PlatformVars
  /\ WF_vars(Program)
  /\ Scans!Fairness
  /\ WF_volumeVars(exercised \in {"devices", "listening"} /\ Devices!GuiThread)
  /\ WF_volumeVars(/\ exercised \in {"devices", "listening"}
                   /\ \E d \in Devices!Direction : Devices!Refresh(d))

(* The type invariants of the four. *)
PlatformTypeOK ==
  /\ TypeOK
  /\ CASE exercised = "phones" -> Phones!TypeOK
       [] exercised = "adapters" -> Adapters!TypeOK
       [] OTHER -> Scans!TypeOK
  /\ IF exercised = "listening" THEN Listening!TypeOK ELSE Devices!TypeOK
  /\ Configuration!TypeOK

-----------------------------------------------------------------------------
(* The properties of the Bluetooth popup, as BluetoothHandler states them. *)

(* In pairing mode the adapter in use is visible, and none that was left   *)
(* for it is on, as long as the adapter that is chosen is there.           *)
VisibleAsChosen ==
  CASE exercised = "phones" -> Phones!VisibleAsChosen
    [] exercised = "adapters" -> Adapters!VisibleAsChosen
    [] OTHER -> Scans!VisibleAsChosen

(* A device without a name, whose name BlueZ has learnt by the last pass,  *)
(* is shown by that name.                                                  *)
NamesArrive == Phones!NamesArrive

(* The properties of the audio devices, as Volume states them.             *)

(* The lists show the devices that are there.                              *)
ListsFollow ==
  IF exercised = "listening" THEN Listening!ListsFollow
  ELSE Devices!ListsFollow

(* The device the user chose stays chosen.                                 *)
PreferenceKept ==
  IF exercised = "listening" THEN Listening!PreferenceKept
  ELSE Devices!PreferenceKept

(* A card plays as loud as slider and limits say.                          *)
HeardAsSet ==
  IF exercised = "listening" THEN Listening!HeardAsSet
  ELSE Devices!HeardAsSet

(* The properties of the configuration, as Settings states them.           *)

(* What the user set, and what phones were told, lasts.                    *)
SettingsKept == Configuration!SettingsKept

(* A session offers the channels the user had on at the start, and has.    *)
ChannelsAsSet == Configuration!ChannelsAsSet
=============================================================================
