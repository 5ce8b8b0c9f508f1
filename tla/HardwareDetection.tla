------------------------- MODULE HardwareDetection -------------------------
(***************************************************************************)
(* journeyos-hardware-detect, the program that runs once at every boot,    *)
(* and the HardwareProfile the user interface reads afterwards.            *)
(*                                                                         *)
(* A DSI display is seen only on a boot that began with its overlay in     *)
(* /boot/hardware.txt, so the program tries the overlays one after the     *)
(* other and reboots in between.  What it remembers is in two files on     *)
(* /data and in hardware.txt, written one after the other: the power may   *)
(* be cut between any two of them, and a write may fail.                   *)
(*                                                                         *)
(* A HardwareInfo is the set of its flags that are true, and so is         *)
(* hardware.json.  The hardware does not change between boots, except that *)
(* a panel that is there may not answer (the MIPI failure the comments     *)
(* describe).  display.conf and audio.conf, which only other programs      *)
(* read, are left out.                                                     *)
(***************************************************************************)
EXTENDS Naturals, FiniteSets

CONSTANTS
  Machines,   \* what may be connected to a head unit: sets of Device
  HatSets,    \* the HATs that may sit on it
  MaxFaults   \* bound: power cuts, failed writes and updates

Device ==
  {"raspberry_pi", "hdmi", "i2c", "onboard_audio", "usb_audio", "capture",
   "wifi_onboard", "wifi_usb", "usb_first", "bt_onboard", "bt_usb",
   "pi_camera", "usb_camera", "usb_gps", "serial"}
Hat == {"dac", "can", "rtc", "gps", "pimoroni"}
Panel == {"td2", "ts1"}

ASSUME MachinesAssumption == Machines \subseteq SUBSET Device
ASSUME HatSetsAssumption == HatSets \subseteq SUBSET Hat
ASSUME BoundsAssumption == MaxFaults \in Nat

VARIABLES
  devices,     \* what is connected, the monitor included
  panel,       \* the DSI panel, or "none"
  fitted,      \* the HATs
  eeprom,      \* those whose EEPROM names them
  writable,    \* /data can be written
  phase,       \* where the program is; "up" once it has ended
  loaded,      \* the overlays the boot loader took
  info,        \* what was detected on this boot
  profile,     \* what HardwareProfile tells, as the set of its flags
  plan,        \* what manageBootOverlays() has decided to write
  state,       \* /data/journeyos/display-probe-state, as a reader has it
  failCount,   \* /data/journeyos/display-probe-fail-count
  disk,        \* both as they are on the medium
  hardwareTxt, \* the overlays of /boot/hardware.txt
  faults,      \* faults so far
  torn         \* a fault has come between state and hardwareTxt

machineVars == <<devices, panel, fitted, eeprom, writable>>
runVars == <<loaded, info, profile, plan>>
fileVars == <<state, failCount, disk, hardwareTxt>>
countVars == <<faults, torn>>
vars == <<machineVars, phase, runVars, fileVars, countVars>>

kProbeRetries == 2
Overlays == [display : Panel \cup {""}, hats : SUBSET Hat]
NoOverlay == [display |-> "", hats |-> {}]
Check(c) == [td2 |-> "check-td2", ts1 |-> "check-ts1"][c]
Done(c) == [td2 |-> "done-td2", ts1 |-> "done-ts1"][c]
States ==
  {"", "garbled", "probe-td2", "check-td2", "check-ts1", "done-td2",
   "done-ts1", "done-hdmi"}
Phases ==
  {"off", "detect", "manage", "state", "fails", "overlays", "reboot", "up"}
Plans ==
  [state : States, fails : 0..(kProbeRetries - 1),
   display : Panel \cup {""}, reboot : BOOLEAN]

InfoFlags ==
  {"dsi", "hdmi", "iqaudio_dac", "onboard_audio", "usb_audio", "usb_mic",
   "wifi_onboard", "wifi_usb", "bt_onboard", "bt_usb", "pi_camera",
   "usb_camera", "gps", "hat_dac", "hat_can", "hat_rtc", "hat_gps",
   "hat_pimoroni"}
ProfileFlags ==
  {"dsi", "hdmi", "iqaudio_dac", "onboard_audio", "usb_audio", "usb_mic",
   "wifi", "bluetooth", "pi_camera", "usb_camera", "gps", "can", "rtc"}

TypeOK ==
  /\ devices \in Machines /\ panel \in Panel \cup {"none"}
  /\ fitted \in HatSets /\ eeprom \subseteq fitted /\ writable \in BOOLEAN
  /\ phase \in Phases
  /\ loaded \in Overlays /\ info \subseteq InfoFlags
  /\ profile \subseteq ProfileFlags /\ plan \in Plans
  /\ state \in States /\ failCount \in 0..(kProbeRetries - 1)
  /\ disk \in [state : States, fails : 0..(kProbeRetries - 1)]
  /\ hardwareTxt \in Overlays
  /\ faults \in 0..MaxFaults /\ torn \in BOOLEAN

(* A head unit that was never switched on. *)
Init ==
  /\ devices \in Machines /\ panel \in Panel \cup {"none"}
  /\ fitted \in HatSets /\ eeprom \in {{}, fitted}
  /\ writable \in BOOLEAN
  /\ phase = "off" /\ loaded = NoOverlay /\ info = {} /\ profile = {}
  /\ plan = [state |-> "", fails |-> 0, display |-> "", reboot |-> FALSE]
  /\ state = "" /\ failCount = 0 /\ disk = [state |-> "", fails |-> 0]
  /\ hardwareTxt = NoOverlay
  /\ faults = 0 /\ torn = FALSE

-----------------------------------------------------------------------------
(* Detection. *)

Flag(f, holds) == IF holds THEN {f} ELSE {}

(* RpiHardwareDetector: a DSI panel is connected if its own overlay was    *)
(* loaded and it answers; a monitor if it has an EDID.                     *)
DetectDisplay(answers) ==
  Flag("dsi", answers /\ loaded.display = panel)
    \cup Flag("hdmi", "hdmi" \in devices)

(* The card of the DAC exists once its overlay is loaded; a USB card has a *)
(* microphone if it captures.                                              *)
DetectAudio ==
  Flag("iqaudio_dac", "dac" \in fitted \cap loaded.hats)
    \cup (devices \cap {"onboard_audio", "usb_audio"})
    \cup Flag("usb_mic", {"usb_audio", "capture"} \subseteq devices)

(* An onboard device is looked for under the first name of its kind only   *)
(* (wlan0, hci0, video0), which a USB device that came first has taken.    *)
Found(onboard, usb) ==
  (devices \cap {usb})
    \cup Flag(onboard, /\ onboard \in devices
                       /\ ~({usb, "usb_first"} \subseteq devices))

DetectConnectivity ==
  Found("wifi_onboard", "wifi_usb") \cup Found("bt_onboard", "bt_usb")

DetectCamera == Found("pi_camera", "usb_camera")

(* What a HAT's flag is called. *)
HatFlag(h) ==
  [dac |-> "hat_dac", can |-> "hat_can", rtc |-> "hat_rtc",
   gps |-> "hat_gps", pimoroni |-> "hat_pimoroni"][h]

(* Of the HATs whose EEPROM names them one has a name nobody looks for.    *)
NamedHats == eeprom \ {"pimoroni"}

(* A HAT answers on the I2C bus, unless the kernel's driver has its        *)
(* address: then only the DAC is looked up in sysfs.  The overlay of the   *)
(* clock brings such a driver.                                             *)
Answers(h) == h \in fitted /\ ~(h = "rtc" /\ "rtc" \in loaded.hats)

FoundHats ==
  NamedHats \cup {h \in Hat : "i2c" \in devices /\ Answers(h)}

DetectHats ==
  {HatFlag(h) : h \in FoundHats} \cup Flag("iqaudio_dac", "dac" \in FoundHats)

(* A receiver on USB, or one on a HAT that has a serial port. *)
DetectGps ==
  Flag("gps", \/ "usb_gps" \in devices
              \/ "gps" \in FoundHats /\ "serial" \in devices)

DetectRpi(answers) ==
  UNION {DetectDisplay(answers), DetectAudio, DetectConnectivity,
         DetectCamera, DetectHats, DetectGps}

(* QtHardwareDetector, on anything else: Qt tells neither which bus an     *)
(* adapter is on nor whether there are HATs or a GPS.                      *)
DetectQt ==
  UNION {devices \cap {"hdmi", "onboard_audio", "usb_audio", "pi_camera",
                       "usb_camera"},
         Flag("usb_mic", {"usb_audio", "capture"} \subseteq devices),
         Flag("wifi_onboard", devices \cap {"wifi_onboard", "wifi_usb"} # {}),
         Flag("bt_onboard", devices \cap {"bt_onboard", "bt_usb"} # {})}

(* Fault: a receiver on a HAT is not one. *)
LoadIgnoresHatGps(json) ==
  UNION {json \cap {"dsi", "hdmi", "onboard_audio", "usb_audio", "usb_mic",
                    "pi_camera", "usb_camera", "gps"},
         Flag("iqaudio_dac", json \cap {"iqaudio_dac", "hat_dac"} # {}),
         Flag("wifi", json \cap {"wifi_onboard", "wifi_usb"} # {}),
         Flag("bluetooth", json \cap {"bt_onboard", "bt_usb"} # {}),
         Flag("can", "hat_can" \in json), Flag("rtc", "hat_rtc" \in json)}

(* HardwareProfile::load(), of hardware.json as it was written. *)
Load(json) ==
  UNION {json \cap {"dsi", "hdmi", "onboard_audio", "usb_audio", "usb_mic",
                    "pi_camera", "usb_camera"},
         Flag("iqaudio_dac", json \cap {"iqaudio_dac", "hat_dac"} # {}),
         Flag("wifi", json \cap {"wifi_onboard", "wifi_usb"} # {}),
         Flag("bluetooth", json \cap {"bt_onboard", "bt_usb"} # {}),
         Flag("gps", json \cap {"gps", "hat_gps"} # {}),
         Flag("can", "hat_can" \in json), Flag("rtc", "hat_rtc" \in json)}

(* And without the file. *)
SafeDefaults == {"hdmi", "wifi", "bluetooth"}

-----------------------------------------------------------------------------
(* The machine. *)

PowerOn ==
  /\ phase = "off" /\ phase' = "detect"
  /\ loaded' = hardwareTxt
  /\ UNCHANGED <<machineVars, info, profile, plan, fileVars, countVars>>

(* main() detects and writes hardware.json, which is in memory: it is      *)
(* gone with the boot.                                                     *)
Detect ==
  /\ phase = "detect" /\ phase' = "manage"
  /\ \E answers \in BOOLEAN :
       info' = IF "raspberry_pi" \in devices THEN DetectRpi(answers)
               ELSE DetectQt
  /\ profile' = Load(info')
  /\ UNCHANGED <<machineVars, loaded, plan, fileVars, countVars>>

(* Or it cannot be written. *)
DetectUnwritten ==
  /\ phase = "detect" /\ phase' = "manage" /\ faults < MaxFaults
  /\ \E answers \in BOOLEAN :
       info' = IF "raspberry_pi" \in devices THEN DetectRpi(answers)
               ELSE DetectQt
  /\ profile' = SafeDefaults /\ faults' = faults + 1
  /\ UNCHANGED <<machineVars, loaded, plan, fileVars, torn>>

(* Fault: the next candidate is checked under the overlay of this one. *)
CheckResultKeepsOverlay(c, fails, dsi, next, then) ==
  IF dsi
  THEN [state |-> Done(c), fails |-> 0, display |-> c, reboot |-> FALSE]
  ELSE [state |-> IF fails + 1 < kProbeRetries THEN Check(c) ELSE then,
        fails |-> (fails + 1) % kProbeRetries, display |-> c, reboot |-> TRUE]

(* Fault: a candidate that failed is tried for ever. *)
CheckResultForEver(c, fails, dsi, next, then) ==
  IF dsi
  THEN [state |-> Done(c), fails |-> 0, display |-> c, reboot |-> FALSE]
  ELSE [state |-> Check(c), fails |-> (fails + 1) % kProbeRetries,
        display |-> c, reboot |-> TRUE]

(* What a check of candidate c comes to; next and then are the overlay and *)
(* the state after the last failure.                                       *)
CheckResult(c, fails, dsi, next, then) ==
  IF dsi
  THEN [state |-> Done(c), fails |-> 0, display |-> c, reboot |-> FALSE]
  ELSE IF fails + 1 < kProbeRetries
  THEN [state |-> Check(c), fails |-> fails + 1, display |-> c,
        reboot |-> TRUE]
  ELSE [state |-> then, fails |-> 0, display |-> next, reboot |-> TRUE]

(* The state machine: what to write, and whether to reboot. *)
Decision(s, fails, dsi, hdmi) ==
  LET keep(display) == [state |-> s, fails |-> fails, display |-> display,
                        reboot |-> FALSE]
      begin == [state |-> Check("td2"), fails |-> 0, display |-> "td2",
                reboot |-> TRUE]
  IN CASE s \in {"", "probe-td2"} ->
            IF hdmi THEN [state |-> "done-hdmi", fails |-> 0, display |-> "",
                          reboot |-> FALSE]
            ELSE begin
       [] s = "check-td2" ->
            CheckResult("td2", fails, dsi, "ts1", Check("ts1"))
       [] s = "check-ts1" -> CheckResult("ts1", fails, dsi, "", "done-hdmi")
       [] s = "done-td2" -> keep("td2")
       [] s = "done-ts1" -> keep("ts1")
       [] s = "done-hdmi" -> keep("")
       [] OTHER -> begin

(* manageBootOverlays() reads the files and decides; built for another     *)
(* machine, or without /boot, it returns.                                  *)
Manage ==
  /\ phase = "manage"
  /\ IF "raspberry_pi" \in devices
     THEN /\ plan' =
               Decision(state, failCount, "dsi" \in info, "hdmi" \in info)
          /\ phase' = "state"
     ELSE phase' = "up" /\ UNCHANGED plan
  /\ UNCHANGED <<machineVars, loaded, info, profile, fileVars, countVars>>

BootNotMounted ==
  /\ phase = "manage" /\ phase' = "up" /\ faults < MaxFaults
  /\ faults' = faults + 1
  /\ UNCHANGED <<machineVars, runVars, fileVars, torn>>

(* writeState() and writeFailCount() say nothing when they fail. *)
WriteState ==
  /\ phase = "state" /\ phase' = "fails"
  /\ state' = IF writable THEN plan.state ELSE state
  /\ UNCHANGED <<machineVars, runVars, failCount, disk, hardwareTxt, countVars>>

WriteFailCount ==
  /\ phase = "fails" /\ phase' = "overlays"
  /\ failCount' = IF writable THEN plan.fails ELSE failCount
  /\ UNCHANGED <<machineVars, runVars, state, disk, hardwareTxt, countVars>>

(* The HATs with an overlay, of those detected. *)
HatOverlays ==
  Flag("dac", info \cap {"hat_dac", "iqaudio_dac"} # {})
    \cup Flag("can", "hat_can" \in info) \cup Flag("rtc", "hat_rtc" \in info)

(* hardware.txt is written on every boot, and reaches the medium. *)
WriteOverlays ==
  /\ phase = "overlays"
  /\ phase' = IF plan.reboot THEN "reboot" ELSE "up"
  /\ hardwareTxt' = [display |-> plan.display, hats |-> HatOverlays]
  /\ UNCHANGED <<machineVars, runVars, state, failCount, disk, countVars>>

(* Or it cannot be written: the boot goes on as it is. *)
OverlaysUnwritten ==
  /\ phase = "overlays" /\ phase' = "up" /\ faults < MaxFaults
  /\ faults' = faults + 1 /\ torn' = TRUE
  /\ UNCHANGED <<machineVars, runVars, fileVars>>

(* sync() brings the other files to the medium. *)
Sync == disk' = [state |-> state, fails |-> failCount]

Reboot ==
  /\ phase = "reboot" /\ phase' = "detect"
  /\ Sync /\ loaded' = hardwareTxt
  /\ UNCHANGED <<machineVars, info, profile, plan, state, failCount,
                 hardwareTxt, countVars>>

(* The head unit is shut down. *)
ShutDown ==
  /\ phase = "up" /\ phase' = "off" /\ Sync
  /\ UNCHANGED <<machineVars, runVars, state, failCount, hardwareTxt, countVars>>

(* An update brings a boot volume without overlays, and restarts. *)
Update ==
  /\ phase = "up" /\ phase' = "off" /\ faults < MaxFaults /\ Sync
  /\ hardwareTxt' = NoOverlay /\ faults' = faults + 1
  /\ UNCHANGED <<machineVars, runVars, state, failCount, torn>>

(* The power is cut: of a file that was written since the last sync the    *)
(* medium has the old contents, the new, none, or a part.                  *)
PowerCut ==
  /\ phase # "off" /\ phase' = "off" /\ faults < MaxFaults
  /\ state' \in {state, disk.state}
       \cup (IF state = disk.state THEN {} ELSE {"", "garbled"})
  /\ failCount' \in {failCount, disk.fails, 0}
  /\ disk' = [state |-> state', fails |-> failCount']
  /\ faults' = faults + 1
  /\ torn' = (torn \/ phase \in {"fails", "overlays", "reboot"})
  /\ UNCHANGED <<machineVars, runVars, hardwareTxt>>

Program ==
  \/ Detect \/ Manage \/ WriteState \/ WriteFailCount \/ WriteOverlays
  \/ Reboot
Faults ==
  \/ DetectUnwritten \/ BootNotMounted \/ OverlaysUnwritten
  \/ Update \/ PowerCut

Next == Program \/ Faults \/ PowerOn \/ ShutDown

(* The program runs, and the reboot it asks for comes.  Nobody has to      *)
(* switch the head unit on.                                                *)
Spec == Init /\ [][Next]_vars /\ WF_vars(Program)

-----------------------------------------------------------------------------
(* Safety properties. *)

(* The overlay that is locked in is that of the panel that is there,       *)
(* whatever boots the panel missed and wherever the power was cut, except  *)
(* between the write of the state and that of hardware.txt: there the two  *)
(* files come to disagree, and a panel can be confirmed under the other's  *)
(* name.                                                                   *)
LockedAsSeen ==
  ~torn => \A c \in Panel : state = Done(c) => panel = c

(* Once it is up, what the user is told of the hardware is what is         *)
(* connected: the panel (which may not have answered) and the clock (whose *)
(* driver hides it) left aside, the Pi's camera if a USB camera came       *)
(* first, and HATs if they can be found at all.                            *)
Shown ==
  UNION {devices \cap {"hdmi", "onboard_audio", "usb_audio", "usb_camera"},
         Flag("pi_camera",
              /\ "pi_camera" \in devices
              /\ ~({"usb_camera", "usb_first"} \subseteq devices)),
         Flag("usb_mic", {"usb_audio", "capture"} \subseteq devices),
         Flag("wifi", devices \cap {"wifi_onboard", "wifi_usb"} # {}),
         Flag("bluetooth", devices \cap {"bt_onboard", "bt_usb"} # {}),
         Flag("iqaudio_dac", "dac" \in fitted),
         Flag("can", "can" \in fitted),
         Flag("gps", "usb_gps" \in devices \/ "gps" \in fitted)}

ShownAsFitted ==
  (/\ phase = "up" /\ profile # SafeDefaults
   /\ {"raspberry_pi", "i2c"} \subseteq devices)
    => profile \ {"dsi", "rtc"} = Shown

-----------------------------------------------------------------------------
(* Liveness. *)

(* The head unit does not reboot for ever, however its panel behaves, as   *)
(* long as /data can be written: it comes up, unless its power is cut.     *)
ComesUp == (writable /\ phase = "detect") ~> phase \in {"up", "off"}
=============================================================================
