--------------------------- MODULE PlatformProofs ---------------------------
(***************************************************************************)
(* Proofs about Platform: the hardware detection, which it extends, and,   *)
(* with the proofs about its instances, the Bluetooth popup, the audio     *)
(* devices and the configuration, for any machine, any HATs, any phones,   *)
(* any devices, any passwords and any number of what may happen.           *)
(*                                                                         *)
(* A candidate is confirmed when a panel answers, which it does under its  *)
(* own overlay only.  So the state machine must never check one candidate  *)
(* with the other's overlay loaded, whichever of the two versions of the   *)
(* state a power cut leaves: that is Consistent below.                     *)
(***************************************************************************)
EXTENDS Platform, TLAPS

-----------------------------------------------------------------------------
(* The decisions, case by case. *)

(* The states that name a candidate. *)
LEMMA StateNames ==
  /\ Check("td2") = "check-td2" /\ Done("td2") = "done-td2"
  /\ Check("ts1") = "check-ts1" /\ Done("ts1") = "done-ts1"
BY DEF Check, Done

Planning(st, f, di, re) ==
  [state |-> st, fails |-> f, display |-> di, reboot |-> re]
Decided == Decision(state, failCount, "dsi" \in info, "hdmi" \in info)

(* The candidates that a check may be of, and what comes after each. *)
CheckOf(c, next, then) ==
  \/ "dsi" \in info /\ Decided = Planning(Done(c), 0, c, FALSE)
  \/ Decided = Planning(Check(c), 1, c, TRUE)
  \/ Decided = Planning(then, 0, next, TRUE)

(* Nothing was tried, or what was cannot be read: the first candidate, or  *)
(* none if there is a monitor.                                             *)
LEMMA DecisionBegins ==
  ASSUME state \in {"", "probe-td2", "garbled"}
  PROVE  \/ Decided = Planning("done-hdmi", 0, "", FALSE)
         \/ Decided = Planning("check-td2", 0, "td2", TRUE)
<1>1. CASE state \in {"", "probe-td2"}
  BY <1>1, StateNames DEF Decided, Decision, Planning
<1>2. CASE state = "garbled"
  BY <1>2, StateNames DEF Decided, Decision, Planning
<1>3. QED
  BY <1>1, <1>2

(* A check confirms its candidate, tries it again, or goes on to the next. *)
LEMMA DecisionChecks ==
  ASSUME TypeOK
  PROVE  /\ state = "check-td2" => CheckOf("td2", "ts1", "check-ts1")
         /\ state = "check-ts1" => CheckOf("ts1", "", "done-hdmi")
<1>1. failCount \in {0, 1}
  BY DEF TypeOK, kProbeRetries
<1>2. failCount + 1 < kProbeRetries => failCount + 1 = 1
  BY <1>1 DEF kProbeRetries
<1>3. ASSUME state = "check-td2" PROVE CheckOf("td2", "ts1", "check-ts1")
  <2>1. Decided = CheckResult("td2", failCount, "dsi" \in info, "ts1",
                              "check-ts1")
    BY <1>3, StateNames DEF Decided, Decision
  <2>2. QED
    BY <1>2, <2>1, Zenon DEF CheckOf, CheckResult, Planning
<1>4. ASSUME state = "check-ts1" PROVE CheckOf("ts1", "", "done-hdmi")
  <2>1. Decided = CheckResult("ts1", failCount, "dsi" \in info, "",
                              "done-hdmi")
    BY <1>4, StateNames DEF Decided, Decision
  <2>2. QED
    BY <1>2, <2>1, Zenon DEF CheckOf, CheckResult, Planning
<1>5. QED
  BY <1>3, <1>4

(* What is locked in stays.                                                *)
LEMMA DecisionKeeps ==
  /\ state = "done-td2" =>
       Decided = Planning("done-td2", failCount, "td2", FALSE)
  /\ state = "done-ts1" =>
       Decided = Planning("done-ts1", failCount, "ts1", FALSE)
  /\ state = "done-hdmi" =>
       Decided = Planning("done-hdmi", failCount, "", FALSE)
BY DEF Decided, Decision, Planning

-----------------------------------------------------------------------------
(* Types. *)

(* Whatever is decided can be written.                                     *)
LEMMA DecisionTypes ==
  ASSUME TypeOK
  PROVE  Decided \in Plans
<1>1. \A st \in States, f \in 0..(kProbeRetries - 1), di \in Panel \cup {""},
         re \in BOOLEAN : Planning(st, f, di, re) \in Plans
  BY DEF Planning, Plans
<1>2. {0, 1} \subseteq 0..(kProbeRetries - 1)
  BY DEF kProbeRetries
<1>3. CASE state \in {"", "probe-td2", "garbled"}
  <2>1. Planning("done-hdmi", 0, "", FALSE) \in Plans
    BY <1>1, <1>2 DEF States
  <2>2. Planning("check-td2", 0, "td2", TRUE) \in Plans
    BY <1>1, <1>2 DEF States, Panel
  <2>3. QED
    BY <1>3, <2>1, <2>2, DecisionBegins
<1>4. CASE state = "check-td2"
  <2>1. CheckOf("td2", "ts1", "check-ts1")
    BY <1>4, DecisionChecks
  <2>2. Planning("done-td2", 0, "td2", FALSE) \in Plans
    BY <1>1, <1>2 DEF States, Panel
  <2>3. Planning("check-td2", 1, "td2", TRUE) \in Plans
    BY <1>1, <1>2 DEF States, Panel
  <2>4. Planning("check-ts1", 0, "ts1", TRUE) \in Plans
    BY <1>1, <1>2 DEF States, Panel
  <2>5. QED
    BY <2>1, <2>2, <2>3, <2>4, StateNames DEF CheckOf
<1>5. CASE state = "check-ts1"
  <2>1. CheckOf("ts1", "", "done-hdmi")
    BY <1>5, DecisionChecks
  <2>2. Planning("done-ts1", 0, "ts1", FALSE) \in Plans
    BY <1>1, <1>2 DEF States, Panel
  <2>3. Planning("check-ts1", 1, "ts1", TRUE) \in Plans
    BY <1>1, <1>2 DEF States, Panel
  <2>4. Planning("done-hdmi", 0, "", TRUE) \in Plans
    BY <1>1, <1>2 DEF States, Panel
  <2>5. QED
    BY <2>1, <2>2, <2>3, <2>4, StateNames DEF CheckOf
<1>6. CASE state \in {"done-td2", "done-ts1", "done-hdmi"}
  <2>1. /\ Planning("done-td2", failCount, "td2", FALSE) \in Plans
        /\ Planning("done-ts1", failCount, "ts1", FALSE) \in Plans
        /\ Planning("done-hdmi", failCount, "", FALSE) \in Plans
    BY <1>1 DEF TypeOK, States, Panel
  <2>2. QED
    BY <1>6, <2>1, DecisionKeeps
<1>7. QED
  BY <1>3, <1>4, <1>5, <1>6 DEF TypeOK, States

(* One flag, if any.                                                       *)
LEMMA FlagTypes ==
  ASSUME NEW S, NEW f \in S, NEW holds
  PROVE  Flag(f, holds) \subseteq S
BY DEF Flag

(* At most the two flags of a kind.                                        *)
LEMMA FoundTypes ==
  ASSUME NEW S, NEW onboard \in S, NEW usb \in S
  PROVE  Found(onboard, usb) \subseteq S
BY FlagTypes DEF Found

(* Both detectors tell flags of HardwareInfo.                              *)
LEMMA DetectedTypes ==
  ASSUME TypeOK, NEW seen
  PROVE  DetectRpi(seen) \subseteq InfoFlags /\ DetectQt \subseteq InfoFlags
<1>1. DetectDisplay(seen) \subseteq InfoFlags
  BY FlagTypes DEF DetectDisplay, InfoFlags
<1>2. DetectAudio \subseteq InfoFlags
  BY DEF DetectAudio, Flag, InfoFlags
<1>3. DetectConnectivity \subseteq InfoFlags /\ DetectCamera \subseteq InfoFlags
  BY DEF DetectConnectivity, DetectCamera, Found, Flag, InfoFlags
<1>4. DetectHats \subseteq InfoFlags
  <2>1. \A h \in Hat : HatFlag(h) \in InfoFlags
    BY DEF Hat, HatFlag, InfoFlags
  <2>2. FoundHats \subseteq Hat
    BY HatSetsAssumption DEF FoundHats, NamedHats, TypeOK
  <2>3. Flag("iqaudio_dac", "dac" \in FoundHats) \subseteq InfoFlags
    BY FlagTypes DEF InfoFlags
  <2>4. QED
    BY <2>1, <2>2, <2>3 DEF DetectHats
<1>5. DetectGps \subseteq InfoFlags
  BY FlagTypes DEF DetectGps, InfoFlags
<1>6. DetectRpi(seen) \subseteq InfoFlags
  BY <1>1, <1>2, <1>3, <1>4, <1>5 DEF DetectRpi
<1>7. DetectQt \subseteq InfoFlags
  BY DEF DetectQt, Flag, InfoFlags
<1>8. QED
  BY <1>6, <1>7

(* The profile has its own flags, whatever hardware.json says.             *)
LEMMA LoadTypes ==
  ASSUME NEW json
  PROVE  Load(json) \subseteq ProfileFlags
BY DEF Load, Flag, ProfileFlags

(* hardware.txt names overlays.                                            *)
LEMMA OverlayTypes ==
  ASSUME NEW display \in Panel \cup {""}
  PROVE  [display |-> display, hats |-> HatOverlays] \in Overlays
<1>1. HatOverlays \subseteq Hat
  BY FlagTypes DEF HatOverlays, Hat
<1>2. QED
  BY <1>1 DEF Overlays

(* And an update's names none.                                             *)
LEMMA NoOverlayType == NoOverlay \in Overlays
BY DEF NoOverlay, Overlays

(* The program keeps the types,                                            *)
LEMMA ProgramTypes ==
  ASSUME TypeOK, Program
  PROVE  TypeOK'
<1>1. CASE Detect
  <2>1. PICK seen \in BOOLEAN :
          info' = IF "raspberry_pi" \in devices THEN DetectRpi(seen)
                  ELSE DetectQt
    BY <1>1 DEF Detect
  <2>2. info' \subseteq InfoFlags
    BY <2>1, DetectedTypes
  <2>3. profile' \subseteq ProfileFlags
    BY <1>1, LoadTypes DEF Detect
  <2>4. QED
    BY <1>1, <2>2, <2>3
    DEF TypeOK, Detect, Phases, machineVars, fileVars, countVars
<1>2. CASE Manage
  <2>1. phase' \in Phases /\ plan' \in Plans
    BY <1>2, DecisionTypes DEF TypeOK, Manage, Decided, Phases
  <2>2. QED
    BY <1>2, <2>1 DEF TypeOK, Manage, machineVars, fileVars, countVars
<1>3. CASE WriteState
  <2>1. state' \in States
    BY <1>3 DEF TypeOK, WriteState, Plans
  <2>2. QED
    BY <1>3, <2>1
    DEF TypeOK, WriteState, Phases, machineVars, runVars, countVars
<1>4. CASE WriteFailCount
  <2>1. failCount' \in 0..(kProbeRetries - 1)
    BY <1>4 DEF TypeOK, WriteFailCount, Plans
  <2>2. QED
    BY <1>4, <2>1
    DEF TypeOK, WriteFailCount, Phases, machineVars, runVars, countVars
<1>5. CASE WriteOverlays
  <2>1. hardwareTxt' \in Overlays
    BY <1>5, OverlayTypes DEF TypeOK, WriteOverlays, Plans
  <2>2. phase' \in Phases
    BY <1>5 DEF WriteOverlays, Phases
  <2>3. QED
    BY <1>5, <2>1, <2>2
    DEF TypeOK, WriteOverlays, machineVars, runVars, countVars
<1>6. CASE Reboot
  <2>1. disk' \in [state : States, fails : 0..(kProbeRetries - 1)]
    BY <1>6 DEF TypeOK, Reboot, Sync
  <2>2. QED
    BY <1>6, <2>1 DEF TypeOK, Reboot, Phases, machineVars, countVars
<1>7. QED
  BY <1>1, <1>2, <1>3, <1>4, <1>5, <1>6 DEF Program

(* and so do faults, power-on and shutdown,                                *)
LEMMA OtherTypes ==
  ASSUME TypeOK, Faults \/ PowerOn \/ ShutDown
  PROVE  TypeOK'
<1>1. \A f \in 0..MaxFaults : f < MaxFaults => f + 1 \in 0..MaxFaults
  BY BoundsAssumption
<1>2. [state |-> state, fails |-> failCount]
        \in [state : States, fails : 0..(kProbeRetries - 1)]
  BY DEF TypeOK
<1>3. CASE DetectUnwritten
  <2>1. PICK seen \in BOOLEAN :
          info' = IF "raspberry_pi" \in devices THEN DetectRpi(seen)
                  ELSE DetectQt
    BY <1>3 DEF DetectUnwritten
  <2>2. info' \subseteq InfoFlags
    BY <2>1, DetectedTypes
  <2>3. profile' \subseteq ProfileFlags
    BY <1>3 DEF DetectUnwritten, SafeDefaults, ProfileFlags
  <2>4. faults' \in 0..MaxFaults
    BY <1>1, <1>3 DEF TypeOK, DetectUnwritten
  <2>5. QED
    BY <1>3, <2>2, <2>3, <2>4
    DEF TypeOK, DetectUnwritten, Phases, machineVars, fileVars
<1>4. CASE BootNotMounted
  <2>1. faults' \in 0..MaxFaults
    BY <1>1, <1>4 DEF TypeOK, BootNotMounted
  <2>2. QED
    BY <1>4, <2>1
    DEF TypeOK, BootNotMounted, Phases, machineVars, runVars, fileVars
<1>5. CASE OverlaysUnwritten
  <2>1. faults' \in 0..MaxFaults
    BY <1>1, <1>5 DEF TypeOK, OverlaysUnwritten
  <2>2. QED
    BY <1>5, <2>1
    DEF TypeOK, OverlaysUnwritten, Phases, machineVars, runVars, fileVars
<1>6. CASE Update
  <2>1. faults' \in 0..MaxFaults
    BY <1>1, <1>6 DEF TypeOK, Update
  <2>2. hardwareTxt' \in Overlays
    BY <1>6, NoOverlayType DEF Update
  <2>3. disk' \in [state : States, fails : 0..(kProbeRetries - 1)]
    BY <1>2, <1>6 DEF Update, Sync
  <2>4. QED
    BY <1>6, <2>1, <2>2, <2>3 DEF TypeOK, Update, Phases, machineVars, runVars
<1>7. CASE PowerCut
  <2>1. faults' \in 0..MaxFaults
    BY <1>1, <1>7 DEF TypeOK, PowerCut
  <2>2. state' \in States
    <3>1. state' \in {state, disk.state, "", "garbled"}
      BY <1>7 DEF PowerCut
    <3>2. QED
      BY <3>1 DEF TypeOK, States
  <2>3. failCount' \in 0..(kProbeRetries - 1)
    <3>1. failCount' \in {failCount, disk.fails, 0}
      BY <1>7 DEF PowerCut
    <3>2. 0 \in 0..(kProbeRetries - 1)
      BY DEF kProbeRetries
    <3>3. QED
      BY <3>1, <3>2 DEF TypeOK
  <2>4. disk' \in [state : States, fails : 0..(kProbeRetries - 1)]
    BY <1>7, <2>2, <2>3 DEF PowerCut
  <2>5. torn' \in BOOLEAN
    BY <1>7 DEF PowerCut
  <2>6. QED
    BY <1>7, <2>1, <2>2, <2>3, <2>4, <2>5
    DEF TypeOK, PowerCut, Phases, machineVars, runVars
<1>8. CASE PowerOn
  BY <1>8 DEF TypeOK, PowerOn, Phases, machineVars, fileVars, countVars
<1>9. CASE ShutDown
  <2>1. disk' \in [state : States, fails : 0..(kProbeRetries - 1)]
    BY <1>2, <1>9 DEF ShutDown, Sync
  <2>2. QED
    BY <1>9, <2>1 DEF TypeOK, ShutDown, Phases, machineVars, runVars, countVars
<1>10. QED
  BY <1>3, <1>4, <1>5, <1>6, <1>7, <1>8, <1>9 DEF Faults

(* and the first boot has them.                                            *)
LEMMA InitTypes == Init => TypeOK
<1>1. SUFFICES ASSUME Init PROVE TypeOK
  OBVIOUS
<1>2. 0 \in 0..MaxFaults /\ 0 \in 0..(kProbeRetries - 1)
  BY BoundsAssumption DEF kProbeRetries
<1>3. /\ plan \in Plans
      /\ disk \in [state : States, fails : 0..(kProbeRetries - 1)]
  BY <1>1, <1>2 DEF Init, Plans, States
<1>4. QED
  BY <1>1, <1>2, <1>3, NoOverlayType DEF Init, TypeOK, Phases, States

(* So does every step, and every step of something else.                   *)
LEMMA StepTypes ==
  ASSUME TypeOK, [Next]_vars
  PROVE  TypeOK'
<1>1. UNCHANGED vars => TypeOK'
  BY DEF TypeOK, vars, machineVars, runVars, fileVars, countVars
<1>2. QED
  BY <1>1, ProgramTypes, OtherTypes DEF Next

-----------------------------------------------------------------------------
(* The overlay that is locked in. *)

Settled == {"off", "detect", "manage", "state"}
Planned == {"state", "fails", "overlays", "reboot"}

(* s may be read as the state: no other panel is locked in, and the one    *)
(* that is being checked is checked under its overlay, or under none.      *)
Sound(s) ==
  \A c \in Panel :
    /\ s = Done(c) => panel = c
    /\ s = Check(c) /\ phase \in Settled \cup {"up"}
         => hardwareTxt.display \in {c, ""}

(* What was decided keeps to that, also if the old state comes back. *)
SoundPlan ==
  \A c \in Panel :
    /\ plan.state = Done(c) => panel = c
    /\ plan.state = Check(c) => plan.display = c
    /\ ~plan.reboot /\ disk.state = Check(c) => plan.display = c

Consistent ==
  /\ Sound(state) /\ Sound(disk.state)
  /\ phase \in Settled => disk.state = state
  /\ phase \in {"detect", "manage"} => loaded = hardwareTxt
  /\ phase = "manage" /\ "dsi" \in info => loaded.display = panel
  /\ phase \in Planned => SoundPlan
  /\ phase \in Planned \ {"state"} => state \in {plan.state, ""}
  /\ phase = "reboot" => hardwareTxt.display = plan.display
  /\ ~writable => state = "" /\ disk.state = ""

LockInv == TypeOK /\ (~torn => Consistent)

(* No state of a candidate is taken for another's, or for none.            *)
LEMMA NamesApart ==
  ASSUME NEW c \in Panel
  PROVE  /\ Check(c) # "" /\ Done(c) # "" /\ Check(c) # "garbled"
         /\ Done(c) # "garbled"
         /\ Check(c) # "done-hdmi" /\ Done(c) # "done-hdmi"
         /\ \A d \in Panel : /\ Check(c) # Done(d)
                             /\ Check(c) = Check(d) => c = d
                             /\ Done(c) = Done(d) => c = d
BY StateNames DEF Panel

(* A panel that seen is there, so what is decided is sound. *)
LEMMA DecisionSound ==
  ASSUME TypeOK, Consistent, phase = "manage", plan' = Decided,
         disk' = disk, panel' = panel
  PROVE  SoundPlan'
<1>1. SUFFICES ASSUME NEW c \in Panel
               PROVE  /\ Decided.state = Done(c) => panel = c
                      /\ Decided.state = Check(c) => Decided.display = c
                      /\ ~Decided.reboot /\ state = Check(c)
                           => Decided.display = c
  BY DEF SoundPlan, Consistent, Settled
<1>2. ASSUME NEW p \in Panel, state = Check(p), "dsi" \in info
      PROVE  panel = p
  <2>1. hardwareTxt.display = panel /\ hardwareTxt.display \in {p, ""}
    BY <1>2 DEF Consistent, Sound, Settled
  <2>2. QED
    BY <2>1 DEF TypeOK, Panel
<1>3. ASSUME NEW st, NEW f, NEW di, NEW re, Decided = Planning(st, f, di, re)
      PROVE  Decided.state = st /\ Decided.display = di /\ Decided.reboot = re
  BY <1>3 DEF Planning
<1>4. CASE state \in {"", "probe-td2", "garbled"}
  <2>1. \/ Decided.state = "done-hdmi"
        \/ Decided.state = "check-td2" /\ Decided.display = "td2"
    BY <1>3, <1>4, DecisionBegins
  <2>2. state # Check(c)
    BY <1>4, StateNames DEF Panel
  <2>3. QED
    BY <2>1, <2>2, StateNames DEF Panel
<1>5. CASE state = "check-td2"
  <2>1. CheckOf("td2", "ts1", "check-ts1")
    BY <1>5, DecisionChecks
  <2>2. "dsi" \in info => panel = "td2"
    BY <1>2, <1>5, StateNames DEF Panel
  <2>3. \/ /\ "dsi" \in info /\ Decided.state = Done("td2")
           /\ Decided.display = "td2"
        \/ /\ Decided.state = Check("td2") /\ Decided.display = "td2"
        \/ /\ Decided.state = "check-ts1" /\ Decided.display = "ts1"
           /\ Decided.reboot
    BY <1>3, <2>1 DEF CheckOf
  <2>4. CASE c = "td2"
    BY <1>5, <2>2, <2>3, <2>4, StateNames
  <2>5. CASE c = "ts1"
    BY <1>5, <2>2, <2>3, <2>5, StateNames
  <2>6. QED
    BY <2>4, <2>5 DEF Panel
<1>6. CASE state = "check-ts1"
  <2>1. CheckOf("ts1", "", "done-hdmi")
    BY <1>6, DecisionChecks
  <2>2. "dsi" \in info => panel = "ts1"
    BY <1>2, <1>6, StateNames DEF Panel
  <2>3. \/ /\ "dsi" \in info /\ Decided.state = Done("ts1")
           /\ Decided.display = "ts1"
        \/ /\ Decided.state = Check("ts1") /\ Decided.display = "ts1"
        \/ /\ Decided.state = "done-hdmi" /\ Decided.display = ""
           /\ Decided.reboot
    BY <1>3, <2>1 DEF CheckOf
  <2>4. CASE c = "td2"
    BY <1>6, <2>2, <2>3, <2>4, StateNames
  <2>5. CASE c = "ts1"
    BY <1>6, <2>2, <2>3, <2>5, StateNames
  <2>6. QED
    BY <2>4, <2>5 DEF Panel
<1>7. CASE state \in {"done-td2", "done-ts1", "done-hdmi"}
  <2>1. Decided.state = state /\ (state = Done(c) => panel = c)
    <3>1. Decided.state = state
      BY <1>3, <1>7, DecisionKeeps
    <3>2. QED
      BY <3>1 DEF Consistent, Sound
  <2>2. state # Check(c)
    BY <1>7, StateNames DEF Panel
  <2>3. QED
    BY <2>1, <2>2
<1>8. QED
  BY <1>4, <1>5, <1>6, <1>7 DEF TypeOK, States

(* A panel seen under its own overlay only, and only this detector      *)
(* knows panels.                                                           *)
LEMMA PanelAnswers ==
  ASSUME TypeOK
  PROVE  /\ "dsi" \notin DetectQt
         /\ \A seen : "dsi" \in DetectRpi(seen) => loaded.display = panel
<1>1. "dsi" \notin DetectQt
  BY DEF DetectQt, Flag
<1>2. ASSUME NEW seen, "dsi" \in DetectRpi(seen)
      PROVE  loaded.display = panel
  <2>1. "dsi" \notin UNION {DetectAudio, DetectConnectivity, DetectCamera,
                            DetectGps}
    BY
    DEF DetectAudio, DetectConnectivity, DetectCamera, DetectGps, Found,
        Flag
  <2>2. "dsi" \notin DetectHats
    BY HatSetsAssumption
    DEF DetectHats, HatFlag, Hat, FoundHats, NamedHats, Flag, TypeOK
  <2>3. "dsi" \in DetectDisplay(seen)
    BY <1>2, <2>1, <2>2 DEF DetectRpi
  <2>4. QED
    BY <2>3 DEF DetectDisplay, Flag
<1>3. QED
  BY <1>1, <1>2

(* The program keeps its files consistent: state, count and overlays are   *)
(* written one after the other, and only the last of them ends the boot.   *)
LEMMA ProgramLocks ==
  ASSUME TypeOK, Consistent, Program
  PROVE  Consistent'
<1>1. CASE Detect
  <2>1. /\ phase = "detect" /\ phase' = "manage"
        /\ Sound(state)' /\ Sound(disk.state)'
    BY <1>1 DEF Detect, Consistent, Sound, Settled, machineVars, fileVars
  <2>2. "dsi" \in info' => loaded'.display = panel'
    BY <1>1, PanelAnswers DEF Detect, machineVars
  <2>3. QED
    BY <1>1, <2>1, <2>2
    DEF Detect, Consistent, Settled, Planned, machineVars, fileVars
<1>2. CASE Manage
  <2>1. CASE "raspberry_pi" \in devices
    <3>1. phase = "manage" /\ phase' = "state" /\ plan' = Decided
      BY <1>2, <2>1 DEF Manage, Decided
    <3>2. Sound(state)' /\ Sound(disk.state)'
      BY <1>2, <3>1
      DEF Manage, Consistent, Sound, Settled, machineVars, fileVars
    <3>3. SoundPlan'
      BY <1>2, <3>1, DecisionSound DEF Manage, machineVars, fileVars
    <3>4. QED
      BY <1>2, <3>1, <3>2, <3>3
      DEF Manage, Consistent, Settled, Planned, machineVars, fileVars
  <2>2. CASE "raspberry_pi" \notin devices
    BY <1>2, <2>2
    DEF Manage, Consistent, Sound, Settled, Planned, machineVars, fileVars
  <2>3. QED
    BY <2>1, <2>2
<1>3. CASE WriteState
  <2>1. SoundPlan /\ SoundPlan'
    BY <1>3
    DEF WriteState, Consistent, SoundPlan, Planned, machineVars, runVars
  <2>2. state' \in {plan.state, ""}
    BY <1>3 DEF WriteState, Consistent
  <2>3. Sound(state)'
    BY <1>3, <2>1, <2>2, NamesApart
    DEF WriteState, Sound, SoundPlan, Settled, machineVars
  <2>4. Sound(disk.state)'
    BY <1>3 DEF WriteState, Consistent, Sound, Settled, machineVars
  <2>5. QED
    BY <1>3, <2>1, <2>2, <2>3, <2>4
    DEF WriteState, Consistent, Settled, Planned, machineVars, runVars
<1>4. CASE WriteFailCount
  <2>1. SoundPlan'
    BY <1>4
    DEF WriteFailCount, Consistent, SoundPlan, Planned, machineVars,
        runVars
  <2>2. Sound(state)' /\ Sound(disk.state)'
    BY <1>4 DEF WriteFailCount, Consistent, Sound, Settled, machineVars
  <2>3. QED
    BY <1>4, <2>1, <2>2
    DEF WriteFailCount, Consistent, Settled, Planned, machineVars, runVars
<1>5. CASE WriteOverlays
  <2>1. /\ phase = "overlays" /\ state' = state /\ disk' = disk
        /\ plan' = plan /\ panel' = panel /\ writable' = writable
        /\ hardwareTxt'.display = plan.display
        /\ phase' = IF plan.reboot THEN "reboot" ELSE "up"
    BY <1>5 DEF WriteOverlays, machineVars, runVars
  <2>2. SoundPlan /\ SoundPlan' /\ state \in {plan.state, ""}
    BY <2>1 DEF Consistent, SoundPlan, Planned
  <2>3. Sound(state)'
    BY <2>1, <2>2, NamesApart DEF Sound, SoundPlan
  <2>4. Sound(disk.state)'
    BY <2>1, <2>2 DEF Consistent, Sound, SoundPlan, Settled
  <2>5. QED
    BY <2>1, <2>2, <2>3, <2>4 DEF Consistent, Settled, Planned
<1>6. CASE Reboot
  <2>1. /\ phase = "reboot" /\ phase' = "detect" /\ state' = state
        /\ disk'.state = state /\ loaded' = hardwareTxt' /\ panel' = panel
        /\ hardwareTxt' = hardwareTxt /\ writable' = writable /\ plan' = plan
    BY <1>6 DEF Reboot, Sync, machineVars
  <2>2. Sound(state)'
    BY <2>1, NamesApart DEF Consistent, Sound, SoundPlan, Planned
  <2>3. Sound(disk.state)'
    BY <2>1, <2>2 DEF Sound
  <2>4. QED
    BY <2>1, <2>2, <2>3 DEF Consistent, Settled, Planned
<1>7. QED
  BY <1>1, <1>2, <1>3, <1>4, <1>5, <1>6 DEF Program

(* So do power cuts outside that gap, updates and failed writes: the state *)
(* on the medium is the new one or the one before, and both are sound.     *)
LEMMA OtherLocks ==
  ASSUME TypeOK, Consistent, Faults \/ PowerOn \/ ShutDown, ~torn'
  PROVE  Consistent'
<1>1. CASE DetectUnwritten
  <2>1. /\ phase = "detect" /\ phase' = "manage"
        /\ Sound(state)' /\ Sound(disk.state)'
    BY <1>1
    DEF DetectUnwritten, Consistent, Sound, Settled, machineVars, fileVars
  <2>2. "dsi" \in info' => loaded'.display = panel'
    BY <1>1, PanelAnswers DEF DetectUnwritten, machineVars
  <2>3. QED
    BY <1>1, <2>1, <2>2
    DEF DetectUnwritten, Consistent, Settled, Planned, machineVars, fileVars
<1>2. CASE BootNotMounted
  BY <1>2
  DEF BootNotMounted, Consistent, Sound, Settled, Planned, machineVars,
      runVars, fileVars
<1>3. CASE OverlaysUnwritten
  BY <1>3 DEF OverlaysUnwritten
<1>4. CASE Update
  BY <1>4
  DEF Update, Sync, NoOverlay, Consistent, Sound, Settled, Planned,
      machineVars, runVars
<1>5. CASE PowerCut
  <2>1. /\ phase \in Settled \cup {"up"} /\ phase' = "off"
        /\ state' \in {state, disk.state, "", "garbled"}
        /\ disk'.state = state' /\ hardwareTxt' = hardwareTxt
        /\ panel' = panel /\ writable' = writable
    BY <1>5 DEF PowerCut, TypeOK, Phases, Settled, machineVars
  <2>2. Sound(state)'
    BY <2>1, NamesApart DEF Consistent, Sound
  <2>3. Sound(disk.state)'
    BY <2>1, <2>2 DEF Sound
  <2>4. ~writable => state' = ""
    BY <1>5 DEF PowerCut, Consistent
  <2>5. QED
    BY <2>1, <2>2, <2>3, <2>4 DEF Consistent, Settled, Planned
<1>6. CASE PowerOn
  BY <1>6
  DEF PowerOn, Consistent, Sound, Settled, Planned, machineVars, fileVars
<1>7. CASE ShutDown
  <2>1. /\ phase = "up" /\ phase' = "off" /\ state' = state
        /\ disk'.state = state /\ hardwareTxt' = hardwareTxt
        /\ panel' = panel /\ writable' = writable
    BY <1>7 DEF ShutDown, Sync, machineVars
  <2>2. QED
    BY <2>1 DEF Consistent, Sound, Settled, Planned
<1>8. QED
  BY <1>1, <1>2, <1>3, <1>4, <1>5, <1>6, <1>7 DEF Faults

(* A fault in the gap is never forgotten.                                  *)
LEMMA TornStays ==
  ASSUME TypeOK, Next, ~torn'
  PROVE  ~torn
BY DEF Next, Program, Faults, Detect, Manage, WriteState, WriteFailCount,
       WriteOverlays, Reboot, DetectUnwritten, BootNotMounted,
       OverlaysUnwritten, Update, PowerCut, PowerOn, ShutDown, countVars, TypeOK

(* The first boot has tried nothing.                                       *)
LEMMA LockInit == Init => LockInv
<1>1. SUFFICES ASSUME Init PROVE Consistent
  BY InitTypes DEF LockInv
<1>2. phase = "off" /\ state = "" /\ disk.state = ""
  BY <1>1 DEF Init
<1>3. Sound(state) /\ Sound(disk.state)
  BY <1>2, NamesApart DEF Sound
<1>4. QED
  BY <1>2, <1>3 DEF Consistent, Settled, Planned

(* The lock-in of manageBootOverlays() goes on.                            *)
LEMMA LockStays ==
  ASSUME LockInv, [Next]_vars
  PROVE  LockInv'
<1>1. CASE UNCHANGED vars
  <2>1. TypeOK'
    BY <1>1, StepTypes DEF LockInv
  <2>2. Consistent => Consistent'
    BY <1>1
    DEF Consistent, Sound, SoundPlan, vars, machineVars, runVars, fileVars
  <2>3. torn' = torn
    BY <1>1 DEF vars, countVars
  <2>4. QED
    BY <2>1, <2>2, <2>3 DEF LockInv
<1>2. CASE Next
  BY <1>2, ProgramTypes, OtherTypes, ProgramLocks, OtherLocks, TornStays
  DEF LockInv, Next
<1>3. QED
  BY <1>1, <1>2

(* What is sound as the state names the panel that is there.               *)
LEMMA LockFollows ==
  ASSUME LockInv
  PROVE  LockedAsSeen
BY DEF LockInv, Consistent, Sound, LockedAsSeen

-----------------------------------------------------------------------------
(* What the user is told. *)

(* Between a detection and the next the profile is what was detected by    *)
(* what is loaded, or the defaults.                                        *)
ShownInv ==
  phase \notin {"off", "detect"} /\ "raspberry_pi" \in devices =>
    \/ profile = SafeDefaults
    \/ \E seen \in BOOLEAN : profile = Load(DetectRpi(seen))

(* Nothing of the machine changes, nor of what the boot loader took.       *)
LEMMA DetectionStays ==
  ASSUME UNCHANGED <<devices, panel, fitted, eeprom, loaded>>
  PROVE  \A seen : DetectRpi(seen)' = DetectRpi(seen)
BY DEF DetectRpi, DetectDisplay, DetectAudio, DetectConnectivity, Found,
       DetectCamera, DetectHats, FoundHats, NamedHats, Answers, DetectGps

LEMMA ShownStays ==
  ASSUME ShownInv, [Next]_vars
  PROVE  ShownInv'
<1>1. CASE phase' \in {"off", "detect"}
  BY <1>1 DEF ShownInv
<1>2. CASE Detect \/ DetectUnwritten
  <2>1. UNCHANGED <<devices, panel, fitted, eeprom, loaded>>
    BY <1>2 DEF Detect, DetectUnwritten, machineVars
  <2>2. \/ profile' = SafeDefaults \/ "raspberry_pi" \notin devices
        \/ \E seen \in BOOLEAN : profile' = Load(DetectRpi(seen))
    BY <1>2 DEF Detect, DetectUnwritten
  <2>3. QED
    BY <2>1, <2>2, DetectionStays DEF ShownInv
<1>3. CASE /\ UNCHANGED <<devices, panel, fitted, eeprom, loaded, profile>>
           /\ phase \notin {"off", "detect"} \/ phase' = phase
  BY <1>3, DetectionStays DEF ShownInv
<1>4. CASE Next
  BY <1>1, <1>2, <1>3, <1>4
  DEF Next, Program, Faults, Manage, WriteState, WriteFailCount,
      WriteOverlays, Reboot, BootNotMounted, OverlaysUnwritten, Update,
      PowerCut, PowerOn, ShutDown, machineVars, runVars
<1>5. CASE UNCHANGED vars
  BY <1>3, <1>5 DEF vars, machineVars, runVars
<1>6. QED
  BY <1>4, <1>5

(* The HATs that the bus finds are those fitted, but for the clock.        *)
LEMMA HatsFound ==
  ASSUME TypeOK, "i2c" \in devices
  PROVE  /\ FoundHats \subseteq Hat
         /\ \A h \in Hat \ {"rtc"} : h \in FoundHats <=> h \in fitted
<1>1. fitted \subseteq Hat /\ eeprom \subseteq fitted
  BY HatSetsAssumption DEF TypeOK
<1>2. QED
  BY <1>1 DEF FoundHats, NamedHats, Answers

(* Each flag of the Pi's detector comes from one of its parts.             *)
LEMMA DetectedFrom ==
  ASSUME NEW seen, NEW f
  PROVE  f \in DetectRpi(seen) <=>
           \/ f \in DetectDisplay(seen) \/ f \in DetectAudio
           \/ f \in DetectConnectivity \/ f \in DetectCamera
           \/ f \in DetectHats \/ f \in DetectGps
BY DEF DetectRpi

LEMMA HatsDetected ==
  ASSUME TypeOK, "i2c" \in devices
  PROVE  /\ "hat_dac" \in DetectHats <=> "dac" \in fitted
         /\ "iqaudio_dac" \in DetectHats <=> "dac" \in fitted
         /\ "hat_can" \in DetectHats <=> "can" \in fitted
         /\ "hat_gps" \in DetectHats <=> "gps" \in fitted
         /\ DetectHats \subseteq {"hat_dac", "hat_can", "hat_rtc", "hat_gps",
                                  "hat_pimoroni", "iqaudio_dac"}
<1>1. /\ HatFlag("dac") = "hat_dac" /\ HatFlag("can") = "hat_can"
      /\ HatFlag("rtc") = "hat_rtc" /\ HatFlag("gps") = "hat_gps"
      /\ HatFlag("pimoroni") = "hat_pimoroni"
  BY DEF HatFlag
<1>2. \A f : f \in DetectHats <=>
               \/ \E h \in FoundHats : f = HatFlag(h)
               \/ f = "iqaudio_dac" /\ "dac" \in FoundHats
  BY DEF DetectHats, Flag
<1>3. \A h \in FoundHats : h \in {"dac", "can", "rtc", "gps", "pimoroni"}
  BY HatsFound DEF Hat
<1>4. /\ "dac" \in FoundHats <=> "dac" \in fitted
      /\ "can" \in FoundHats <=> "can" \in fitted
      /\ "gps" \in FoundHats <=> "gps" \in fitted
  BY HatsFound DEF Hat
<1>5. QED
  BY <1>1, <1>2, <1>3, <1>4

(* What the Pi's detector tells, flag by flag.                             *)
LEMMA Detected ==
  ASSUME TypeOK, "i2c" \in devices, NEW seen
  PROVE  /\ \A f \in {"hdmi", "onboard_audio", "usb_audio", "usb_camera"} :
              f \in DetectRpi(seen) <=> f \in devices
         /\ "usb_mic" \in DetectRpi(seen) <=>
              {"usb_audio", "capture"} \subseteq devices
         /\ "pi_camera" \in DetectRpi(seen) <=>
              /\ "pi_camera" \in devices
              /\ ~({"usb_camera", "usb_first"} \subseteq devices)
         /\ ("wifi_onboard" \in DetectRpi(seen) \/ "wifi_usb" \in DetectRpi(seen))
              <=> ("wifi_onboard" \in devices \/ "wifi_usb" \in devices)
         /\ ("bt_onboard" \in DetectRpi(seen) \/ "bt_usb" \in DetectRpi(seen))
              <=> ("bt_onboard" \in devices \/ "bt_usb" \in devices)
         /\ ("iqaudio_dac" \in DetectRpi(seen) \/ "hat_dac" \in DetectRpi(seen))
              <=> "dac" \in fitted
         /\ "hat_can" \in DetectRpi(seen) <=> "can" \in fitted
         /\ ("gps" \in DetectRpi(seen) \/ "hat_gps" \in DetectRpi(seen))
              <=> ("usb_gps" \in devices \/ "gps" \in fitted)
<1>1. \A f : f \in DetectDisplay(seen) =>
               \/ f = "dsi"
               \/ f = "hdmi" /\ "hdmi" \in devices
  BY DEF DetectDisplay, Flag
<1>2. "hdmi" \in devices => "hdmi" \in DetectDisplay(seen)
  BY DEF DetectDisplay, Flag
<1>3. \A f : f \in DetectAudio <=>
        \/ f = "iqaudio_dac" /\ "dac" \in fitted /\ "dac" \in loaded.hats
        \/ f \in {"onboard_audio", "usb_audio"} /\ f \in devices
        \/ f = "usb_mic" /\ {"usb_audio", "capture"} \subseteq devices
  BY DEF DetectAudio, Flag
<1>4. \A f : f \in DetectConnectivity <=>
        \/ f \in {"wifi_usb", "bt_usb"} /\ f \in devices
        \/ /\ f = "wifi_onboard" /\ "wifi_onboard" \in devices
           /\ ~({"wifi_usb", "usb_first"} \subseteq devices)
        \/ /\ f = "bt_onboard" /\ "bt_onboard" \in devices
           /\ ~({"bt_usb", "usb_first"} \subseteq devices)
  BY DEF DetectConnectivity, Found, Flag
<1>5. \A f : f \in DetectCamera <=>
        \/ f = "usb_camera" /\ f \in devices
        \/ /\ f = "pi_camera" /\ "pi_camera" \in devices
           /\ ~({"usb_camera", "usb_first"} \subseteq devices)
  BY DEF DetectCamera, Found, Flag
<1>6. \A f : f \in DetectGps <=>
        /\ f = "gps"
        /\ \/ "usb_gps" \in devices
           \/ "gps" \in fitted /\ "serial" \in devices
  BY HatsFound DEF DetectGps, Flag, Hat
<1>7. \A f \in {"hdmi", "onboard_audio", "usb_audio", "usb_camera"} :
        f \in DetectRpi(seen) <=> f \in devices
  BY <1>1, <1>2, <1>3, <1>4, <1>5, <1>6, HatsDetected, DetectedFrom
<1>8. /\ "usb_mic" \in DetectRpi(seen) <=>
           {"usb_audio", "capture"} \subseteq devices
      /\ "pi_camera" \in DetectRpi(seen) <=>
           /\ "pi_camera" \in devices
           /\ ~({"usb_camera", "usb_first"} \subseteq devices)
  BY <1>1, <1>3, <1>4, <1>5, <1>6, HatsDetected, DetectedFrom
<1>9. /\ ("wifi_onboard" \in DetectRpi(seen) \/ "wifi_usb" \in DetectRpi(seen))
           <=> ("wifi_onboard" \in devices \/ "wifi_usb" \in devices)
      /\ ("bt_onboard" \in DetectRpi(seen) \/ "bt_usb" \in DetectRpi(seen))
           <=> ("bt_onboard" \in devices \/ "bt_usb" \in devices)
  BY <1>1, <1>3, <1>4, <1>5, <1>6, HatsDetected, DetectedFrom
<1>10. /\ ("iqaudio_dac" \in DetectRpi(seen) \/ "hat_dac" \in DetectRpi(seen))
            <=> "dac" \in fitted
       /\ "hat_can" \in DetectRpi(seen) <=> "can" \in fitted
       /\ ("gps" \in DetectRpi(seen) \/ "hat_gps" \in DetectRpi(seen))
            <=> ("usb_gps" \in devices \/ "gps" \in fitted)
  BY <1>1, <1>3, <1>4, <1>5, <1>6, HatsDetected, DetectedFrom
<1>11. QED
  BY <1>7, <1>8, <1>9, <1>10

(* What the profile makes of it is what is there.                          *)
LEMMA ShownFollows ==
  ASSUME TypeOK, ShownInv
  PROVE  ShownAsFitted
<1>1. SUFFICES ASSUME NEW seen \in BOOLEAN, profile = Load(DetectRpi(seen)),
                      "i2c" \in devices
               PROVE  profile \ {"dsi", "rtc"} = Shown
  BY DEF ShownAsFitted, ShownInv
<1> DEFINE json == DetectRpi(seen)
<1>2. \A f : f \in Load(json) <=>
        \/ /\ f \in {"dsi", "hdmi", "onboard_audio", "usb_audio", "usb_mic",
                     "pi_camera", "usb_camera"}
           /\ f \in json
        \/ f = "iqaudio_dac" /\ ("iqaudio_dac" \in json \/ "hat_dac" \in json)
        \/ f = "wifi" /\ ("wifi_onboard" \in json \/ "wifi_usb" \in json)
        \/ f = "bluetooth" /\ ("bt_onboard" \in json \/ "bt_usb" \in json)
        \/ f = "gps" /\ ("gps" \in json \/ "hat_gps" \in json)
        \/ f = "can" /\ "hat_can" \in json
        \/ f = "rtc" /\ "hat_rtc" \in json
  <2> HIDE DEF json
  <2>1. QED
    BY DEF Load, Flag
<1>3. \A f : f \in Shown <=>
        \/ /\ f \in {"hdmi", "onboard_audio", "usb_audio", "usb_camera"}
           /\ f \in devices
        \/ /\ f = "pi_camera" /\ "pi_camera" \in devices
           /\ ~({"usb_camera", "usb_first"} \subseteq devices)
        \/ f = "usb_mic" /\ {"usb_audio", "capture"} \subseteq devices
        \/ f = "wifi" /\ ("wifi_onboard" \in devices \/ "wifi_usb" \in devices)
        \/ f = "bluetooth" /\ ("bt_onboard" \in devices \/ "bt_usb" \in devices)
        \/ f = "iqaudio_dac" /\ "dac" \in fitted
        \/ f = "can" /\ "can" \in fitted
        \/ f = "gps" /\ ("usb_gps" \in devices \/ "gps" \in fitted)
  BY DEF Shown, Flag
<1>4. QED
  <2> HIDE DEF json
  <2>1. /\ \A f \in {"hdmi", "onboard_audio", "usb_audio", "usb_camera"} :
             f \in json <=> f \in devices
        /\ "usb_mic" \in json <=> {"usb_audio", "capture"} \subseteq devices
        /\ "pi_camera" \in json <=>
             /\ "pi_camera" \in devices
             /\ ~({"usb_camera", "usb_first"} \subseteq devices)
        /\ ("wifi_onboard" \in json \/ "wifi_usb" \in json)
             <=> ("wifi_onboard" \in devices \/ "wifi_usb" \in devices)
        /\ ("bt_onboard" \in json \/ "bt_usb" \in json)
             <=> ("bt_onboard" \in devices \/ "bt_usb" \in devices)
        /\ ("iqaudio_dac" \in json \/ "hat_dac" \in json) <=> "dac" \in fitted
        /\ "hat_can" \in json <=> "can" \in fitted
        /\ ("gps" \in json \/ "hat_gps" \in json)
             <=> ("usb_gps" \in devices \/ "gps" \in fitted)
    BY <1>1, Detected DEF json
  <2>2. profile = Load(json)
    BY <1>1 DEF json
  <2>3. \A f : f \in profile \ {"dsi", "rtc"} <=> f \in Shown
    BY <1>2, <1>3, <2>1, <2>2
  <2>4. QED
    BY <2>3

-----------------------------------------------------------------------------
(* The four together. *)

(* Each has the inductive invariant of the proofs about it. *)
BluetoothKept ==
  CASE exercised = "phones" -> Phones!BluetoothInv
    [] exercised = "adapters" -> Adapters!BluetoothInv
    [] OTHER -> Scans!BluetoothInv
VolumeKept ==
  IF exercised = "listening" THEN Listening!VolumeInv ELSE Devices!VolumeInv
PlatformInv ==
  /\ LockInv /\ ShownInv
  /\ BluetoothKept /\ VolumeKept /\ Configuration!SettingsInv

(* All of them are as they should be at the start.                         *)
LEMMA PlatformStarts == PlatformInit => PlatformInv
<1>1. SUFFICES ASSUME PlatformInit PROVE PlatformInv
  OBVIOUS
<1>2. LockInv /\ ShownInv
  BY <1>1, LockInit DEF PlatformInit, ShownInv, Init
<1>3. BluetoothKept
  BY <1>1, PlatformAssumption, Scans!InitInv, Phones!InitInv, Adapters!InitInv
  DEF PlatformInit, BluetoothKept
<1>4. VolumeKept
  BY <1>1, PlatformAssumption, Devices!InitInv, Listening!InitInv
  DEF PlatformInit, VolumeKept
<1>5. Configuration!SettingsInv
  BY <1>1, PlatformAssumption, Configuration!InitInv DEF PlatformInit
<1>6. QED
  BY <1>2, <1>3, <1>4, <1>5 DEF PlatformInv

(* What does not move stays as it is.                                      *)
LEMMA Still ==
  /\ UNCHANGED bluetoothVars =>
       UNCHANGED <<Scans!vars, Phones!vars, Adapters!vars>>
  /\ UNCHANGED volumeVars => UNCHANGED Devices!vars /\ UNCHANGED Listening!vars
  /\ UNCHANGED settingsVars => UNCHANGED Configuration!vars
<1>1. UNCHANGED bluetoothVars =>
        UNCHANGED <<Scans!vars, Phones!vars, Adapters!vars>>
  BY DEF bluetoothVars, Scans!vars, Scans!listVars, Scans!bluezVars,
         Scans!linkVars, Scans!pairVars, Scans!scanVars, Scans!adapterVars,
         Scans!pastVars, Scans!boundVars, Phones!vars, Phones!listVars,
         Phones!bluezVars, Phones!linkVars, Phones!pairVars,
         Phones!scanVars, Phones!adapterVars, Phones!pastVars,
         Phones!boundVars, Adapters!vars, Adapters!listVars,
         Adapters!bluezVars, Adapters!linkVars, Adapters!pairVars,
         Adapters!scanVars, Adapters!adapterVars, Adapters!pastVars,
         Adapters!boundVars
<1>2. UNCHANGED volumeVars => UNCHANGED Devices!vars /\ UNCHANGED Listening!vars
  BY DEF volumeVars, Devices!vars, Devices!paVars, Devices!handlerVars,
         Devices!listVars, Devices!pageVars, Devices!countVars,
         Listening!vars, Listening!paVars, Listening!handlerVars,
         Listening!listVars, Listening!pageVars, Listening!countVars
<1>3. UNCHANGED settingsVars => UNCHANGED Configuration!vars
  BY DEF settingsVars, Configuration!vars, Configuration!copyVars,
         Configuration!startVars, Configuration!pastVars
<1>4. QED
  BY <1>1, <1>2, <1>3

(* So one moves at most, in a step of its own.                             *)
LEMMA EachSteps ==
  ASSUME [PlatformNext]_PlatformVars
  PROVE  /\ exercised' = exercised /\ [Next]_vars
         /\ CASE exercised = "phones" -> [Phones!Next]_(Phones!vars)
              [] exercised = "adapters" -> [Adapters!Next]_(Adapters!vars)
              [] OTHER -> [Scans!Next]_(Scans!vars)
         /\ IF exercised = "listening" THEN [Listening!Next]_(Listening!vars)
            ELSE [Devices!Next]_(Devices!vars)
         /\ [Configuration!Next]_(Configuration!vars)
<1>1. CASE UNCHANGED PlatformVars
  BY <1>1, Still DEF PlatformVars, hardwareVars
<1>2. CASE PlatformNext
  BY <1>2, Still DEF PlatformNext, hardwareVars
<1>3. QED
  BY <1>1, <1>2

(* The invariant is inductive.                                             *)
LEMMA PlatformSteps ==
  ASSUME PlatformInv, [PlatformNext]_PlatformVars
  PROVE  PlatformInv'
<1>1. exercised' = exercised
  BY EachSteps
<1>2. LockInv' /\ ShownInv'
  BY EachSteps, LockStays, ShownStays DEF PlatformInv
<1>3. BluetoothKept'
  BY <1>1, EachSteps, PlatformAssumption, Scans!StepInv, Phones!StepInv,
     Adapters!StepInv
  DEF PlatformInv, BluetoothKept
<1>4. VolumeKept'
  BY <1>1, EachSteps, PlatformAssumption, Devices!StepInv, Listening!StepInv
  DEF PlatformInv, VolumeKept
<1>5. Configuration!SettingsInv'
  BY EachSteps, PlatformAssumption, Configuration!StepInv DEF PlatformInv
<1>6. QED
  BY <1>2, <1>3, <1>4, <1>5 DEF PlatformInv

(* So it holds of every behaviour, and with it what the runs check.        *)
LEMMA PlatformAlways == PlatformSpec => []PlatformInv
<1>1. PlatformInv /\ [PlatformNext]_PlatformVars => PlatformInv'
  BY PlatformSteps
<1>2. QED
  BY <1>1, PlatformStarts, PTL DEF PlatformSpec

-----------------------------------------------------------------------------
(* The theorems, each for every value of the constants that                *)
(* PlatformAssumption and the assumptions of HardwareDetection allow.      *)

(* Type correctness of hardware detection, Bluetooth popup, audio devices  *)
(* and configuration.                                                      *)
THEOREM TypeCorrect == PlatformSpec => []PlatformTypeOK
<1>1. PlatformInv => PlatformTypeOK
  BY DEF PlatformInv, PlatformTypeOK, LockInv, BluetoothKept, VolumeKept,
         Scans!BluetoothInv, Phones!BluetoothInv, Adapters!BluetoothInv,
         Devices!VolumeInv, Listening!VolumeInv, Configuration!SettingsInv,
         Configuration!KeptInv
<1>2. QED
  BY <1>1, PlatformAlways, PTL

(* The overlay that is locked in is that of the panel that is there, over  *)
(* any number of boots and faults that leave the gap between the state and *)
(* hardware.txt alone: the lock-in of manageBootOverlays().                *)
THEOREM LockedAsSeenHolds == PlatformSpec => []LockedAsSeen
<1>1. PlatformInv => LockedAsSeen
  BY LockFollows DEF PlatformInv
<1>2. QED
  BY <1>1, PlatformAlways, PTL

(* What HardwareProfile tells the user interface of a Pi that is up is     *)
(* what is connected to it, the exceptions of ShownAsFitted aside.         *)
THEOREM ShownAsFittedHolds == PlatformSpec => []ShownAsFitted
<1>1. PlatformInv => ShownAsFitted
  BY ShownFollows DEF PlatformInv, LockInv
<1>2. QED
  BY <1>1, PlatformAlways, PTL

(* In pairing mode the adapter in use can be seen, and up to the first     *)
(* time that an adapter which is chosen is not there, none that was left   *)
(* for another is on: however setActiveAdapter(), enablePairingMode() and  *)
(* the beginnings of projections alternate, and whatever state BlueZ had   *)
(* left the adapters in.                                                   *)
THEOREM VisibleAsChosenHolds == PlatformSpec => []VisibleAsChosen
<1>1. PlatformInv => VisibleAsChosen
  BY DEF PlatformInv, BluetoothKept, VisibleAsChosen, Scans!BluetoothInv,
         Phones!BluetoothInv, Adapters!BluetoothInv
<1>2. QED
  BY <1>1, PlatformAlways, PTL

(* The lists of VolumeHandler show the devices that are there, once its    *)
(* slots have run.                                                         *)
THEOREM ListsFollowHolds == PlatformSpec => []ListsFollow
<1>1. PlatformInv => ListsFollow
  BY PlatformAssumption, Devices!ListsFollowFrom, Listening!ListsFollowFrom
  DEF PlatformInv, VolumeKept, ListsFollow
<1>2. QED
  BY <1>1, PlatformAlways, PTL

(* The device the user chose stays chosen, whatever comes and goes.        *)
THEOREM PreferenceKeptHolds == PlatformSpec => []PreferenceKept
<1>1. PlatformInv => PreferenceKept
  BY DEF PlatformInv, VolumeKept, PreferenceKept, Devices!VolumeInv,
         Listening!VolumeInv
<1>2. QED
  BY <1>1, PlatformAlways, PTL

(* A card plays as loud as slider and limits say.                          *)
THEOREM HeardAsSetHolds == PlatformSpec => []HeardAsSet
<1>1. PlatformInv => HeardAsSet
  BY PlatformAssumption, Devices!HeardFollows, Listening!HeardFollows
  DEF PlatformInv, VolumeKept, HeardAsSet
<1>2. QED
  BY <1>1, PlatformAlways, PTL

(* Nothing the head unit lives by stays in memory only: what the user set  *)
(* and what phones were told is what the next start loads.                 *)
THEOREM SettingsKeptHolds == PlatformSpec => []SettingsKept
<1>1. PlatformInv => SettingsKept
  BY PlatformAssumption, Configuration!SettingsKeptFollows
  DEF PlatformInv, SettingsKept, Configuration!SettingsInv
<1>2. QED
  BY <1>1, PlatformAlways, PTL

(* A session that begins offers, of media and guidance, what the user had  *)
(* on when the head unit started and has on now, over any number of        *)
(* restarts and whatever else was saved.                                   *)
THEOREM ChannelsAsSetHolds == PlatformSpec => ChannelsAsSet
<1>1. ASSUME PlatformInv, [PlatformNext]_PlatformVars
      PROVE  [offered = {} /\ offered' # {} =>
                offered' \cap Configuration!Channel =
                  {c \in onAtStart : wish[c] # FALSE}]_(Configuration!vars)
  BY <1>1, EachSteps, PlatformAssumption, Configuration!StepChannels
  DEF PlatformInv
<1>2. QED
  BY <1>1, PlatformAlways, PTL
  DEF PlatformSpec, ChannelsAsSet, Configuration!ChannelsAsSet
=============================================================================
