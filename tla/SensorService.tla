---------------------------- MODULE SensorService ----------------------------
(***************************************************************************)
(* SensorService of one session: the night mode and the position it sends  *)
(* to the phone.                                                           *)
(*                                                                         *)
(* Four times a second it looks whether a file exists (night mode) and     *)
(* whether gpsd has a position.  stop() sets a flag from the thread of the *)
(* session, outside the service's strand, and closes gpsd on the strand.   *)
(* The phone asks for a sensor once or again; the first value of the night *)
(* mode is sent when the answer to its request was, further ones when a    *)
(* poll sees a change.                                                     *)
(*                                                                         *)
(* The driving status, which never changes, and the contents of a position *)
(* are left out, and so are sends that fail, which are only logged.        *)
(***************************************************************************)
EXTENDS Naturals

CONSTANTS
  MaxRequests, \* bound: requests for the night mode
  MaxChanges   \* bound: changes of the night mode

ASSUME SensorAssumption == MaxRequests \in Nat /\ MaxChanges \in Nat

VARIABLES
  phase,       \* idle, starting (start() dispatched), started, stopping
               \* (stop() dispatched) or stopped
  stopPolling, \* stopPolling
  file,        \* /tmp/night_mode_enabled exists
  isNight,     \* isNight
  previous,    \* previous
  firstRun,    \* firstRun
  timer,       \* timer_ is armed
  gps,         \* gpsData_: never opened, open or closed
  gpsEnabled,  \* gpsEnabled_
  receiving,   \* a receive() is outstanding on the channel
  answers,     \* answers to requests for the night mode that are being sent
  told,        \* the night mode the phone was told last, or unknown
  requests,    \* requests for the night mode so far
  changes      \* changes of the night mode so far

phoneVars == <<receiving, answers, requests>>
nightVars == <<isNight, previous, firstRun, told>>
pollVars == <<stopPolling, timer>>
gpsVars == <<gps, gpsEnabled>>
worldVars == <<file, changes>>
vars == <<phase, phoneVars, nightVars, pollVars, gpsVars, worldVars>>

TypeOK ==
  /\ phase \in {"idle", "starting", "started", "stopping", "stopped"}
  /\ stopPolling \in BOOLEAN /\ timer \in BOOLEAN
  /\ file \in BOOLEAN /\ isNight \in BOOLEAN /\ previous \in BOOLEAN
  /\ firstRun \in BOOLEAN
  /\ gps \in {"never", "open", "closed"} /\ gpsEnabled \in BOOLEAN
  /\ receiving \in BOOLEAN
  /\ answers \in 0 .. MaxRequests
  /\ told \in {"unknown", "day", "night"}
  /\ requests \in 0 .. MaxRequests /\ changes \in 0 .. MaxChanges

Init ==
  /\ phase = "idle" /\ stopPolling = FALSE
  /\ file \in BOOLEAN
  /\ isNight = FALSE /\ previous = FALSE /\ firstRun = TRUE
  /\ timer = FALSE
  /\ gps = "never" /\ gpsEnabled = FALSE
  /\ receiving = FALSE
  /\ answers = 0 /\ told = "unknown"
  /\ requests = 0 /\ changes = 0

Mode(night) == IF night THEN "night" ELSE "day"

-----------------------------------------------------------------------------
(* The session, on its own strand. *)

SessionStart ==
  /\ phase = "idle"
  /\ phase' = "starting"
  /\ UNCHANGED <<phoneVars, nightVars, pollVars, gpsVars, worldVars>>

(* stop(): the flag at once, the rest on the strand, after start()'s part. *)
SessionStop ==
  /\ phase \in {"starting", "started"} /\ ~stopPolling
  /\ stopPolling' = TRUE
  /\ phase' = IF phase = "started" THEN "stopping" ELSE phase
  /\ UNCHANGED <<phoneVars, nightVars, timer, gpsVars, worldVars>>

-----------------------------------------------------------------------------
(* The strand of the service. *)

(* gpsd may not answer.  The first poll is made at once: sensorPolling()   *)
(* dispatches to the strand it runs on.                                    *)
ServiceStart ==
  /\ phase = "starting"
  /\ phase' = IF stopPolling THEN "stopping" ELSE "started"
  /\ \/ gps' = "open" /\ gpsEnabled' = TRUE
     \/ UNCHANGED gpsVars
  /\ isNight' = file
  /\ timer' = ~stopPolling
  /\ receiving' = TRUE
  /\ UNCHANGED <<answers, requests, previous, firstRun, told>>
  /\ UNCHANGED <<stopPolling, worldVars>>

ServiceStop ==
  /\ phase = "stopping"
  /\ phase' = "stopped"
  /\ gps' = IF gpsEnabled THEN "closed" ELSE gps
  /\ gpsEnabled' = FALSE
  /\ UNCHANGED <<phoneVars, nightVars, pollVars, worldVars>>

(* A request for the night mode: the answer is on its way. *)
OnSensorStartRequest ==
  /\ receiving /\ requests < MaxRequests
  /\ requests' = requests + 1
  /\ answers' = answers + 1
  /\ receiving' = (phase # "stopped")
  /\ UNCHANGED <<phase, nightVars, pollVars, gpsVars, worldVars>>

ChannelFails ==
  /\ receiving
  /\ receiving' = FALSE
  /\ UNCHANGED <<phase, answers, requests, nightVars, pollVars, gpsVars, worldVars>>

(* Fault: only the first request is a reason to remember what was sent. *)
SendNightDataLater ==
  /\ answers > 0
  /\ answers' = answers - 1
  /\ told' = Mode(isNight)
  /\ firstRun' = FALSE
  /\ UNCHANGED <<phase, receiving, requests, isNight, previous>>
  /\ UNCHANGED <<pollVars, gpsVars, worldVars>>

(* The answer was sent: the value of the last poll follows. *)
SendNightData ==
  /\ answers > 0
  /\ answers' = answers - 1
  /\ told' = Mode(isNight)
  /\ firstRun' = FALSE
  /\ previous' = IF firstRun THEN isNight ELSE previous
  /\ UNCHANGED <<phase, receiving, requests, isNight>>
  /\ UNCHANGED <<pollVars, gpsVars, worldVars>>

(* A change is sent, if the phone has asked before; a position too, if     *)
(* gpsEnabled and gpsd has one.                                            *)
Compare ==
  /\ isNight' = file
  /\ previous' = IF firstRun THEN previous ELSE file
  /\ told' = IF previous # file /\ ~firstRun THEN Mode(file) ELSE told
  /\ UNCHANGED <<phase, phoneVars, firstRun, stopPolling, gpsVars, worldVars>>

(* Fault: the timer is armed only when there was something to send. *)
SensorPollingOnChange ==
  /\ timer /\ ~stopPolling
  /\ timer' = (previous # file /\ ~firstRun)
  /\ Compare

(* The timer has fired: it is armed again, unless polling was stopped. *)
SensorPolling ==
  /\ timer
  /\ IF stopPolling
     THEN /\ timer' = FALSE
          /\ UNCHANGED <<phase, phoneVars, nightVars, stopPolling>>
          /\ UNCHANGED <<gpsVars, worldVars>>
     ELSE timer' = TRUE /\ Compare

(* Somebody creates the file, or removes it. *)
NightModeChanges ==
  /\ changes < MaxChanges
  /\ changes' = changes + 1 /\ file' = ~file
  /\ UNCHANGED <<phase, phoneVars, nightVars, pollVars, gpsVars>>

Strand == ServiceStart \/ ServiceStop \/ SendNightData \/ SensorPolling

Next ==
  \/ SessionStart \/ SessionStop \/ Strand
  \/ OnSensorStartRequest \/ ChannelFails \/ NightModeChanges

Spec == Init /\ [][Next]_vars

(* The threads run, and the timer fires. *)
Fairness ==
  /\ WF_vars(ServiceStart) /\ WF_vars(ServiceStop) /\ WF_vars(SendNightData)
  /\ WF_vars(SensorPolling)

FairSpec == Spec /\ Fairness

-----------------------------------------------------------------------------
(* Properties. *)

(* A poll compares with what the phone was told last: previous, isNight    *)
(* and firstRun, which two handlers write, never miss a change nor make    *)
(* one up, whether the phone asked once or again.                          *)
ComparesWithTold ==
  /\ firstRun <=> told = "unknown"
  /\ ~firstRun => told = Mode(previous)

(* gpsd is asked exactly while it is open, on whichever side of start()'s  *)
(* and stop()'s parts on the strand a poll runs: never through a handle    *)
(* that was closed, and no connection is left open behind the flag.        *)
GpsIsOpen == gpsEnabled <=> gps = "open"

(* A phone that asked is told of a change that lasts, as long as the       *)
(* session does, though the polls are started by nobody but themselves.    *)
(* And after a stop the timer is armed no more, and gpsd is closed:        *)
(* nothing keeps a service alive whose session has ended.                  *)
PollsForSession ==
  /\ ~firstRun /\ told # Mode(file) ~> told = Mode(file) \/ stopPolling
  /\ stopPolling ~> [](~timer /\ gps # "open")
=============================================================================
