------------------------------- MODULE Inputs -------------------------------
(***************************************************************************)
(* What goes to the phone: the sensors (SensorService, which is extended), *)
(* keys and touches (InputRouting) and the microphone (Microphone).        *)
(*                                                                         *)
(* As in Outputs a behaviour picks the one it exercises, for the three     *)
(* share no state: each has a channel, a strand and devices of its own.    *)
(***************************************************************************)
EXTENDS SensorService

CONSTANTS
  Sessions,  \* how many phones there are, one after the other
  MaxEvents, \* bound: keys and touches
  MaxOpens,  \* bound: requests for the microphone, if each phone makes some
  MaxReopens \* bound: these requests, if only the first phone makes them

ASSUME InputsAssumption ==
  /\ Sessions \in Nat /\ MaxEvents \in Nat
  /\ MaxOpens \in Nat /\ MaxReopens \in Nat

VARIABLES
  exercised, \* what moves in this behaviour
  keyPhase, keyReceiving, late, reports, sent, handler, fault, events, states,
  connected, view, popup,
  micPhase, micReceiving, micRequests, micSignals, device, opener, pollTimer,
  timers, readPromise, filter, resampler, opened, data, sending,
  broken

Input == INSTANCE InputRouting WITH
  phase <- keyPhase, receiving <- keyReceiving

(* Phones with some requests each, or one that opens and closes the        *)
(* microphone again and again, with others to follow.                      *)
Mic == INSTANCE Microphone WITH
  MaxRequests <- {[s \in 1 .. Sessions |-> MaxOpens],
                  [s \in 1 .. Sessions |-> IF s = 1 THEN MaxReopens ELSE 0]},
  phase <- micPhase, receiving <- micReceiving, requests <- micRequests,
  signals <- micSignals

sensorVars == vars
inputVars == <<keyPhase, keyReceiving, late, reports, sent, handler, fault,
  events, states, connected, view, popup>>
micVars == <<micPhase, micReceiving, micRequests, micSignals, device, opener,
  pollTimer, timers, readPromise, filter, resampler, opened, data,
  sending, broken>>
InputsVars == <<exercised, sensorVars, inputVars, micVars>>

InputsInit ==
  /\ exercised \in {"sensors", "input", "mic"}
  /\ Init /\ Input!Init /\ Mic!Init
  /\ exercised # "sensors" => ~file
  /\ exercised # "input" => ~popup

InputsNext ==
  /\ UNCHANGED exercised
  /\ \/ /\ exercised = "sensors" /\ Next
        /\ UNCHANGED <<inputVars, micVars>>
     \/ /\ exercised = "input" /\ Input!Next
        /\ UNCHANGED <<sensorVars, micVars>>
     \/ /\ exercised = "mic" /\ Mic!Next
        /\ UNCHANGED <<sensorVars, inputVars>>

(* What does not move has nothing to do that its fairness asks for. *)
InputsSpec ==
  InputsInit /\ [][InputsNext]_InputsVars /\ Fairness /\ Mic!Fairness

(* The type invariants of the three. *)
InputsTypeOK ==
  /\ exercised \in {"sensors", "input", "mic"}
  /\ TypeOK /\ Input!TypeOK /\ Mic!TypeOK

-----------------------------------------------------------------------------
(* The properties of the input device, as InputRouting states them. *)

(* What the user did is reported in the order it was done.                 *)
ReportsInOrder == Input!ReportsInOrder

(* The device keeps no handler that was destroyed.                         *)
HandlerExists == Input!HandlerExists

(* The properties of the microphone, as Microphone states them. *)

(* A microphone that is open goes on recording for its session.            *)
FlowingWhileOpen == Mic!FlowingWhileOpen

(* When it is closed, the sessions' chains of reads and sends die out.     *)
ChainsEnd == Mic!ChainsEnd
=============================================================================
