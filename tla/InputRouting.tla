---------------------------- MODULE InputRouting ----------------------------
(***************************************************************************)
(* InputDevice, shared by the InputSourceServices of all sessions, and the *)
(* view stack of the user interface above it.                              *)
(*                                                                         *)
(* Keys come through an event filter, touches from the view of Android     *)
(* Auto.  The device calls the handler the last key binding left it, a     *)
(* plain pointer to a service, which queues a report to its own strand.    *)
(* The interface learns of the connection by signals queued to the GUI     *)
(* thread.                                                                 *)
(*                                                                         *)
(* Coordinates and key codes are left out: an event is a number, and a key *)
(* that is not translated is one that did not come.  So are the views and  *)
(* popups that neither take input away nor give it.                        *)
(***************************************************************************)
EXTENDS Naturals, Sequences

CONSTANTS
  Sessions,  \* how many sessions there are, one after the other
  MaxEvents  \* bound: keys and touches

VARIABLES
  phase,     \* of each session's service
  receiving, \* services with a receive() outstanding on the channel
  late,      \* history: services that bound keys after they were stopped
  reports,   \* input reports queued to the strand of each service
  sent,      \* history: the reports each service sent
  handler,   \* eventHandler_: a session, or 0
  fault,     \* history: a call through a pointer that was null or dangling
  events,    \* keys and touches so far
  states,    \* changes of the connectivity state, queued to the GUI thread
  connected, \* the connectivity state, as the interface knows it
  view,      \* the item on top of the stack
  popup      \* a modal popup is open

serviceVars == <<phase, receiving, late>>
reportVars == <<reports, sent, fault, events>>
uiVars == <<connected, view, popup>>
vars == <<serviceVars, reportVars, handler, states, uiVars>>

Session == 1 .. Sessions
Event == 1 .. MaxEvents
Over == {"stopped", "gone"}

TypeOK ==
  /\ phase \in [Session -> {"idle", "started", "connected", "stopping"} \cup Over]
  /\ receiving \subseteq Session /\ late \subseteq Session
  /\ reports \in [Session -> Seq(Event)] /\ sent \in [Session -> Seq(Event)]
  /\ handler \in 0 .. Sessions
  /\ fault \in {"none", "null", "dangling"}
  /\ events \in 0 .. MaxEvents
  /\ states \in Seq(BOOLEAN)
  /\ connected \in BOOLEAN
  /\ view \in {"main", "settings", "androidAuto"}
  /\ popup \in BOOLEAN

Init ==
  /\ phase = [s \in Session |-> "idle"]
  /\ receiving = {} /\ late = {}
  /\ reports = [s \in Session |-> <<>>] /\ sent = [s \in Session |-> <<>>]
  /\ handler = 0 /\ fault = "none" /\ events = 0
  /\ states = <<>> /\ connected = FALSE
  /\ view = "main" /\ popup \in BOOLEAN

-----------------------------------------------------------------------------
(* The services. *)

ServiceStart(s) ==
  /\ phase[s] = "idle"
  /\ \A t \in Session : t < s => phase[t] \in {"stopping"} \cup Over
  /\ phase' = [phase EXCEPT ![s] = "started"]
  /\ receiving' = receiving \cup {s}
  /\ UNCHANGED <<late, reportVars, handler, states, uiVars>>

(* The session answers the service discovery, before which the phone does  *)
(* not speak to the services.                                              *)
Connect(s) ==
  /\ phase[s] = "started"
  /\ phase' = [phase EXCEPT ![s] = "connected"]
  /\ states' = Append(states, TRUE)
  /\ UNCHANGED <<receiving, late, reportVars, handler, uiVars>>

SessionStop(s) ==
  /\ phase[s] \in {"started", "connected"}
  /\ phase' = [phase EXCEPT ![s] = "stopping"]
  /\ states' = Append(states, FALSE)
  /\ UNCHANGED <<receiving, late, reportVars, handler, uiVars>>

(* Fault: the input device is not told. *)
ServiceStopSilently(s) ==
  /\ phase[s] = "stopping"
  /\ phase' = [phase EXCEPT ![s] = "stopped"]
  /\ UNCHANGED <<receiving, late, reportVars, handler, states, uiVars>>

(* stop() of the service, on its strand: whoever's handler it is goes. *)
ServiceStop(s) ==
  /\ phase[s] = "stopping"
  /\ phase' = [phase EXCEPT ![s] = "stopped"]
  /\ handler' = 0
  /\ UNCHANGED <<receiving, late, reportVars, states, uiVars>>

(* A request of codes that are not all supported binds nothing.  One on    *)
(* its way when the service was stopped is handled still, but none after.  *)
OnKeyBindingRequest(s) ==
  /\ s \in receiving /\ phase[s] \in {"connected", "stopping", "stopped"}
  /\ handler' \in {handler, s}
  /\ late' = IF phase[s] = "stopped" /\ handler' = s THEN late \cup {s} ELSE late
  /\ receiving' = IF phase[s] = "stopped" THEN receiving \ {s} ELSE receiving
  /\ UNCHANGED <<phase, reportVars, states, uiVars>>

ChannelFails(s) ==
  /\ s \in receiving
  /\ receiving' = receiving \ {s}
  /\ UNCHANGED <<phase, late, reportVars, handler, states, uiVars>>

(* Fault: reports are posted to the threads and not to the strand. *)
ReportUnordered(s) ==
  /\ \E i \in 1 .. Len(reports[s]) :
       /\ reports' = [reports EXCEPT ![s] = SubSeq(@, 1, i - 1)
                                              \o SubSeq(@, i + 1, Len(@))]
       /\ sent' = [sent EXCEPT ![s] = Append(@, reports[s][i])]
  /\ UNCHANGED <<serviceVars, fault, events, handler, states, uiVars>>

(* The strand sends the report that was queued first. *)
Report(s) ==
  /\ reports[s] # <<>>
  /\ reports' = [reports EXCEPT ![s] = Tail(@)]
  /\ sent' = [sent EXCEPT ![s] = Append(@, Head(reports[s]))]
  /\ UNCHANGED <<serviceVars, fault, events, handler, states, uiVars>>

(* Nothing refers to the service any more but, perhaps, eventHandler_. *)
Destroy(s) ==
  /\ phase[s] = "stopped" /\ s \notin receiving /\ reports[s] = <<>>
  /\ phase' = [phase EXCEPT ![s] = "gone"]
  /\ UNCHANGED <<receiving, late, reportVars, handler, states, uiVars>>

-----------------------------------------------------------------------------
(* The input device, on the GUI thread. *)

(* The handler queues a report.  What a call through a pointer that leads  *)
(* nowhere does is not known: the model ends there.                        *)
Dispatch ==
  /\ fault = "none" /\ events < MaxEvents
  /\ events' = events + 1
  /\ fault' = IF handler = 0 THEN "null"
              ELSE IF phase[handler] = "gone" THEN "dangling" ELSE "none"
  /\ reports' = IF fault' # "none" THEN reports
                ELSE [reports EXCEPT ![handler] = Append(@, events')]
  /\ UNCHANGED <<sent, serviceVars, handler, states, uiVars>>

(* The value of inputEnabled_.  Journey.qml binds a property of that name, *)
(* but the class declares none: setInputEnabled() is never called.         *)
InputEnabled == TRUE

EventFilter == InputEnabled /\ handler # 0 /\ Dispatch

(* The view hands touches on; a modal popup keeps them. *)
HandleTouchEvent == view = "androidAuto" /\ ~popup /\ Dispatch

-----------------------------------------------------------------------------
(* The view stack, on the GUI thread.  Every pop goes to the bottom, the   *)
(* main view, so that the top is all there is to know.                     *)

OnConnectivityStateChanged ==
  /\ states # <<>>
  /\ states' = Tail(states) /\ connected' = Head(states)
  /\ view' = IF Head(states) = connected THEN view
             ELSE IF Head(states) THEN "androidAuto" ELSE "main"
  /\ UNCHANGED <<serviceVars, reportVars, handler, popup>>

(* The button is there while the phone is connected. *)
ViewAndroidAuto ==
  /\ connected /\ view = "main" /\ ~popup
  /\ view' = "androidAuto"
  /\ UNCHANGED <<serviceVars, reportVars, handler, states, connected, popup>>

ViewSettings ==
  /\ view = "main" /\ ~popup
  /\ view' = "settings"
  /\ UNCHANGED <<serviceVars, reportVars, handler, states, connected, popup>>

RequestHome ==
  /\ view # "main" /\ ~popup
  /\ view' = "main"
  /\ UNCHANGED <<serviceVars, reportVars, handler, states, connected, popup>>

(* The popups are opened from the main view's header, and stay while the   *)
(* views below them change.                                                *)
TogglePopup ==
  /\ popup \/ view = "main"
  /\ popup' = ~popup
  /\ UNCHANGED <<serviceVars, reportVars, handler, states, connected, view>>

Next ==
  \/ EventFilter \/ HandleTouchEvent
  \/ OnConnectivityStateChanged
  \/ ViewAndroidAuto \/ ViewSettings \/ RequestHome \/ TogglePopup
  \/ \E s \in Session :
       \/ ServiceStart(s) \/ Connect(s) \/ SessionStop(s) \/ ServiceStop(s)
       \/ OnKeyBindingRequest(s) \/ ChannelFails(s) \/ Report(s) \/ Destroy(s)

Spec == Init /\ [][Next]_vars

-----------------------------------------------------------------------------
(* Properties. *)

(* What the user did is reported in the order it was done, so that no      *)
(* release overtakes its press, though the reports of each service are     *)
(* sent by whichever thread runs its strand.                               *)
ReportsInOrder ==
  \A s \in Session :
    LET all == sent[s] \o reports[s]
    IN  \A i, j \in 1 .. Len(all) : i < j => all[i] < all[j]

(* The device does not keep a handler that no longer exists: a service     *)
(* that is destroyed was stopped, and its stop took the pointer back,      *)
(* unless it bound its keys again on a request that came after the stop.   *)
HandlerExists ==
  handler # 0 /\ phase[handler] = "gone" => handler \in late
=============================================================================
