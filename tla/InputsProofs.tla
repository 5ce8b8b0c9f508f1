---------------------------- MODULE InputsProofs ----------------------------
(***************************************************************************)
(* Machine-checked proofs about Inputs: about the sensors, the keys and    *)
(* touches, and the microphone, for any number of phones and of whatever   *)
(* they, the user and the world do.                                        *)
(*                                                                         *)
(* A step is one of the three parts and leaves the other two alone, so the *)
(* inductive invariant, InputsInv, is that of each part, and each is       *)
(* proved of the steps of its part alone.                                  *)
(***************************************************************************)
EXTENDS Inputs, SequenceTheorems, TLAPS

-----------------------------------------------------------------------------
(* The sensors. *)

(* A service whose strand has not run start() has told nothing, and has    *)
(* nothing to tell.                                                        *)
SilentBeforeStart ==
  phase \in {"idle", "starting"} => firstRun /\ answers = 0 /\ ~receiving

(* What a further answer to the phone repeats, isNight, is what the next   *)
(* poll compares with.                                                     *)
RepeatsWhatWasTold == ~firstRun => isNight = previous

(* Answers are to requests: it bounds answers, of which TypeOK speaks.     *)
Answering == answers <= requests

(* TypeOK in two parts: what is counted, and the rest. *)
CountersOK == /\ answers \in Nat /\ requests \in 0 .. MaxRequests
              /\ changes \in 0 .. MaxChanges
StatesOK ==
  /\ phase \in {"idle", "starting", "started", "stopping", "stopped"}
  /\ stopPolling \in BOOLEAN /\ timer \in BOOLEAN
  /\ file \in BOOLEAN /\ isNight \in BOOLEAN /\ previous \in BOOLEAN
  /\ firstRun \in BOOLEAN
  /\ gps \in {"never", "open", "closed"} /\ gpsEnabled \in BOOLEAN
  /\ receiving \in BOOLEAN
  /\ told \in {"unknown", "day", "night"}

SensorInv == /\ CountersOK /\ StatesOK /\ Answering /\ SilentBeforeStart
             /\ RepeatsWhatWasTold /\ ComparesWithTold /\ GpsIsOpen

(* At first. *)
LEMMA InitSensor == Init => SensorInv
<1> SUFFICES ASSUME Init PROVE SensorInv
  OBVIOUS
<1>1. CountersOK /\ Answering
  BY SensorAssumption DEF Init, CountersOK, Answering
<1>2. StatesOK
  BY ZenonT(60) DEF Init, StatesOK
<1>3. SilentBeforeStart /\ RepeatsWhatWasTold /\ ComparesWithTold /\ GpsIsOpen
  BY ZenonT(60)
  DEF Init, SilentBeforeStart, RepeatsWhatWasTold, ComparesWithTold, GpsIsOpen
<1>4. QED BY <1>1, <1>2, <1>3 DEF SensorInv

(* Sessions start and stop, and the strand runs start()'s part: the one    *)
(* place where isNight changes without a comparison, before any request.   *)
LEMMA StartsKeep ==
  ASSUME SensorInv, SessionStart \/ SessionStop \/ ServiceStart \/ ServiceStop
  PROVE  SensorInv'
<1> USE DEF SensorInv
<1>0. UNCHANGED <<answers, requests, changes>>
  BY 
  DEF SessionStart, SessionStop, ServiceStart, ServiceStop, phoneVars,
      worldVars
<1>1. CountersOK' /\ Answering'
  BY <1>0 DEF CountersOK, Answering
<1>1a. StatesOK'
  <2> USE DEF StatesOK, phoneVars, nightVars, pollVars, gpsVars, worldVars
  <2>1. CASE SessionStart
    BY <2>1, ZenonT(60) DEF SessionStart
  <2>2. CASE SessionStop
    BY <2>2, ZenonT(60) DEF SessionStop
  <2>3. CASE ServiceStart
    BY <2>3, ZenonT(60) DEF ServiceStart
  <2>4. CASE ServiceStop
    BY <2>4, ZenonT(60) DEF ServiceStop
  <2>5. QED BY <2>1, <2>2, <2>3, <2>4
<1>2. SilentBeforeStart'
  BY 
  DEF SilentBeforeStart, SessionStart, SessionStop, ServiceStart, ServiceStop,
      StatesOK, phoneVars, nightVars
<1>3. RepeatsWhatWasTold' /\ ComparesWithTold'
  BY DEF SilentBeforeStart, RepeatsWhatWasTold, ComparesWithTold, Mode,
         SessionStart, SessionStop, ServiceStart, ServiceStop, nightVars
<1>4. GpsIsOpen'
  BY 
  DEF GpsIsOpen, SessionStart, SessionStop, ServiceStart, ServiceStop, gpsVars
<1>5. QED BY <1>1, <1>1a, <1>2, <1>3, <1>4

(* The phone asks, its channel fails, and somebody changes the file. *)
LEMMA RequestsKeep ==
  ASSUME SensorInv, OnSensorStartRequest \/ ChannelFails \/ NightModeChanges
  PROVE  SensorInv'
<1> USE DEF SensorInv
<1>1. CountersOK' /\ Answering'
  BY SensorAssumption
  DEF CountersOK, Answering, OnSensorStartRequest, ChannelFails,
      NightModeChanges, phoneVars, worldVars
<1>1a. StatesOK'
  <2> USE DEF StatesOK, phoneVars, nightVars, pollVars, gpsVars, worldVars
  <2>1. CASE OnSensorStartRequest
    BY <2>1, ZenonT(60) DEF OnSensorStartRequest
  <2>2. CASE ChannelFails
    BY <2>2, ZenonT(60) DEF ChannelFails
  <2>3. CASE NightModeChanges
    BY <2>3, ZenonT(60) DEF NightModeChanges
  <2>4. QED BY <2>1, <2>2, <2>3
<1>2. SilentBeforeStart'
  <2> USE DEF SilentBeforeStart, phoneVars, nightVars
  <2>1. CASE OnSensorStartRequest
    BY <2>1, ZenonT(60) DEF OnSensorStartRequest
  <2>2. CASE ChannelFails
    BY <2>2, ZenonT(60) DEF ChannelFails
  <2>3. CASE NightModeChanges
    BY <2>3, ZenonT(60) DEF NightModeChanges
  <2>4. QED BY <2>1, <2>2, <2>3
<1>3. RepeatsWhatWasTold' /\ ComparesWithTold' /\ GpsIsOpen'
  BY 
  DEF RepeatsWhatWasTold, ComparesWithTold, GpsIsOpen, Mode,
      OnSensorStartRequest, ChannelFails, NightModeChanges, nightVars, gpsVars
<1>4. QED BY <1>1, <1>1a, <1>2, <1>3

(* The answer that was sent, and the poll: the two that tell the phone. *)
LEMMA TellingKeeps ==
  ASSUME SensorInv, SendNightData \/ SensorPolling
  PROVE  SensorInv'
<1> USE DEF SensorInv
<1>1. CountersOK' /\ Answering'
  BY DEF CountersOK, Answering, SendNightData, SensorPolling, Compare,
         phoneVars, worldVars
<1>1a. StatesOK'
  BY ZenonT(60)
  DEF StatesOK, SendNightData, SensorPolling, Compare, Mode, phoneVars,
      nightVars, pollVars, gpsVars, worldVars
<1>2. SilentBeforeStart'
  BY DEF CountersOK, SilentBeforeStart, SendNightData, SensorPolling, Compare,
         phoneVars, nightVars
<1>3. RepeatsWhatWasTold'
  BY DEF RepeatsWhatWasTold, SendNightData, SensorPolling, Compare, nightVars
<1>4. ComparesWithTold'
  BY DEF RepeatsWhatWasTold, ComparesWithTold, Mode, SendNightData,
         SensorPolling, Compare, nightVars
<1>5. GpsIsOpen'
  BY DEF GpsIsOpen, SendNightData, SensorPolling, Compare, gpsVars
<1>6. QED BY <1>1, <1>1a, <1>2, <1>3, <1>4, <1>5

(* Every step of the sensors keeps it. *)
LEMMA SensorStep == SensorInv /\ [Next]_vars => SensorInv'
<1> SUFFICES ASSUME SensorInv, [Next]_vars PROVE SensorInv'
  OBVIOUS
<1>1. CASE SessionStart \/ SessionStop \/ ServiceStart \/ ServiceStop
  BY <1>1, StartsKeep
<1>2. CASE OnSensorStartRequest \/ ChannelFails \/ NightModeChanges
  BY <1>2, RequestsKeep
<1>3. CASE SendNightData \/ SensorPolling
  BY <1>3, TellingKeeps
<1>4. CASE UNCHANGED vars
  BY <1>4
  DEF SensorInv, CountersOK, StatesOK, Answering, SilentBeforeStart,
      RepeatsWhatWasTold, ComparesWithTold, GpsIsOpen, Mode, vars, phoneVars,
      nightVars, pollVars, gpsVars, worldVars
<1>5. QED BY <1>1, <1>2, <1>3, <1>4 DEF Next, Strand

(* It is more than the types. *)
LEMMA SensorTypes == SensorInv => TypeOK
<1>1. CountersOK /\ Answering => answers \in 0 .. MaxRequests
  BY SensorAssumption DEF CountersOK, Answering
<1>2. QED
  BY <1>1, ZenonT(60) DEF SensorInv, CountersOK, StatesOK, TypeOK

-----------------------------------------------------------------------------
(* Keys and touches. *)

(* What is assumed of the constants. *)
Constants == Sessions \in Nat /\ MaxEvents \in Nat

Service(s) ==
  \/ Input!ServiceStart(s) \/ Input!Connect(s) \/ Input!SessionStop(s)
  \/ Input!ServiceStop(s) \/ Input!OnKeyBindingRequest(s)
  \/ Input!ChannelFails(s) \/ Input!Report(s) \/ Input!Destroy(s)
Interface ==
  \/ Input!OnConnectivityStateChanged \/ Input!ViewAndroidAuto
  \/ Input!ViewSettings \/ Input!RequestHome \/ Input!TogglePopup

(* A step is one of a service, a key or a touch, or one of the interface. *)
LEMMA KeyStepCases ==
  ASSUME [Input!Next]_inputVars
  PROVE  \/ \E s \in Input!Session : Service(s)
         \/ Input!Dispatch \/ Interface \/ UNCHANGED inputVars
BY 
DEF Input!Next, Service, Interface, Input!EventFilter, Input!HandleTouchEvent


(* A service's step keeps the types. *)
LEMMA KeyServiceTypes ==
  ASSUME Constants, Input!TypeOK, NEW s \in Input!Session, Service(s)
  PROVE  Input!TypeOK'
<1>1. CASE Input!ServiceStart(s)
  BY <1>1 DEF Input!ServiceStart, Input!TypeOK, Input!reportVars, Input!uiVars
<1>2. CASE Input!Connect(s)
  BY <1>2 DEF Input!Connect, Input!TypeOK, Input!reportVars, Input!uiVars
<1>3. CASE Input!SessionStop(s)
  BY <1>3 DEF Input!SessionStop, Input!TypeOK, Input!reportVars, Input!uiVars
<1>4. CASE Input!ServiceStop(s)
  <2>1. keyPhase' \in [Input!Session ->
          {"idle", "started", "connected", "stopping"} \cup Input!Over]
    BY <1>4 DEF Input!ServiceStop, Input!TypeOK, Input!Over
  <2>2. handler' \in 0 .. Sessions
    BY <1>4 DEF Input!ServiceStop, Constants
  <2>3. QED
    BY <1>4, <2>1, <2>2
    DEF Input!ServiceStop, Input!TypeOK, Input!reportVars, Input!uiVars
<1>5. CASE Input!OnKeyBindingRequest(s)
  <2>1. handler' \in 0 .. Sessions
    BY <1>5 DEF Input!OnKeyBindingRequest, Input!TypeOK, Input!Session
  <2>2. keyReceiving' \subseteq Input!Session /\ late' \subseteq Input!Session
    BY <1>5 DEF Input!OnKeyBindingRequest, Input!TypeOK
  <2>3. QED
    BY <1>5, <2>1, <2>2
    DEF Input!OnKeyBindingRequest, Input!TypeOK, Input!reportVars, Input!uiVars
<1>6. CASE Input!ChannelFails(s)
  BY <1>6 DEF Input!ChannelFails, Input!TypeOK, Input!reportVars, Input!uiVars
<1>7. CASE Input!Report(s)
  <2>1. /\ reports[s] \in Seq(Input!Event) /\ reports[s] # <<>>
        /\ sent[s] \in Seq(Input!Event)
    BY <1>7 DEF Input!Report, Input!TypeOK
  <2>2. /\ Tail(reports[s]) \in Seq(Input!Event)
        /\ Head(reports[s]) \in Input!Event
    BY <2>1, HeadTailProperties
  <2>3. Append(sent[s], Head(reports[s])) \in Seq(Input!Event)
    BY <2>1, <2>2, AppendProperties
  <2>4. QED
    BY <1>7, <2>2, <2>3
    DEF Input!Report, Input!TypeOK, Input!serviceVars, Input!uiVars
<1>8. CASE Input!Destroy(s)
  <2>1. keyPhase' \in [Input!Session ->
          {"idle", "started", "connected", "stopping"} \cup Input!Over]
    BY <1>8 DEF Input!Destroy, Input!TypeOK, Input!Over
  <2>2. QED
    BY <1>8, <2>1
    DEF Input!Destroy, Input!TypeOK, Input!reportVars, Input!uiVars
<1>9. QED
  BY <1>1, <1>2, <1>3, <1>4, <1>5, <1>6, <1>7, <1>8 DEF Service

(* So does a key or a touch. *)
LEMMA KeyDispatchTypes ==
  ASSUME Constants, Input!TypeOK, Input!Dispatch
  PROVE  Input!TypeOK'
<1>1. events' \in Input!Event /\ events' \in 0 .. MaxEvents
  BY DEF Input!Dispatch, Input!TypeOK, Input!Event, Constants
<1>2. fault' \in {"none", "null", "dangling"}
  BY DEF Input!Dispatch
<1>3. reports' \in [Input!Session -> Seq(Input!Event)]
  <2>1. CASE fault' # "none"
    BY <2>1 DEF Input!Dispatch, Input!TypeOK
  <2>2. CASE fault' = "none"
    <3>1. handler \in Input!Session
      BY <2>2 DEF Input!Dispatch, Input!TypeOK, Input!Session, Constants
    <3>2. Append(reports[handler], events') \in Seq(Input!Event)
      BY <1>1, <3>1, AppendProperties DEF Input!TypeOK
    <3>3. QED
      BY <2>2, <3>1, <3>2 DEF Input!Dispatch, Input!TypeOK
  <2>3. QED
    BY <2>1, <2>2
<1>4. QED
  BY <1>1, <1>2, <1>3
  DEF Input!Dispatch, Input!TypeOK, Input!serviceVars, Input!uiVars

(* So does the interface. *)
LEMMA KeyInterfaceTypes ==
  ASSUME Input!TypeOK, Interface
  PROVE  Input!TypeOK'
<1>1. CASE Input!OnConnectivityStateChanged
  <2>1. states' \in Seq(BOOLEAN) /\ connected' \in BOOLEAN
    BY <1>1, HeadTailProperties
    DEF Input!OnConnectivityStateChanged, Input!TypeOK
  <2>2. view' \in {"main", "settings", "androidAuto"}
    BY <1>1 DEF Input!OnConnectivityStateChanged, Input!TypeOK
  <2>3. QED
    BY <1>1, <2>1, <2>2
    DEF Input!OnConnectivityStateChanged, Input!TypeOK, Input!serviceVars,
        Input!reportVars
<1>2. CASE Input!ViewAndroidAuto \/ Input!ViewSettings \/ Input!RequestHome
  BY <1>2
  DEF Input!ViewAndroidAuto, Input!ViewSettings, Input!RequestHome,
      Input!TypeOK, Input!serviceVars, Input!reportVars
<1>3. CASE Input!TogglePopup
  BY <1>3
  DEF Input!TogglePopup, Input!TypeOK, Input!serviceVars, Input!reportVars
<1>4. QED
  BY <1>1, <1>2, <1>3 DEF Interface

(* The types hold at first. *)
LEMMA KeyInitTypes ==
  ASSUME Constants, Input!Init
  PROVE  Input!TypeOK
<1>1. <<>> \in Seq(Input!Event) /\ <<>> \in Seq(BOOLEAN)
  BY EmptySeq
<1>2. 0 \in 0 .. Sessions /\ 0 \in 0 .. MaxEvents
  BY DEF Constants
<1>3. QED
  BY <1>1, <1>2 DEF Input!Init, Input!TypeOK

(* Every step keeps them. *)
LEMMA KeyStepTypes ==
  ASSUME Constants, Input!TypeOK, [Input!Next]_inputVars
  PROVE  Input!TypeOK'
<1>1. CASE UNCHANGED inputVars
  BY <1>1
  DEF Input!TypeOK, inputVars, Input!serviceVars, Input!reportVars,
      Input!uiVars
<1>2. QED
  BY <1>1, KeyStepCases, KeyServiceTypes, KeyDispatchTypes, KeyInterfaceTypes

-----------------------------------------------------------------------------
(* The order of the reports. *)

(* All that a service has sent and has still to send. *)
All(s) == sent[s] \o reports[s]
Ordered(q) == \A i, j \in 1 .. Len(q) : i < j => q[i] < q[j]
Known ==
  \A s \in Input!Session : \A i \in 1 .. Len(All(s)) : All(s)[i] <= events

(* The inductive invariant. *)
OrderInv == Input!TypeOK /\ Input!ReportsInOrder /\ Known

(* It is a sequence. *)
LEMMA AllType ==
  ASSUME Input!TypeOK, NEW s \in Input!Session
  PROVE  All(s) \in Seq(Input!Event)
BY ConcatProperties DEF All, Input!TypeOK

(* What is sent is what was first in the queue: the two make up the same. *)
LEMMA ReportMoves ==
  ASSUME NEW S, NEW q \in Seq(S), NEW r \in Seq(S), r # <<>>
  PROVE  Append(q, Head(r)) \o Tail(r) = q \o r
<1>1. Head(r) \in S /\ Tail(r) \in Seq(S) /\ r = <<Head(r)>> \o Tail(r)
  BY HeadTailProperties, SubSeqRecursiveFirst, TailIsSubSeq, SubSeqFull,
     LenProperties, EmptySeq
<1>2. <<Head(r)>> \in Seq(S)
  BY <1>1
<1>3. Append(q, Head(r)) = q \o <<Head(r)>>
  BY <1>1, AppendIsConcat
<1>4. QED
  BY <1>1, <1>2, <1>3, ConcatAssociative

(* A new report is the last. *)
LEMMA ReportAdds ==
  ASSUME NEW q \in Seq(Input!Event), NEW r \in Seq(Input!Event),
         NEW e \in Input!Event
  PROVE  q \o Append(r, e) = Append(q \o r, e)
<1>1. Append(r, e) = r \o <<e>> /\ Append(q \o r, e) = (q \o r) \o <<e>>
  BY AppendIsConcat, ConcatProperties
<1>2. QED
  BY <1>1, ConcatAssociative

(* One that comes after all others keeps the order. *)
LEMMA LaterInOrder ==
  ASSUME NEW n \in Nat, NEW q \in Seq(Nat), Ordered(q),
         \A i \in 1 .. Len(q) : q[i] <= n
  PROVE  /\ Ordered(Append(q, n + 1))
         /\ \A i \in 1 .. Len(Append(q, n + 1)) : Append(q, n + 1)[i] <= n + 1
<1>1. /\ Len(Append(q, n + 1)) = Len(q) + 1
      /\ \A i \in 1 .. Len(q) : Append(q, n + 1)[i] = q[i]
      /\ Append(q, n + 1)[Len(q) + 1] = n + 1
      /\ Len(q) \in Nat
  BY AppendProperties, LenProperties
<1>2. \A i \in 1 .. Len(q) : q[i] \in Nat
  BY ElementOfSeq
<1>3. QED
  BY <1>1, <1>2 DEF Ordered

(* Steps that change neither the reports nor the count keep it. *)
LEMMA SameReports ==
  ASSUME OrderInv, UNCHANGED <<sent, reports, events>>
  PROVE  Input!ReportsInOrder' /\ Known'
BY DEF OrderInv, Input!ReportsInOrder, Known, All

(* A key or a touch is reported after all others. *)
LEMMA DispatchInOrder ==
  ASSUME Constants, OrderInv, Input!Dispatch
  PROVE  Input!ReportsInOrder' /\ Known'
<1>1. /\ events \in Nat /\ events' = events + 1 /\ events' \in Input!Event
      /\ sent' = sent
  BY DEF Input!Dispatch, OrderInv, Input!TypeOK, Input!Event, Constants
<1>2. SUFFICES ASSUME NEW s \in Input!Session
               PROVE  /\ Ordered(All(s)')
                      /\ \A i \in 1 .. Len(All(s)') : All(s)'[i] <= events'
  BY DEF Input!ReportsInOrder, Known, Ordered, All
<1>3. /\ All(s) \in Seq(Input!Event) /\ All(s) \in Seq(Nat) /\ Ordered(All(s))
      /\ \A i \in 1 .. Len(All(s)) : All(s)[i] <= events
  <2>1. All(s) \in Seq(Input!Event)
    BY AllType DEF OrderInv
  <2>2. Input!Event \subseteq Nat
    BY DEF Input!Event
  <2>3. All(s) \in Seq(Nat)
    BY <2>1, <2>2, SeqMonotonic
  <2>4. QED
    BY <2>1, <2>3 DEF OrderInv, Input!ReportsInOrder, Known, Ordered, All
<1>4. CASE All(s)' = All(s)
  <2>1. \A i \in 1 .. Len(All(s)) : All(s)[i] \in Nat
    BY <1>3, ElementOfSeq
  <2>2. QED
    BY <1>1, <1>3, <1>4, <2>1
<1>5. CASE reports' = [reports EXCEPT ![s] = Append(@, events')]
  <2>1. All(s)' = sent[s] \o Append(reports[s], events')
    BY <1>1, <1>5 DEF All, OrderInv, Input!TypeOK
  <2>2. sent[s] \in Seq(Input!Event) /\ reports[s] \in Seq(Input!Event)
    BY DEF OrderInv, Input!TypeOK
  <2>3. \A e \in Input!Event :
          sent[s] \o Append(reports[s], e) = Append(sent[s] \o reports[s], e)
    BY <2>2, ReportAdds
  <2>4. All(s)' = Append(All(s), events')
    BY <1>1, <2>1, <2>3 DEF All
  <2>5. QED
    BY <1>1, <1>3, <2>4, LaterInOrder
<1>6. QED
  <2>1. CASE fault' # "none"
    BY <1>1, <1>4, <2>1 DEF Input!Dispatch, All
  <2>2. CASE fault' = "none" /\ handler = s
    BY <1>5, <2>2 DEF Input!Dispatch
  <2>3. CASE fault' = "none" /\ handler # s
    BY <1>1, <1>4, <2>3 DEF Input!Dispatch, All, OrderInv, Input!TypeOK
  <2>4. QED
    BY <2>1, <2>2, <2>3

(* Sending changes what is sent and what is to be sent, and not the whole. *)
LEMMA SendingInOrder ==
  ASSUME OrderInv, NEW s \in Input!Session, Input!Report(s)
  PROVE  Input!ReportsInOrder' /\ Known'
<1>1. \A t \in Input!Session : All(t)' = All(t)
  <2>1. SUFFICES ASSUME NEW t \in Input!Session PROVE All(t)' = All(t)
    OBVIOUS
  <2>2. CASE t = s
    <3>1. All(t)' = Append(sent[s], Head(reports[s])) \o Tail(reports[s])
      BY <2>2 DEF Input!Report, All, OrderInv, Input!TypeOK
    <3>2. QED
      BY <2>2, <3>1, ReportMoves DEF Input!Report, All, OrderInv, Input!TypeOK
  <2>3. CASE t # s
    BY <2>3 DEF Input!Report, All, OrderInv, Input!TypeOK
  <2>4. QED
    BY <2>2, <2>3
<1>2. events' = events
  BY DEF Input!Report
<1>3. Input!ReportsInOrder'
  <2>1. \A t \in Input!Session : Ordered(All(t))
    BY DEF OrderInv, Input!ReportsInOrder, Ordered, All
  <2>2. \A t \in Input!Session : Ordered(All(t)')
    BY <1>1, <2>1
  <2>3. QED
    BY <2>2 DEF Input!ReportsInOrder, Ordered, All
<1>4. Known'
  BY <1>1, <1>2 DEF OrderInv, Known
<1>5. QED
  BY <1>3, <1>4

-----------------------------------------------------------------------------
(* The handler. *)

(* The inductive invariant: a handler that was stopped bound its keys      *)
(* again afterwards.                                                       *)
StoppedIsLate ==
  handler # 0 /\ keyPhase[handler] \in Input!Over => handler \in late
HandlerInv == Input!TypeOK /\ StoppedIsLate

(* A service's step keeps it. *)
LEMMA ServiceKeepsHandler ==
  ASSUME Constants, HandlerInv, NEW s \in Input!Session, Service(s)
  PROVE  StoppedIsLate'
<1>1. handler # 0 => handler \in Input!Session
  BY DEF HandlerInv, Input!TypeOK, Input!Session, Constants
<1>2. CASE Input!ServiceStart(s) \/ Input!Connect(s) \/ Input!SessionStop(s)
  <2>1. SUFFICES ASSUME handler' # 0, keyPhase'[handler'] \in Input!Over
                 PROVE  handler' \in late'
    BY DEF StoppedIsLate
  <2>2. handler' = handler /\ late' = late /\ handler \in Input!Session
    BY <1>1, <1>2, <2>1
    DEF Input!ServiceStart, Input!Connect, Input!SessionStop
  <2>3. PICK p \in {"started", "connected", "stopping"} :
          keyPhase' = [keyPhase EXCEPT ![s] = p]
    BY <1>2 DEF Input!ServiceStart, Input!Connect, Input!SessionStop
  <2>4. keyPhase[handler] \in Input!Over
    BY <2>1, <2>2, <2>3 DEF HandlerInv, Input!TypeOK, Input!Over
  <2>5. QED
    BY <2>1, <2>2, <2>4 DEF HandlerInv, StoppedIsLate
<1>3. CASE Input!ServiceStop(s)
  BY <1>3 DEF Input!ServiceStop, StoppedIsLate
<1>4. CASE Input!OnKeyBindingRequest(s)
  BY <1>1, <1>4
  DEF Input!OnKeyBindingRequest, HandlerInv, StoppedIsLate, Input!TypeOK,
      Input!Over
<1>5. CASE Input!ChannelFails(s) \/ Input!Report(s)
  BY <1>5
  DEF Input!ChannelFails, Input!Report, HandlerInv, StoppedIsLate,
      Input!serviceVars
<1>6. CASE Input!Destroy(s)
  BY <1>1, <1>6
  DEF Input!Destroy, HandlerInv, StoppedIsLate, Input!TypeOK, Input!Over
<1>7. QED
  BY <1>2, <1>3, <1>4, <1>5, <1>6 DEF Service

(* The inductive invariants of keys and touches, at first. *)
LEMMA KeyInvInit ==
  ASSUME Constants, Input!Init
  PROVE  OrderInv /\ HandlerInv
<1>1. \A s \in Input!Session : All(s) = <<>>
  BY ConcatEmptySeq, EmptySeq DEF Input!Init, All
<1>2. 1 .. Len(<<>>) = {}
  BY EmptySeq
<1>3. \A s \in Input!Session : Ordered(All(s))
  BY <1>1, <1>2 DEF Ordered
<1>4. Input!ReportsInOrder
  BY <1>3 DEF Input!ReportsInOrder, Ordered, All
<1>5. Known
  BY <1>1, <1>2 DEF Known
<1>6. StoppedIsLate
  BY DEF Input!Init, StoppedIsLate
<1>7. QED
  BY <1>4, <1>5, <1>6, KeyInitTypes DEF OrderInv, HandlerInv

(* Every step keeps the order of the reports. *)
LEMMA OrderStep ==
  ASSUME Constants, OrderInv, [Input!Next]_inputVars
  PROVE  OrderInv'
<1>1. SUFFICES Input!ReportsInOrder' /\ Known'
  BY KeyStepTypes DEF OrderInv
<1>2. CASE Input!Dispatch
  BY <1>2, DispatchInOrder
<1>3. ASSUME NEW s \in Input!Session, Input!Report(s)
      PROVE  Input!ReportsInOrder' /\ Known'
  BY <1>3, SendingInOrder
<1>4. ASSUME NEW s \in Input!Session, Service(s), ~Input!Report(s)
      PROVE  Input!ReportsInOrder' /\ Known'
  <2>1. UNCHANGED <<sent, reports, events>>
    BY <1>4
    DEF Service, Input!ServiceStart, Input!Connect, Input!SessionStop,
        Input!ServiceStop, Input!OnKeyBindingRequest, Input!ChannelFails,
        Input!Destroy, Input!reportVars
  <2>2. QED
    BY <2>1, SameReports
<1>5. CASE Interface \/ UNCHANGED inputVars
  <2>1. UNCHANGED <<sent, reports, events>>
    BY <1>5
    DEF Interface, Input!OnConnectivityStateChanged, Input!ViewAndroidAuto,
        Input!ViewSettings, Input!RequestHome, Input!TogglePopup,
        Input!reportVars, inputVars
  <2>2. QED
    BY <2>1, SameReports
<1>6. QED
  BY <1>2, <1>3, <1>4, <1>5, KeyStepCases

(* Every step keeps what is known of the handler. *)
LEMMA HandlerStep ==
  ASSUME Constants, HandlerInv, [Input!Next]_inputVars
  PROVE  HandlerInv'
<1>1. SUFFICES StoppedIsLate'
  BY KeyStepTypes DEF HandlerInv
<1>2. ASSUME NEW s \in Input!Session, Service(s) PROVE StoppedIsLate'
  BY <1>2, ServiceKeepsHandler
<1>3. CASE Input!Dispatch \/ Interface \/ UNCHANGED inputVars
  <2>1. UNCHANGED <<handler, keyPhase, late>>
    BY <1>3
    DEF Input!Dispatch, Interface, Input!OnConnectivityStateChanged,
        Input!ViewAndroidAuto, Input!ViewSettings, Input!RequestHome,
        Input!TogglePopup, Input!serviceVars, inputVars
  <2>2. QED
    BY <2>1 DEF HandlerInv, StoppedIsLate
<1>4. QED
  BY <1>2, <1>3, KeyStepCases

-----------------------------------------------------------------------------
(* The microphone. *)

(* Who speaks, waits or is spoken of has been started. *)
Began == {s \in Mic!Session : micPhase[s] # "idle"}
Chain(s) == opened[s] + data[s] + sending[s]
OnlyBegan ==
  /\ \A s \in micReceiving : s \in Began
  /\ \A i \in 1 .. Len(micSignals) : micSignals[i].session \in Began
  /\ readPromise # 0 => readPromise \in Began
  /\ \A s \in Mic!Session : Chain(s) > 0 => s \in Began
  /\ device => opener \in Began

(* There is a timer to stop when there is said to be one, and somebody has *)
(* opened the device when it is open.                                      *)
TimerRuns == pollTimer => timers > 0
DeviceOpened == device => opener # 0
MicTypes == Mic!TypeOK /\ TimerRuns /\ DeviceOpened

(* The inductive invariant. *)
MicInv == MicTypes /\ OnlyBegan /\ Mic!FlowingWhileOpen

MicService(s) ==
  \/ Mic!ServiceStart(s) \/ Mic!SessionStop(s) \/ Mic!ServiceStop(s)
  \/ Mic!OnMediaSourceOpenRequest(s) \/ Mic!ChannelFails(s)
Recorder ==
  \/ \E s \in Mic!Session : Mic!OnStartRecording(s) \/ Mic!OnStopRecording(s)
  \/ Mic!Deliver \/ Mic!KeepInFilter \/ Mic!ReadFails

(* A step is one of a service's channel, of the GUI thread or of a chain. *)
LEMMA MicStepCases ==
  ASSUME [Mic!Next]_micVars
  PROVE  \/ \E s \in Mic!Session : MicService(s) \/ Mic!Strand(s)
         \/ Recorder \/ UNCHANGED micVars
BY Zenon DEF Mic!Next, Mic!GuiThread, MicService, Recorder

(* The types hold at first. *)
LEMMA MicInitTypes ==
  ASSUME Mic!Init
  PROVE  MicTypes
<1>1. <<>> \in Seq(Mic!Signal)
  BY EmptySeq
<1>2. 0 \in Nat /\ 0 \in 0 .. Sessions
  BY InputsAssumption
<1>3. QED
  BY <1>1, <1>2, Zenon
  DEF Mic!Init, MicTypes, Mic!TypeOK, TimerRuns, DeviceOpened

(* What a queue of signals becomes. *)
LEMMA SignalAdded ==
  ASSUME MicTypes, NEW s \in Mic!Session, NEW op \in {"start", "stop"}
  PROVE  /\ Append(micSignals, [op |-> op, session |-> s]) \in Seq(Mic!Signal)
         /\ Len(Append(micSignals, [op |-> op, session |-> s]))
              = Len(micSignals) + 1
         /\ \A i \in 1 .. Len(micSignals) + 1 :
              LET q == Append(micSignals, [op |-> op, session |-> s])
              IN  \/ i \in 1 .. Len(micSignals) /\ q[i] = micSignals[i]
                  \/ q[i].session = s
<1>1. micSignals \in Seq(Mic!Signal)
  BY Zenon DEF MicTypes, Mic!TypeOK
<1>2. [op |-> op, session |-> s] \in Mic!Signal
  BY Zenon DEF Mic!Signal
<1>3. QED
  BY <1>1, <1>2, AppendProperties, LenProperties

(* The steps of a service's channel keep the types. *)
LEMMA MicServiceTypes ==
  ASSUME MicTypes, NEW s \in Mic!Session, MicService(s)
  PROVE  MicTypes'
<1>1. UNCHANGED <<device, opener, pollTimer, timers, readPromise, filter,
                  resampler, opened, data, sending, broken>>
  BY Zenon
  DEF MicService, Mic!ServiceStart, Mic!SessionStop, Mic!ServiceStop,
      Mic!OnMediaSourceOpenRequest, Mic!ChannelFails, Mic!inputVars,
      Mic!chainVars
<1>2. micPhase' \in [Mic!Session -> {"idle", "started", "stopping", "stopped"}]
  <2>1. \/ UNCHANGED micPhase
        \/ \E p \in {"started", "stopping", "stopped"} :
             micPhase' = [micPhase EXCEPT ![s] = p]
    BY Zenon
    DEF MicService, Mic!ServiceStart, Mic!SessionStop, Mic!ServiceStop,
        Mic!OnMediaSourceOpenRequest, Mic!ChannelFails
  <2>2. micPhase \in [Mic!Session ->
                        {"idle", "started", "stopping", "stopped"}]
    BY Zenon DEF MicTypes, Mic!TypeOK
  <2>3. QED
    BY <2>1, <2>2
<1>3. micReceiving' \subseteq Mic!Session
  <2>1. micReceiving' \subseteq micReceiving \cup {s}
    BY Zenon
    DEF MicService, Mic!ServiceStart, Mic!SessionStop, Mic!ServiceStop,
        Mic!OnMediaSourceOpenRequest, Mic!ChannelFails
  <2>2. micReceiving \subseteq Mic!Session
    BY Zenon DEF MicTypes, Mic!TypeOK
  <2>3. QED
    BY <2>1, <2>2
<1>4. micRequests' \in [Mic!Session -> Nat]
  <2>1. micRequests' \in {micRequests, Mic!Plus(micRequests, s)}
    BY Zenon
    DEF MicService, Mic!ServiceStart, Mic!SessionStop, Mic!ServiceStop,
        Mic!OnMediaSourceOpenRequest, Mic!ChannelFails
  <2>2. micRequests \in [Mic!Session -> Nat]
    BY Zenon DEF MicTypes, Mic!TypeOK
  <2>3. QED
    BY <2>1, <2>2 DEF Mic!Plus
<1>5. micSignals' \in Seq(Mic!Signal)
  <2>1. \/ UNCHANGED micSignals
        \/ \E op \in {"start", "stop"} : Mic!Emit(op, s)
    BY Zenon
    DEF MicService, Mic!ServiceStart, Mic!SessionStop, Mic!ServiceStop,
        Mic!OnMediaSourceOpenRequest, Mic!ChannelFails
  <2>2. CASE UNCHANGED micSignals
    BY <2>2, Zenon DEF MicTypes, Mic!TypeOK
  <2>3. ASSUME NEW op \in {"start", "stop"}, Mic!Emit(op, s)
        PROVE  micSignals' \in Seq(Mic!Signal)
    BY <2>3, SignalAdded, Zenon DEF Mic!Emit
  <2>4. QED
    BY <2>1, <2>2, <2>3
<1>6. QED
  BY <1>1, <1>2, <1>3, <1>4, <1>5, Zenon
  DEF MicTypes, Mic!TypeOK, TimerRuns, DeviceOpened

(* A count that goes up or down remains a count. *)
LEMMA Counted ==
  ASSUME NEW count \in [Mic!Session -> Nat], NEW s \in Mic!Session
  PROVE  /\ Mic!Plus(count, s) \in [Mic!Session -> Nat]
         /\ Mic!Plus(count, s)[s] = count[s] + 1
         /\ \A t \in Mic!Session : t # s => Mic!Plus(count, s)[t] = count[t]
         /\ count[s] > 0 =>
              /\ [count EXCEPT ![s] = @ - 1] \in [Mic!Session -> Nat]
              /\ [count EXCEPT ![s] = @ - 1][s] = count[s] - 1
         /\ \A t \in Mic!Session :
              t # s => [count EXCEPT ![s] = @ - 1][t] = count[t]
BY DEF Mic!Plus

LEMMA StaysCounted ==
  ASSUME NEW count \in [Mic!Session -> Nat], NEW s \in Mic!Session, NEW next,
         \/ next \in {count, Mic!Plus(count, s)}
         \/ count[s] > 0 /\ next = [count EXCEPT ![s] = @ - 1]
  PROVE  next \in [Mic!Session -> Nat]
BY Counted

(* So do the steps of a chain. *)
LEMMA MicStrandTypes ==
  ASSUME MicTypes, NEW s \in Mic!Session, Mic!Strand(s)
  PROVE  MicTypes'
<1>1. UNCHANGED <<micPhase, micReceiving, micRequests, micSignals, device,
                  opener, pollTimer, timers, filter, resampler>>
  BY Zenon
  DEF Mic!Strand, Mic!OnMediaSourceOpenSuccess, Mic!OnMediaSourceDataReady,
      Mic!Sent, Mic!SendFails, Mic!serviceVars, Mic!inputVars
<1>2. /\ opened \in [Mic!Session -> Nat] /\ data \in [Mic!Session -> Nat]
      /\ sending \in [Mic!Session -> Nat]
  BY Zenon DEF MicTypes, Mic!TypeOK
<1>3. /\ opened' \in [Mic!Session -> Nat] /\ data' \in [Mic!Session -> Nat]
      /\ sending' \in [Mic!Session -> Nat]
  <2>1. /\ \/ opened' = opened
           \/ opened[s] > 0 /\ opened' = [opened EXCEPT ![s] = @ - 1]
        /\ \/ data' = data
           \/ data[s] > 0 /\ data' = [data EXCEPT ![s] = @ - 1]
        /\ \/ sending' \in {sending, Mic!Plus(sending, s)}
           \/ sending[s] > 0 /\ sending' = [sending EXCEPT ![s] = @ - 1]
    BY Zenon
    DEF Mic!Strand, Mic!OnMediaSourceOpenSuccess, Mic!OnMediaSourceDataReady,
        Mic!Sent, Mic!SendFails, Mic!Less
  <2>2. opened' \in [Mic!Session -> Nat]
    <3>1. opened \in [Mic!Session -> Nat]
      BY <1>2
    <3>2. \/ opened' \in {opened, Mic!Plus(opened, s)}
          \/ opened[s] > 0 /\ opened' = [opened EXCEPT ![s] = @ - 1]
      BY <2>1, Zenon
    <3>3. QED
      BY <3>1, <3>2, StaysCounted
  <2>3. data' \in [Mic!Session -> Nat]
    <3>1. data \in [Mic!Session -> Nat]
      BY <1>2
    <3>2. \/ data' \in {data, Mic!Plus(data, s)}
          \/ data[s] > 0 /\ data' = [data EXCEPT ![s] = @ - 1]
      BY <2>1, Zenon
    <3>3. QED
      BY <3>1, <3>2, StaysCounted
  <2>4. sending' \in [Mic!Session -> Nat]
    <3>1. sending \in [Mic!Session -> Nat]
      BY <1>2
    <3>2. \/ sending' \in {sending, Mic!Plus(sending, s)}
          \/ sending[s] > 0 /\ sending' = [sending EXCEPT ![s] = @ - 1]
      BY <2>1, Zenon
    <3>3. QED
      BY <3>1, <3>2, StaysCounted
  <2>5. QED
    BY <2>2, <2>3, <2>4
<1>4. readPromise' \in 0 .. Sessions
  <2>1. readPromise' \in {readPromise, s}
    BY Zenon
    DEF Mic!Strand, Mic!OnMediaSourceOpenSuccess, Mic!OnMediaSourceDataReady,
        Mic!Sent, Mic!SendFails, Mic!ReadMediaSource
  <2>2. s \in 0 .. Sessions
    BY InputsAssumption DEF Mic!Session
  <2>3. QED
    BY <2>1, <2>2, Zenon DEF MicTypes, Mic!TypeOK
<1>5. broken' \subseteq Mic!Session
  <2>1. broken' \in {broken, broken \cup {s}}
    BY Zenon
    DEF Mic!Strand, Mic!OnMediaSourceOpenSuccess, Mic!OnMediaSourceDataReady,
        Mic!Sent, Mic!SendFails
  <2>2. broken \subseteq Mic!Session
    BY Zenon DEF MicTypes, Mic!TypeOK
  <2>3. QED
    BY <2>1, <2>2
<1>6. QED
  BY <1>1, <1>3, <1>4, <1>5, Zenon
  DEF MicTypes, Mic!TypeOK, TimerRuns, DeviceOpened

(* What the GUI thread takes from the queue. *)
LEMMA SignalTaken ==
  ASSUME MicTypes, micSignals # <<>>
  PROVE  /\ Tail(micSignals) \in Seq(Mic!Signal)
         /\ Head(micSignals) = micSignals[1] /\ 1 \in 1 .. Len(micSignals)
         /\ \A i \in 1 .. Len(Tail(micSignals)) :
              /\ i + 1 \in 1 .. Len(micSignals)
              /\ Tail(micSignals)[i] = micSignals[i + 1]
<1>1. micSignals \in Seq(Mic!Signal)
  BY Zenon DEF MicTypes, Mic!TypeOK
<1>2. QED
  BY <1>1, HeadTailProperties, LenProperties, EmptySeq

(* So do those of the recorder. *)
LEMMA RecorderTypes ==
  ASSUME MicTypes, Recorder
  PROVE  MicTypes'
<1>1. /\ opened \in [Mic!Session -> Nat] /\ data \in [Mic!Session -> Nat]
      /\ timers \in Nat /\ opener \in 0 .. Sessions
      /\ readPromise \in 0 .. Sessions
  BY Zenon DEF MicTypes, Mic!TypeOK
<1>2. UNCHANGED <<micPhase, micReceiving, micRequests, sending>>
  BY Zenon
  DEF Recorder, Mic!OnStartRecording, Mic!OnStopRecording, Mic!Deliver,
      Mic!KeepInFilter, Mic!ReadFails, Mic!Take, Mic!serviceVars,
      Mic!chainVars
<1>3. ASSUME NEW s \in Mic!Session,
             Mic!OnStartRecording(s) \/ Mic!OnStopRecording(s)
      PROVE  MicTypes'
  <2>1. micSignals' \in Seq(Mic!Signal)
    BY <1>3, SignalTaken, Zenon
    DEF Mic!OnStartRecording, Mic!OnStopRecording, Mic!Take
  <2>2. opened' \in [Mic!Session -> Nat] /\ opener' \in 0 .. Sessions
    <3>1. s \in 0 .. Sessions
      BY InputsAssumption DEF Mic!Session
    <3>2. /\ opened' \in {opened, Mic!Plus(opened, s)}
          /\ opener' \in {opener, s}
      BY <1>3, Zenon DEF Mic!OnStartRecording, Mic!OnStopRecording
    <3>3. QED
      BY <1>1, <3>1, <3>2, Counted
  <2>3. timers' \in Nat /\ TimerRuns' /\ pollTimer' \in BOOLEAN
    <3>1. CASE Mic!OnStopRecording(s)
      <4>1. /\ pollTimer' = FALSE
            /\ \/ pollTimer /\ timers' = timers - 1
               \/ timers' = timers
        BY <3>1, Zenon DEF Mic!OnStopRecording
      <4>2. timers' \in Nat
        BY <1>1, <4>1 DEF MicTypes, TimerRuns
      <4>3. QED
        BY <4>1, <4>2, Zenon DEF TimerRuns
    <3>2. CASE Mic!OnStartRecording(s)
      <4>1. \/ pollTimer' = TRUE /\ timers' = timers + 1
            \/ UNCHANGED <<pollTimer, timers>>
        BY <3>2, Zenon DEF Mic!OnStartRecording
      <4>2. timers + 1 \in Nat /\ timers + 1 > 0
        BY <1>1
      <4>3. QED
        <5>1. CASE pollTimer' = TRUE /\ timers' = timers + 1
          BY <4>2, <5>1, Zenon DEF TimerRuns
        <5>2. CASE UNCHANGED <<pollTimer, timers>>
          BY <5>2, Zenon DEF MicTypes, TimerRuns, Mic!TypeOK
        <5>3. QED
          BY <4>1, <5>1, <5>2
    <3>3. QED
      BY <1>3, <3>1, <3>2
  <2>4. device' \in BOOLEAN /\ readPromise' \in 0 .. Sessions /\ DeviceOpened'
    <3>1. 0 \in 0 .. Sessions /\ s # 0
      BY InputsAssumption DEF Mic!Session
    <3>2. QED
      BY <1>1, <1>3, <3>1, Zenon
      DEF Mic!OnStartRecording, Mic!OnStopRecording, DeviceOpened
  <2>5. /\ filter' = filter /\ resampler' \in {{}, resampler}
        /\ UNCHANGED <<data, broken>>
    BY <1>3, Zenon DEF Mic!OnStartRecording, Mic!OnStopRecording
  <2>6. resampler' \subseteq Mic!Session
    BY <2>5, Zenon DEF MicTypes, Mic!TypeOK
  <2>7. QED
    BY <1>2, <2>1, <2>2, <2>3, <2>4, <2>5, <2>6, Zenon
    DEF MicTypes, Mic!TypeOK
<1>4. CASE Mic!Deliver \/ Mic!KeepInFilter \/ Mic!ReadFails
  <2>1. UNCHANGED <<micSignals, device, opener, pollTimer, timers, opened>>
    BY <1>4, Zenon
    DEF Mic!Deliver, Mic!KeepInFilter, Mic!ReadFails, Mic!inputVars,
        Mic!chainVars
  <2>2. readPromise # 0 /\ device
    BY <1>4, Zenon
    DEF Mic!Deliver, Mic!KeepInFilter, Mic!ReadFails, Mic!Reading
  <2>3. readPromise \in Mic!Session
    BY <1>1, <2>2, InputsAssumption DEF Mic!Session
  <2>4. readPromise' \in 0 .. Sessions /\ data' \in [Mic!Session -> Nat]
        /\ broken' \subseteq Mic!Session
    <3>1. 0 \in 0 .. Sessions
      BY InputsAssumption
    <3>2. readPromise' \in {0, readPromise}
          /\ data' \in {data, Mic!Plus(data, readPromise)}
          /\ broken' \in {broken, broken \cup {readPromise}}
      BY <1>4, Zenon
      DEF Mic!Deliver, Mic!KeepInFilter, Mic!ReadFails, Mic!chainVars
    <3>3. broken \subseteq Mic!Session
      BY Zenon DEF MicTypes, Mic!TypeOK
    <3>4. QED
      BY <1>1, <2>3, <3>1, <3>2, <3>3, Counted
  <2>5. filter' \subseteq Mic!Session /\ resampler' \subseteq Mic!Session
    <3>1. opener \in Mic!Session
      <4>1. opener # 0
        BY <2>2, Zenon DEF MicTypes, DeviceOpened
      <4>2. QED
        BY <1>1, <4>1, InputsAssumption DEF Mic!Session
    <3>2. /\ filter' \in {{}, filter, filter \cup {opener}}
          /\ resampler' \in {{}, resampler, resampler \cup {opener}}
      BY <1>4, Zenon
      DEF Mic!Deliver, Mic!KeepInFilter, Mic!ReadFails, Mic!inputVars
    <3>3. filter \subseteq Mic!Session /\ resampler \subseteq Mic!Session
      BY Zenon DEF MicTypes, Mic!TypeOK
    <3>4. QED
      BY <3>1, <3>2, <3>3
  <2>6. QED
    BY <1>2, <2>1, <2>4, <2>5, Zenon
    DEF MicTypes, Mic!TypeOK, TimerRuns, DeviceOpened
<1>5. QED
  BY <1>3, <1>4, Zenon DEF Recorder

(* Every step keeps the types. *)
LEMMA MicStepTypes ==
  ASSUME MicTypes, [Mic!Next]_micVars
  PROVE  MicTypes'
<1>1. CASE UNCHANGED micVars
  BY <1>1, Zenon DEF micVars, MicTypes, Mic!TypeOK, TimerRuns, DeviceOpened
<1>2. QED
  BY <1>1, MicStepCases, MicServiceTypes, MicStrandTypes, RecorderTypes, Zenon

(* Who began remains begun, and nobody else began who is not. *)
LEMMA BeganStays ==
  ASSUME MicTypes, [Mic!Next]_micVars
  PROVE  \A s \in Mic!Session : micPhase[s] # "idle" => micPhase'[s] # "idle"
<1>1. \/ UNCHANGED micPhase
      \/ \E s \in Mic!Session, p \in {"started", "stopping", "stopped"} :
           micPhase' = [micPhase EXCEPT ![s] = p]
  BY MicStepCases, Zenon
  DEF MicService, Mic!ServiceStart, Mic!SessionStop, Mic!ServiceStop,
      Mic!OnMediaSourceOpenRequest, Mic!ChannelFails, Recorder,
      Mic!OnStartRecording, Mic!OnStopRecording, Mic!Deliver,
      Mic!KeepInFilter, Mic!ReadFails, Mic!Take, Mic!Strand,
      Mic!OnMediaSourceOpenSuccess, Mic!OnMediaSourceDataReady, Mic!Sent,
      Mic!SendFails, Mic!serviceVars, micVars
<1>2. micPhase \in [Mic!Session -> {"idle", "started", "stopping", "stopped"}]
  BY Zenon DEF MicTypes, Mic!TypeOK
<1>3. QED
  BY <1>1, <1>2

(* A service's channel speaks for itself. *)
LEMMA MicServiceBegan ==
  ASSUME MicTypes, OnlyBegan, NEW s \in Mic!Session, MicService(s),
         Began \subseteq Began'
  PROVE  OnlyBegan'
<1>1. UNCHANGED <<device, opener, readPromise, opened, data, sending>>
  BY Zenon
  DEF MicService, Mic!ServiceStart, Mic!SessionStop, Mic!ServiceStop,
      Mic!OnMediaSourceOpenRequest, Mic!ChannelFails, Mic!inputVars,
      Mic!chainVars
<1>2. s \in Began'
  <2>1. CASE s \in micReceiving
    BY <2>1, Zenon DEF OnlyBegan
  <2>2. CASE Mic!ServiceStart(s) \/ Mic!SessionStop(s) \/ Mic!ServiceStop(s)
    <3>1. \E p \in {"started", "stopping", "stopped"} :
            micPhase' = [micPhase EXCEPT ![s] = p]
      BY <2>2, Zenon DEF Mic!ServiceStart, Mic!SessionStop, Mic!ServiceStop
    <3>2. micPhase \in [Mic!Session ->
                          {"idle", "started", "stopping", "stopped"}]
      BY Zenon DEF MicTypes, Mic!TypeOK
    <3>3. QED
      BY <3>1, <3>2 DEF Began
  <2>3. QED
    BY <2>1, <2>2, Zenon
    DEF MicService, Mic!OnMediaSourceOpenRequest, Mic!ChannelFails
<1>3. \A t \in micReceiving' : t \in Began'
  <2>1. micReceiving' \subseteq micReceiving \cup {s}
    BY Zenon
    DEF MicService, Mic!ServiceStart, Mic!SessionStop, Mic!ServiceStop,
        Mic!OnMediaSourceOpenRequest, Mic!ChannelFails
  <2>2. QED
    BY <1>2, <2>1, Zenon DEF OnlyBegan
<1>4. \A i \in 1 .. Len(micSignals') : micSignals'[i].session \in Began'
  <2>1. \/ UNCHANGED micSignals
        \/ \E op \in {"start", "stop"} : Mic!Emit(op, s)
    BY Zenon
    DEF MicService, Mic!ServiceStart, Mic!SessionStop, Mic!ServiceStop,
        Mic!OnMediaSourceOpenRequest, Mic!ChannelFails
  <2>2. CASE UNCHANGED micSignals
    BY <2>2, Zenon DEF OnlyBegan
  <2>3. ASSUME NEW op \in {"start", "stop"}, Mic!Emit(op, s)
        PROVE  \A i \in 1 .. Len(micSignals') :
                 micSignals'[i].session \in Began'
    <3>1. /\ Len(micSignals') = Len(micSignals) + 1
          /\ \A i \in 1 .. Len(micSignals) + 1 :
               \/ i \in 1 .. Len(micSignals) /\ micSignals'[i] = micSignals[i]
               \/ micSignals'[i].session = s
      BY <2>3, SignalAdded, Zenon DEF Mic!Emit
    <3>2. \A i \in 1 .. Len(micSignals) : micSignals[i].session \in Began'
      BY Zenon DEF OnlyBegan
    <3>3. QED
      BY <1>2, <3>1, <3>2, Zenon
  <2>4. QED
    BY <2>1, <2>2, <2>3
<1>5. \A t \in Mic!Session : Chain(t)' > 0 => t \in Began'
  <2>1. \A t \in Mic!Session : Chain(t)' = Chain(t)
    BY <1>1, Zenon DEF Chain
  <2>2. QED
    BY <2>1, Zenon DEF OnlyBegan
<1>6. QED
  BY <1>1, <1>3, <1>4, <1>5, Zenon DEF OnlyBegan

(* What is counted of a chain. *)
LEMMA ChainCounts ==
  ASSUME MicTypes, NEW s \in Mic!Session
  PROVE  /\ opened[s] \in Nat /\ data[s] \in Nat /\ sending[s] \in Nat
         /\ opened[s] > 0 \/ data[s] > 0 \/ sending[s] > 0 <=> Chain(s) > 0
<1>1. /\ opened \in [Mic!Session -> Nat] /\ data \in [Mic!Session -> Nat]
      /\ sending \in [Mic!Session -> Nat]
  BY Zenon DEF MicTypes, Mic!TypeOK
<1>2. QED
  BY <1>1 DEF Chain

(* A chain's step is one of a session that has one.  The others' remain as *)
(* they were.                                                              *)
LEMMA StrandChains ==
  ASSUME MicTypes, NEW s \in Mic!Session, Mic!Strand(s)
  PROVE  /\ Chain(s) > 0
         /\ \A t \in Mic!Session : t # s => Chain(t)' = Chain(t)
<1>1. /\ opened \in [Mic!Session -> Nat] /\ data \in [Mic!Session -> Nat]
      /\ sending \in [Mic!Session -> Nat]
  BY Zenon DEF MicTypes, Mic!TypeOK
<1>2. opened[s] > 0 \/ data[s] > 0 \/ sending[s] > 0
  BY Zenon
  DEF Mic!Strand, Mic!OnMediaSourceOpenSuccess, Mic!OnMediaSourceDataReady,
      Mic!Sent, Mic!SendFails, Mic!Less
<1>3. /\ opened' \in {opened, [opened EXCEPT ![s] = @ - 1]}
      /\ data' \in {data, [data EXCEPT ![s] = @ - 1]}
      /\ sending' \in {sending, [sending EXCEPT ![s] = @ - 1],
                       Mic!Plus(sending, s)}
  BY Zenon
  DEF Mic!Strand, Mic!OnMediaSourceOpenSuccess, Mic!OnMediaSourceDataReady,
      Mic!Sent, Mic!SendFails, Mic!Less
<1>4. \A t \in Mic!Session : t # s =>
        /\ opened'[t] = opened[t] /\ data'[t] = data[t]
        /\ sending'[t] = sending[t]
  BY <1>1, <1>3, Counted
<1>5. QED
  BY <1>2, <1>4, ChainCounts, Zenon DEF Chain

(* A chain goes on for the same session. *)
LEMMA StrandBegan ==
  ASSUME MicTypes, OnlyBegan, NEW s \in Mic!Session, Mic!Strand(s),
         Began \subseteq Began'
  PROVE  OnlyBegan'
<1>1. UNCHANGED <<micReceiving, micSignals, device, opener>>
  BY Zenon
  DEF Mic!Strand, Mic!OnMediaSourceOpenSuccess, Mic!OnMediaSourceDataReady,
      Mic!Sent, Mic!SendFails, Mic!serviceVars, Mic!inputVars
<1>2. s \in Began'
  BY StrandChains, Zenon DEF OnlyBegan
<1>3. readPromise' \in {readPromise, s}
  BY Zenon
  DEF Mic!Strand, Mic!OnMediaSourceOpenSuccess, Mic!OnMediaSourceDataReady,
      Mic!Sent, Mic!SendFails, Mic!ReadMediaSource
<1>4. \A t \in Mic!Session : Chain(t)' > 0 => t \in Began'
  <2>1. SUFFICES ASSUME NEW t \in Mic!Session, Chain(t)' > 0 PROVE t \in Began'
    OBVIOUS
  <2>2. CASE t = s
    BY <1>2, <2>2, Zenon
  <2>3. CASE t # s
    <3>1. Chain(t)' = Chain(t)
      BY <2>3, StrandChains, Zenon
    <3>2. QED
      BY <2>1, <3>1, Zenon DEF OnlyBegan
  <2>4. QED
    BY <2>2, <2>3
<1>5. QED
  BY <1>1, <1>2, <1>3, <1>4, Zenon DEF OnlyBegan

(* What the GUI thread takes from the queue begins a chain for a service   *)
(* that has been started, and what it reads goes on with one.              *)
LEMMA RecorderBegan ==
  ASSUME MicTypes, OnlyBegan, Recorder, Began \subseteq Began'
  PROVE  OnlyBegan'
<1>1. UNCHANGED <<micReceiving, sending>>
  BY Zenon
  DEF Recorder, Mic!OnStartRecording, Mic!OnStopRecording, Mic!Deliver,
      Mic!KeepInFilter, Mic!ReadFails, Mic!Take, Mic!serviceVars,
      Mic!chainVars
<1>2. readPromise' # 0 => readPromise' \in Began'
  <2>1. readPromise' \in {0, readPromise}
    BY Zenon
    DEF Recorder, Mic!OnStartRecording, Mic!OnStopRecording, Mic!Deliver,
        Mic!KeepInFilter, Mic!ReadFails, Mic!chainVars
  <2>2. QED
    BY <2>1, Zenon DEF OnlyBegan
<1>3. /\ opened \in [Mic!Session -> Nat] /\ data \in [Mic!Session -> Nat]
  BY Zenon DEF MicTypes, Mic!TypeOK
<1>4. ASSUME NEW s \in Mic!Session,
             Mic!OnStartRecording(s) \/ Mic!OnStopRecording(s)
      PROVE  OnlyBegan'
  <2>1. /\ micSignals # <<>> /\ micSignals' = Tail(micSignals)
        /\ Head(micSignals).session = s
    <3>1. \E op \in {"start", "stop"} :
            /\ micSignals # <<>> /\ micSignals' = Tail(micSignals)
            /\ Head(micSignals) = [op |-> op, session |-> s]
      BY <1>4, Zenon
      DEF Mic!OnStartRecording, Mic!OnStopRecording, Mic!Take
    <3>2. QED
      BY <3>1
  <2>2. s \in Began'
    BY <2>1, SignalTaken, Zenon DEF OnlyBegan
  <2>3. \A i \in 1 .. Len(micSignals') : micSignals'[i].session \in Began'
    BY <2>1, SignalTaken, Zenon DEF OnlyBegan
  <2>4. /\ data' = data /\ opened' \in {opened, Mic!Plus(opened, s)}
        /\ device' => opener' = s
    BY <1>4, Zenon DEF Mic!OnStartRecording, Mic!OnStopRecording
  <2>5. \A t \in Mic!Session : Chain(t)' > 0 => t \in Began'
    <3>1. SUFFICES ASSUME NEW t \in Mic!Session, Chain(t)' > 0, t # s
                   PROVE  t \in Began'
      BY <2>2
    <3>2. opened'[t] = opened[t]
      BY <1>3, <2>4, <3>1, Counted
    <3>3. Chain(t)' = Chain(t)
      BY <1>1, <2>4, <3>2, Zenon DEF Chain
    <3>4. QED
      BY <3>1, <3>3, Zenon DEF OnlyBegan
  <2>6. QED
    BY <1>1, <1>2, <2>2, <2>3, <2>4, <2>5, Zenon DEF OnlyBegan
<1>5. CASE Mic!Deliver \/ Mic!KeepInFilter \/ Mic!ReadFails
  <2>1. UNCHANGED <<micSignals, device, opener, opened>>
    BY <1>5, Zenon
    DEF Mic!Deliver, Mic!KeepInFilter, Mic!ReadFails, Mic!inputVars,
        Mic!chainVars
  <2>2. \/ data' = data
        \/ data' = Mic!Plus(data, readPromise) /\ readPromise # 0
    BY <1>5, Zenon
    DEF Mic!Deliver, Mic!KeepInFilter, Mic!ReadFails, Mic!Reading,
        Mic!chainVars
  <2>3. \A t \in Mic!Session : Chain(t)' > 0 => t \in Began'
    <3>1. CASE data' = data
      <4>1. \A t \in Mic!Session : Chain(t)' = Chain(t)
        BY <1>1, <2>1, <3>1, Zenon DEF Chain
      <4>2. QED
        BY <4>1, Zenon DEF OnlyBegan
    <3>2. CASE data' = Mic!Plus(data, readPromise) /\ readPromise # 0
      <4>1. readPromise \in Mic!Session /\ readPromise \in Began'
        BY <3>2, Zenon DEF OnlyBegan, Began
      <4>2. SUFFICES ASSUME NEW t \in Mic!Session, Chain(t)' > 0,
                            t # readPromise
                     PROVE  t \in Began'
        BY <4>1
      <4>3. data'[t] = data[t]
        BY <1>3, <3>2, <4>1, <4>2, Counted
      <4>4. Chain(t)' = Chain(t)
        BY <1>1, <2>1, <4>3, Zenon DEF Chain
      <4>5. QED
        BY <4>2, <4>4, Zenon DEF OnlyBegan
    <3>3. QED
      BY <2>2, <3>1, <3>2
  <2>4. \A i \in 1 .. Len(micSignals') : micSignals'[i].session \in Began'
    BY <2>1, Zenon DEF OnlyBegan
  <2>5. QED
    BY <1>1, <1>2, <2>1, <2>3, <2>4, Zenon DEF OnlyBegan
<1>6. QED
  BY <1>4, <1>5, Zenon DEF Recorder

(* When nobody but s has been started, whoever was is s. *)
LEMMA AloneIsOnly ==
  ASSUME NEW s, NEW t \in Began, Mic!Alone(s)
  PROVE  t = s
BY Zenon DEF Began, Mic!Alone

(* A chain is there after a step that leaves a part of it. *)
LEMMA ChainGoesOn ==
  ASSUME MicTypes', NEW s \in Mic!Session,
         opened'[s] > 0 \/ data'[s] > 0 \/ sending'[s] > 0
  PROVE  opened'[s] + data'[s] + sending'[s] > 0
<1>1. /\ opened' \in [Mic!Session -> Nat] /\ data' \in [Mic!Session -> Nat]
      /\ sending' \in [Mic!Session -> Nat]
  BY Zenon DEF MicTypes, Mic!TypeOK
<1>2. QED
  BY <1>1

(* A recording that flows does so after the next step. *)
LEMMA FlowingStep ==
  ASSUME MicInv, [Mic!Next]_micVars
  PROVE  Mic!FlowingWhileOpen'
<1>1. SUFFICES ASSUME device', opener' \notin broken', Mic!Alone(opener)'
               PROVE  readPromise' = opener' \/ Chain(opener)' > 0
  BY Zenon DEF Mic!FlowingWhileOpen, Chain
<1>2. MicTypes /\ MicTypes' /\ OnlyBegan
  BY MicStepTypes, Zenon DEF MicInv
<1>3. /\ opened \in [Mic!Session -> Nat] /\ data \in [Mic!Session -> Nat]
      /\ sending \in [Mic!Session -> Nat]
  BY <1>2, Zenon DEF MicTypes, Mic!TypeOK
<1>4. ASSUME NEW s \in Mic!Session,
             Mic!OnStartRecording(s) \/ Mic!OnStopRecording(s)
      PROVE  Chain(opener)' > 0
  <2>1. opener' = s /\ opened' = Mic!Plus(opened, s)
    BY <1>1, <1>4, Zenon DEF Mic!OnStartRecording, Mic!OnStopRecording
  <2>2. opened'[s] > 0
    BY <1>3, <2>1, Counted
  <2>3. opened'[s] + data'[s] + sending'[s] > 0
    BY <1>2, <2>2, ChainGoesOn
  <2>4. QED
    BY <2>1, <2>3, Zenon DEF Chain
<1>5. CASE \A s \in Mic!Session :
             ~(Mic!OnStartRecording(s) \/ Mic!OnStopRecording(s))
  <2>1. UNCHANGED <<device, opener>> /\ broken \subseteq broken'
    BY <1>5, MicStepCases, Zenon
    DEF MicService, Mic!ServiceStart, Mic!SessionStop, Mic!ServiceStop,
        Mic!OnMediaSourceOpenRequest, Mic!ChannelFails, Recorder,
        Mic!Deliver, Mic!KeepInFilter, Mic!ReadFails, Mic!Strand,
        Mic!OnMediaSourceOpenSuccess, Mic!OnMediaSourceDataReady, Mic!Sent,
        Mic!SendFails, Mic!inputVars, Mic!chainVars, micVars
  <2>2. opener \in Mic!Session /\ opener \in Began
    BY <1>1, <1>2, <2>1, Zenon DEF OnlyBegan, Began
  <2>3. Mic!Alone(opener)
    BY <1>1, <1>2, <2>1, BeganStays, Zenon DEF Mic!Alone
  <2>4. readPromise = opener \/ Chain(opener) > 0
    BY <1>1, <2>1, <2>3, Zenon DEF MicInv, Mic!FlowingWhileOpen, Chain
  <2>5. readPromise # 0 => readPromise = opener
    BY <1>2, <2>3, AloneIsOnly, Zenon DEF OnlyBegan
  <2>6. SUFFICES readPromise' = opener \/ Chain(opener)' > 0
    BY <2>1, Zenon
  <2>7. ASSUME UNCHANGED <<readPromise, opened, data, sending>>
        PROVE  readPromise' = opener \/ Chain(opener)' > 0
    BY <2>1, <2>4, <2>7, Zenon DEF Chain
  <2>8. ASSUME NEW s \in Mic!Session, MicService(s)
        PROVE  readPromise' = opener \/ Chain(opener)' > 0
    BY <2>7, <2>8, Zenon
    DEF MicService, Mic!ServiceStart, Mic!SessionStop, Mic!ServiceStop,
        Mic!OnMediaSourceOpenRequest, Mic!ChannelFails, Mic!chainVars
  <2>9. CASE Mic!Deliver
    <3>1. data' = Mic!Plus(data, opener)
      BY <2>5, <2>9, Zenon DEF Mic!Deliver, Mic!Reading
    <3>2. data'[opener] > 0
      BY <1>3, <2>2, <3>1, Counted
    <3>3. opened'[opener] + data'[opener] + sending'[opener] > 0
      BY <1>2, <2>2, <3>2, ChainGoesOn
    <3>4. QED
      BY <2>1, <3>3, Zenon DEF Chain
  <2>10. CASE Mic!KeepInFilter \/ UNCHANGED micVars
    BY <2>7, <2>10, Zenon DEF Mic!KeepInFilter, Mic!chainVars, micVars
  <2>11. ~Mic!ReadFails
    BY <1>1, <2>1, <2>5, Zenon DEF Mic!ReadFails, Mic!Reading
  <2>12. ASSUME NEW s \in Mic!Session, Mic!Strand(s)
         PROVE  readPromise' = opener \/ Chain(opener)' > 0
    <3>1. s = opener
      BY <1>2, <2>3, <2>12, StrandChains, AloneIsOnly, Zenon DEF OnlyBegan
    <3>2. CASE Mic!ReadMediaSource(s)
      BY <1>1, <2>1, <2>5, <3>1, <3>2 DEF Mic!ReadMediaSource
    <3>3. CASE Mic!OnMediaSourceDataReady(s)
      <4>1. sending'[s] > 0
        BY <1>3, <3>3, Counted DEF Mic!OnMediaSourceDataReady
      <4>2. opened'[s] + data'[s] + sending'[s] > 0
        BY <1>2, <4>1, ChainGoesOn
      <4>3. QED
        BY <2>1, <3>1, <4>2, Zenon DEF Chain
    <3>4. ~Mic!SendFails(s)
      BY <1>1, <2>1, <3>1, Zenon DEF Mic!SendFails
    <3>5. QED
      BY <2>12, <3>2, <3>3, <3>4, Zenon
      DEF Mic!Strand, Mic!OnMediaSourceOpenSuccess, Mic!Sent
  <2>13. QED
    BY <1>5, <2>8, <2>9, <2>10, <2>11, <2>12, MicStepCases, Zenon
    DEF Recorder
<1>6. QED
  BY <1>4, <1>5, Zenon

(* The microphone's invariant holds at first. *)
LEMMA MicInvInit ==
  ASSUME Mic!Init
  PROVE  MicInv
<1>1. OnlyBegan
  <2>1. \A s \in Mic!Session : Chain(s) = 0 + 0 + 0
    BY Zenon DEF Mic!Init, Chain
  <2>2. \A s \in Mic!Session : ~(Chain(s) > 0)
    BY <2>1
  <2>3. 1 .. Len(micSignals) = {}
    BY EmptySeq DEF Mic!Init
  <2>4. micReceiving = {} /\ readPromise = 0 /\ device = FALSE
    BY Zenon DEF Mic!Init
  <2>5. QED
    BY <2>2, <2>3, <2>4, Zenon DEF OnlyBegan
<1>2. Mic!FlowingWhileOpen
  BY Zenon DEF Mic!Init, Mic!FlowingWhileOpen
<1>3. QED
  BY <1>1, <1>2, MicInitTypes, Zenon DEF MicInv

(* Every step keeps it. *)
LEMMA MicInvStep ==
  ASSUME MicInv, [Mic!Next]_micVars
  PROVE  MicInv'
<1>1. MicTypes'
  BY MicStepTypes, Zenon DEF MicInv
<1>2. Began \subseteq Began'
  BY BeganStays, Zenon DEF MicInv, Began
<1>3. OnlyBegan'
  <2>1. CASE UNCHANGED micVars
    <3>1. \A t \in Mic!Session : Chain(t)' = Chain(t)
      BY <2>1, Zenon DEF micVars, Chain
    <3>2. QED
      BY <1>2, <2>1, <3>1, Zenon DEF micVars, MicInv, OnlyBegan
  <2>2. QED
    BY <1>2, <2>1, MicStepCases, MicServiceBegan, StrandBegan, RecorderBegan,
       Zenon
    DEF MicInv
<1>4. QED
  BY <1>1, <1>3, FlowingStep, Zenon DEF MicInv

-----------------------------------------------------------------------------
(* The three together. *)

(* The inductive invariant. *)
InputsInv ==
  /\ exercised \in {"sensors", "input", "mic"}
  /\ SensorInv /\ OrderInv /\ HandlerInv /\ MicInv

(* A step of the three is one of each, or leaves it as it is. *)
LEMMA InputsParts ==
  ASSUME [InputsNext]_InputsVars
  PROVE  /\ [Next]_vars /\ [Input!Next]_inputVars /\ [Mic!Next]_micVars
         /\ UNCHANGED exercised
BY Zenon DEF InputsNext, InputsVars, sensorVars

(* The invariant holds at first, *)
LEMMA InputsInvInit == InputsInit => InputsInv
BY InitSensor, KeyInvInit, MicInvInit, InputsAssumption, Zenon
DEF InputsInit, InputsInv, Constants

(* after every step, *)
LEMMA InputsInvStep ==
  ASSUME InputsInv, [InputsNext]_InputsVars
  PROVE  InputsInv'
<1>1. Constants
  BY InputsAssumption DEF Constants
<1>2. SensorInv'
  BY InputsParts, SensorStep, Zenon DEF InputsInv
<1>3. OrderInv'
  BY <1>1, InputsParts, OrderStep, Zenon DEF InputsInv
<1>4. HandlerInv'
  BY <1>1, InputsParts, HandlerStep, Zenon DEF InputsInv
<1>5. MicInv'
  BY InputsParts, MicInvStep, Zenon DEF InputsInv
<1>6. QED
  BY <1>2, <1>3, <1>4, <1>5, InputsParts, Zenon DEF InputsInv

(* and so always. *)
LEMMA InputsInvHolds == InputsSpec => []InputsInv
<1>1. InputsInv /\ [InputsNext]_InputsVars => InputsInv'
  BY InputsInvStep
<1>2. QED
  BY <1>1, InputsInvInit, PTL DEF InputsSpec

-----------------------------------------------------------------------------
(* Theorems. *)

(* Every variable of the sensors, the keys and touches and the microphone  *)
(* keeps its type: no more answers than requests, reports of what was      *)
(* done, and no timer stopped that does not run.                           *)
THEOREM TypeCorrect == InputsSpec => []InputsTypeOK
<1>1. InputsInv => InputsTypeOK
  BY SensorTypes, Zenon
  DEF InputsInv, InputsTypeOK, OrderInv, MicInv, MicTypes
<1>2. QED
  BY <1>1, InputsInvHolds, PTL

(* A change of the night mode is neither missed nor made up, however often *)
(* the phone asks and the mode changes.                                    *)
THEOREM ComparesWithToldHolds == InputsSpec => []ComparesWithTold
<1>1. InputsInv => ComparesWithTold
  BY DEF InputsInv, SensorInv
<1>2. QED
  BY <1>1, InputsInvHolds, PTL

(* gpsd is asked exactly while its connection is open. *)
THEOREM GpsIsOpenHolds == InputsSpec => []GpsIsOpen
<1>1. InputsInv => GpsIsOpen
  BY DEF InputsInv, SensorInv
<1>2. QED
  BY <1>1, InputsInvHolds, PTL

(* What the user did is reported in the order it was done, whatever        *)
(* sessions come and go meanwhile.                                         *)
THEOREM ReportsInOrderHolds == InputsSpec => []ReportsInOrder
<1>1. InputsInv => ReportsInOrder
  BY DEF InputsInv, OrderInv, ReportsInOrder
<1>2. QED
  BY <1>1, InputsInvHolds, PTL

(* The device does not keep a handler that no longer exists, unless it     *)
(* bound its keys after its stop.                                          *)
THEOREM HandlerExistsHolds == InputsSpec => []HandlerExists
<1>1. InputsInv => HandlerExists
  BY DEF InputsInv, HandlerInv, StoppedIsLate, HandlerExists,
         Input!HandlerExists, Input!Over
<1>2. QED
  BY <1>1, InputsInvHolds, PTL

(* A microphone that is open goes on recording for the session that opened *)
(* it, however often it is opened and closed, until a read or a send fails *)
(* or another session begins.                                              *)
THEOREM FlowingWhileOpenHolds == InputsSpec => []FlowingWhileOpen
<1>1. InputsInv => FlowingWhileOpen
  BY DEF InputsInv, MicInv, FlowingWhileOpen
<1>2. QED
  BY <1>1, InputsInvHolds, PTL
=============================================================================
