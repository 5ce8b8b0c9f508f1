-------------------------- MODULE ProjectionProofs --------------------------
(***************************************************************************)
(* Machine-checked proofs about Projection, for any set of connections,    *)
(* any number of threads, messages and waiting tasks.                      *)
(***************************************************************************)
EXTENDS Projection, TLAPS

Task == ConnTask \cup PlainTask

-----------------------------------------------------------------------------
(* The manager's queue: what a task taken from it or added to it changes.  *)

(* Handling a task leaves the rest of the queue as it was. *)
LEMMA TailTask ==
  ASSUME tasks \in Seq(Task), NEW other, Running(other)
  PROVE  /\ Len(tasks) \in Nat \ {0}
         /\ Head(tasks) = tasks[1]
         /\ tasks[1].op = other
         /\ tasks' \in Seq(Task)
         /\ DOMAIN tasks = 1 .. Len(tasks)
         /\ DOMAIN tasks' = 1 .. (Len(tasks) - 1)
         /\ \A i \in 1 .. (Len(tasks) - 1) : tasks'[i] = tasks[i + 1]
BY DEF Running

(* A queued task survives the handling of a task of another kind. *)
LEMMA QueuedKept ==
  ASSUME tasks \in Seq(Task), NEW op, NEW other, Queued(op),
         Running(other), op # other
  PROVE  Queued(op)'
<1>1. PICK i \in DOMAIN tasks : tasks[i].op = op
  BY DEF Queued
<1>2. i # 1 /\ i - 1 \in DOMAIN tasks' /\ tasks'[i - 1] = tasks[i]
  BY <1>1, TailTask
<1>3. QED BY <1>1, <1>2 DEF Queued

(* A task kept from the head of the queue was queued before. *)
LEMMA QueuedBefore ==
  ASSUME tasks \in Seq(Task), NEW op, NEW other, Queued(op)', Running(other)
  PROVE  Queued(op)
<1>1. PICK i \in DOMAIN tasks' : tasks'[i].op = op
  BY DEF Queued
<1>2. i + 1 \in DOMAIN tasks /\ tasks[i + 1] = tasks'[i]
  BY <1>1, TailTask
<1>3. QED BY <1>1, <1>2 DEF Queued

(* A quit of session c survives the handling of anything but a quit. *)
LEMMA QuitKept ==
  ASSUME tasks \in Seq(Task), NEW c, NEW other, QuitQueued(c),
         Running(other), other # "quit"
  PROVE  QuitQueued(c)'
<1>1. PICK i \in DOMAIN tasks : tasks[i].op = "quit" /\ tasks[i].conn = c
  BY DEF QuitQueued
<1>2. i # 1 /\ i - 1 \in DOMAIN tasks' /\ tasks'[i - 1] = tasks[i]
  BY <1>1, TailTask
<1>3. QED BY <1>1, <1>2 DEF QuitQueued

(* Dispatching adds one task and keeps the others. *)
LEMMA Dispatched ==
  ASSUME tasks \in Seq(Task), NEW op, NEW c, Dispatch(op, c)
  PROVE  /\ Queued(op)'
         /\ \A o : Queued(o) => Queued(o)'
         /\ \A o : o # op => (Queued(o)' => Queued(o))
         /\ \A d : QuitQueued(d) => QuitQueued(d)'
         /\ op = "quit" => QuitQueued(c)'
<1>1. /\ Len(tasks') = Len(tasks) + 1
      /\ DOMAIN tasks' = 1 .. (Len(tasks) + 1)
      /\ DOMAIN tasks = 1 .. Len(tasks)
      /\ \A i \in DOMAIN tasks : tasks'[i] = tasks[i]
      /\ tasks'[Len(tasks) + 1] = [op |-> op, conn |-> c]
  BY DEF Dispatch
<1>2. Queued(op)' /\ (op = "quit" => QuitQueued(c)')
  BY <1>1 DEF Queued, QuitQueued
<1>3. \A o : Queued(o) => Queued(o)'
  BY <1>1 DEF Queued
<1>4. \A o : o # op => (Queued(o)' => Queued(o))
  BY <1>1 DEF Queued
<1>5. \A d : QuitQueued(d) => QuitQueued(d)'
  BY <1>1 DEF QuitQueued
<1>6. QED BY <1>2, <1>3, <1>4, <1>5

-----------------------------------------------------------------------------
(* Type correctness. *)

LEMMA DispatchType ==
  ASSUME tasks \in Seq(Task), NEW op, NEW c,
         [op |-> op, conn |-> c] \in Task, Dispatch(op, c)
  PROVE  tasks' \in Seq(Task)
BY DEF Dispatch

LEMMA TriggerQuitType ==
  ASSUME tasks \in Seq(Task), NEW c \in Conn, TriggerQuit(c)
  PROVE  tasks' \in Seq(Task)
<1>1. [op |-> "quit", conn |-> c] \in Task
  BY DEF Task, PlainTask
<1>2. QED BY <1>1, DispatchType DEF TriggerQuit

(* A task "start" or "device" names a connection. *)
LEMMA HeadConn ==
  ASSUME tasks \in Seq(Task), NEW op \in {"start", "device"}, Running(op)
  PROVE  Head(tasks).conn \in Conn
<1>1. Head(tasks) \in Task /\ Head(tasks).op = op
  BY TailTask DEF Running
<1>2. QED BY <1>1 DEF Task, ConnTask, PlainTask

(* The manager's own handlers keep the types. *)
LEMMA ManagerType == TypeOK /\ ManagerStep => TypeOK'
<1> SUFFICES ASSUME TypeOK, ManagerStep PROVE TypeOK'
  OBVIOUS
<1> USE DEF TypeOK
<1>0. tasks \in Seq(Task)
  BY DEF Task
<1>a. tasks' \in Seq(Task)
  BY <1>0, TailTask DEF ManagerStep, WaitForUSBDevice, Start, Stop,
     OnAndroidAutoQuit, AoapDeviceHandler, StartServerSocket
<1>b. tasks' \in Seq(ConnTask \cup PlainTask)
  BY <1>a DEF Task
<1>1. CASE WaitForUSBDevice
  BY <1>1, <1>b DEF WaitForUSBDevice, WaitForDevice, sessionVars
<1>2. CASE Start
  <2>1. Head(tasks).conn \in Conn
    BY <1>0, <1>2, HeadConn DEF Start
  <2>2. phase' \in [Conn -> Phase]
    BY <1>2, <2>1 DEF Start, Connecting, CreateFails, Phase
  <2>3. stopping' \subseteq Conn /\ active' \in Conn \cup {NoConn}
    BY <1>2, <2>1 DEF Start, Connecting, CreateFails, Live
  <2>4. hub' \in {"idle", "armed", "failed"} /\ accepts' \in Nat
    BY <1>2 DEF Start, Connecting, CreateFails, WaitForDevice
  <2>5. /\ state' \in {"DISCONNECTED", "CONNECTING"}
        /\ method' \in {"INDETERMINATE", "USB", "WIFI"}
    BY <1>2 DEF Start, Connecting, CreateFails, WaitForDevice
  <2>6. QED
    BY <1>2, <1>b, <2>2, <2>3, <2>4, <2>5 DEF Start
<1>3. CASE Stop
  BY <1>3, <1>b DEF Stop, Live
<1>4. CASE OnAndroidAutoQuit
  BY <1>4, <1>b DEF OnAndroidAutoQuit, WaitForDevice, Live
<1>5. CASE AoapDeviceHandler
  <2>1. Head(tasks).conn \in Conn
    BY <1>0, <1>5, HeadConn DEF AoapDeviceHandler
  <2>2. phase' \in [Conn -> Phase]
    BY <1>5, <2>1 DEF AoapDeviceHandler, Connecting, CreateFails, Phase
  <2>3. active' \in Conn \cup {NoConn}
    BY <1>5, <2>1 DEF AoapDeviceHandler, Connecting, CreateFails
  <2>4. hub' \in {"idle", "armed", "failed"} /\ accepts' \in Nat
    BY <1>5 DEF AoapDeviceHandler, Connecting, CreateFails, WaitForDevice
  <2>5. /\ state' \in {"STARTUP", "DISCONNECTED", "CONNECTING", "CONNECTED"}
        /\ method' \in {"INDETERMINATE", "USB", "WIFI"}
    BY <1>5 DEF AoapDeviceHandler, Connecting, CreateFails, WaitForDevice
  <2>6. QED
    BY <1>5, <1>b, <2>2, <2>3, <2>4, <2>5 DEF AoapDeviceHandler
<1>6. CASE StartServerSocket
  BY <1>6, <1>b DEF StartServerSocket, monitorVars, sessionVars
<1>7. QED
  BY <1>1, <1>2, <1>3, <1>4, <1>5, <1>6 DEF ManagerStep

(* So do the completions and the calls that come from outside its strand. *)
LEMMA OutsideType == TypeOK /\ Outside => TypeOK'
<1> SUFFICES ASSUME TypeOK, Outside PROVE TypeOK'
  OBVIOUS
<1> USE DEF TypeOK
<1>0. tasks \in Seq(Task)
  BY DEF Task
<1>1. ASSUME NEW c \in Conn, HandleNewClient(c) PROVE TypeOK'
  <2>1. [op |-> "start", conn |-> c] \in Task
    BY DEF Task, ConnTask
  <2>2. tasks' \in Seq(ConnTask \cup PlainTask)
    BY <1>0, <1>1, <2>1, DispatchType DEF HandleNewClient, Task
  <2>3. QED BY <1>1, <2>2 DEF HandleNewClient, monitorVars, Phase
<1>2. CASE AcceptError
  BY <1>2 DEF AcceptError, monitorVars, sessionVars
<1>3. CASE RearmAcceptor
  <2>1. [op |-> "listen", conn |-> NoConn] \in Task
    BY DEF Task, PlainTask
  <2>2. tasks' \in Seq(ConnTask \cup PlainTask)
    BY <1>0, <1>3, <2>1, DispatchType DEF RearmAcceptor, Task
  <2>3. QED BY <1>3, <2>2 DEF RearmAcceptor, monitorVars, sessionVars
<1>4. ASSUME NEW c \in Conn, DeviceFound(c) PROVE TypeOK'
  <2>1. [op |-> "device", conn |-> c] \in Task
    BY DEF Task, ConnTask
  <2>2. tasks' \in Seq(ConnTask \cup PlainTask)
    BY <1>0, <1>4, <2>1, DispatchType DEF DeviceFound, Task
  <2>3. QED BY <1>4, <2>2 DEF DeviceFound, monitorVars, Phase
<1>5. CASE HubFails
  BY <1>5 DEF HubFails, monitorVars, sessionVars
<1>6. CASE RequestStop
  <2>1. [op |-> "stop", conn |-> NoConn] \in Task
    BY DEF Task, PlainTask
  <2>2. tasks' \in Seq(ConnTask \cup PlainTask)
    BY <1>0, <1>6, <2>1, DispatchType DEF RequestStop, Task
  <2>3. QED BY <1>6, <2>2 DEF RequestStop, monitorVars, sessionVars
<1>7. QED
  BY <1>1, <1>2, <1>3, <1>4, <1>5, <1>6 DEF Outside

(* And so do the handlers of a session. *)
LEMMA SessionType ==
  ASSUME TypeOK, NEW c \in Conn, SessionStep(c)
  PROVE  TypeOK'
<1> USE DEF TypeOK
<1>0. tasks \in Seq(Task)
  BY DEF Task
<1>a. TriggerQuit(c) => tasks' \in Seq(ConnTask \cup PlainTask)
  BY <1>0, TriggerQuitType DEF Task
<1>1. CASE SessionStart(c)
  BY <1>1 DEF SessionStart, managerVars, monitorVars, Phase
<1>2. CASE SessionStop(c)
  BY <1>2 DEF SessionStop, managerVars, monitorVars, Phase
<1>3. CASE MessageStep(c)
  <2>1. Receive(c)
    BY <1>3 DEF MessageStep, OnVersionResponse, OnVersionMismatch,
       OnHandshakeError, OnServiceDiscoveryRequest, OnRequest,
       OnNotification, OnByeByeRequest, OnByeByeResponse
  <2>2. tasks' \in Seq(ConnTask \cup PlainTask)
    BY <1>3, <1>a DEF MessageStep, OnVersionResponse, OnVersionMismatch,
       OnHandshakeError, OnServiceDiscoveryRequest, OnRequest,
       OnNotification, OnByeByeRequest, OnByeByeResponse
  <2>a. Reply(c) => sends' \in [Conn -> Nat]
    BY DEF Reply
  <2>3. sends' \in [Conn -> Nat] /\ armed' \subseteq Conn /\ byes' \subseteq Conn
    BY <1>3, <2>a DEF MessageStep, OnVersionResponse, OnVersionMismatch,
       OnHandshakeError, OnServiceDiscoveryRequest, OnRequest,
       OnNotification, OnByeByeRequest, OnByeByeResponse, Rearm
  <2>4. state' \in {"STARTUP", "DISCONNECTED", "CONNECTING", "CONNECTED"}
    BY <1>3 DEF MessageStep, OnVersionResponse, OnVersionMismatch,
       OnHandshakeError, OnServiceDiscoveryRequest, OnRequest,
       OnNotification, OnByeByeRequest, OnByeByeResponse
  <2>5. msgs' \in [Conn -> Nat]
    BY <2>1 DEF Receive
  <2>6. QED BY <2>1, <2>2, <2>3, <2>4, <2>5 DEF Receive
<1>4. CASE ReceiveFails(c)
  BY <1>4, <1>a DEF ReceiveFails, monitorVars
<1>5. CASE SendCompletes(c)
  <2>1. sends[c] - 1 \in Nat
    BY <1>5 DEF SendCompletes
  <2>2. sends' \in [Conn -> Nat]
    BY <1>5, <2>1 DEF SendCompletes
  <2>3. tasks' \in Seq(ConnTask \cup PlainTask)
    BY <1>5, <1>a DEF SendCompletes
  <2>4. QED BY <1>5, <2>2, <2>3 DEF SendCompletes, monitorVars
<1>6. CASE ByeCompletes(c)
  BY <1>6, <1>a DEF ByeCompletes, monitorVars
<1>7. QED
  BY <1>1, <1>2, <1>3, <1>4, <1>5, <1>6 DEF SessionStep

(* Every variable keeps its type, whatever the bounds are. *)
THEOREM TypeCorrect == Spec => []TypeOK
<1>1. Init => TypeOK
  <2>1. [op |-> "wait", conn |-> NoConn] \in PlainTask
    BY DEF PlainTask
  <2>2. Init => tasks \in Seq(ConnTask \cup PlainTask)
    BY <2>1 DEF Init
  <2>3. Init => /\ phase \in [Conn -> Phase]
                /\ sends \in [Conn -> Nat]
                /\ msgs \in [Conn -> Nat]
    BY DEF Init, Phase
  <2>4. Init => /\ active \in Conn \cup {NoConn}
                /\ hub \in {"idle", "armed", "failed"}
                /\ isStopped \in BOOLEAN
    BY DEF Init
  <2>a. Init => accepts \in Nat /\ rearming \in Nat
    BY DEF Init
  <2>5. Init => /\ state \in {"STARTUP", "DISCONNECTED", "CONNECTING", "CONNECTED"}
                /\ method \in {"INDETERMINATE", "USB", "WIFI"}
    BY DEF Init
  <2>6. Init => /\ stopping \subseteq Conn
                /\ armed \subseteq Conn
                /\ byes \subseteq Conn
    BY DEF Init
  <2>7. QED BY <2>2, <2>3, <2>4, <2>a, <2>5, <2>6 DEF TypeOK
<1>2. TypeOK /\ [Next]_vars => TypeOK'
  <2>1. TypeOK /\ UNCHANGED vars => TypeOK'
    BY DEF TypeOK, vars, managerVars, monitorVars, sessionVars
  <2>2. TypeOK /\ Next => TypeOK'
    BY ManagerType, OutsideType, SessionType DEF Next
  <2>3. QED BY <2>1, <2>2
<1>3. QED BY <1>1, <1>2, PTL DEF Spec

-----------------------------------------------------------------------------
(* A single session is projected. *)

(* The manager's handlers stop whatever session they take out of active.   *)
LEMMA ManagerStops ==
  ASSUME TypeOK, ManagerStep
  PROVE  /\ stopping \subseteq stopping'
         /\ active' # active => Live \subseteq stopping'
         /\ \A c \in Conn : phase'[c] # phase[c] =>
              phase'[c] = "dropped" \/ (phase'[c] = "created" /\ active' = c)
         /\ UNCHANGED <<armed, byes>>
<1> USE DEF TypeOK
<1>0. tasks \in Seq(Task)
  BY DEF Task
<1>1. CASE WaitForUSBDevice
  BY <1>1 DEF WaitForUSBDevice, sessionVars
<1>2. CASE Start
  <2>1. Head(tasks).conn \in Conn
    BY <1>0, <1>2, HeadConn DEF Start
  <2>2. QED BY <1>2, <2>1 DEF Start, Connecting, CreateFails
<1>3. CASE Stop
  BY <1>3 DEF Stop
<1>4. CASE OnAndroidAutoQuit
  BY <1>4 DEF OnAndroidAutoQuit
<1>5. CASE AoapDeviceHandler
  <2>1. Head(tasks).conn \in Conn
    BY <1>0, <1>5, HeadConn DEF AoapDeviceHandler
  <2>2. QED
    BY <1>5, <2>1 DEF AoapDeviceHandler, Connecting, CreateFails, Live
<1>6. CASE StartServerSocket
  BY <1>6 DEF StartServerSocket, sessionVars
<1>7. QED
  BY <1>1, <1>2, <1>3, <1>4, <1>5, <1>6 DEF ManagerStep

(* Nothing outside the manager's strand stops or replaces a session. *)
LEMMA OutsideStops ==
  ASSUME TypeOK, Outside
  PROVE  /\ UNCHANGED <<active, stopping, armed, byes>>
         /\ \A c \in Conn : phase'[c] # phase[c] => phase'[c] = "offered"
BY DEF TypeOK, Outside, HandleNewClient, AcceptError, RearmAcceptor,
   DeviceFound, HubFails, RequestStop, sessionVars

(* A session only ever moves itself on, and only asks the manager to quit. *)
LEMMA SessionFrame ==
  ASSUME TypeOK, NEW c \in Conn, SessionStep(c)
  PROVE  /\ UNCHANGED <<active, isStopped, hub, accepts, rearming, method,
                        stopping>>
         /\ UNCHANGED tasks \/ Dispatch("quit", c)
         /\ \A d \in Conn : phase'[d] # phase[d] =>
              /\ d = c
              /\ \/ phase[c] = "created" /\ phase'[c] = "running"
                 \/ phase'[c] = "stopped"
<1> USE DEF TypeOK
<1>1. CASE SessionStart(c)
  BY <1>1 DEF SessionStart, managerVars, monitorVars
<1>2. CASE SessionStop(c)
  BY <1>2 DEF SessionStop, managerVars, monitorVars
<1>3. CASE MessageStep(c)
  <2>1. Receive(c)
    BY <1>3 DEF MessageStep, OnVersionResponse, OnVersionMismatch,
       OnHandshakeError, OnServiceDiscoveryRequest, OnRequest,
       OnNotification, OnByeByeRequest, OnByeByeResponse
  <2>2. UNCHANGED tasks \/ Dispatch("quit", c)
    BY <1>3 DEF MessageStep, OnVersionResponse, OnVersionMismatch,
       OnHandshakeError, OnServiceDiscoveryRequest, OnRequest,
       OnNotification, OnByeByeRequest, OnByeByeResponse, TriggerQuit
  <2>3. QED BY <2>1, <2>2 DEF Receive
<1>4. CASE ReceiveFails(c)
  BY <1>4 DEF ReceiveFails, TriggerQuit, monitorVars
<1>5. CASE SendCompletes(c)
  BY <1>5 DEF SendCompletes, TriggerQuit, monitorVars
<1>6. CASE ByeCompletes(c)
  BY <1>6 DEF ByeCompletes, TriggerQuit, monitorVars
<1>7. QED
  BY <1>1, <1>2, <1>3, <1>4, <1>5, <1>6 DEF SessionStep

LEMMA SingleSessionStep == TypeOK /\ SingleSession /\ [Next]_vars => SingleSession'
<1> SUFFICES ASSUME TypeOK, SingleSession, [Next]_vars PROVE SingleSession'
  OBVIOUS
<1> USE DEF SingleSession
<1>1. CASE ManagerStep
  <2> SUFFICES ASSUME NEW c \in Conn, phase'[c] \in {"created", "running"},
                      c # active'
               PROVE  c \in stopping'
    OBVIOUS
  <2>1. phase'[c] = phase[c]
    BY <1>1, ManagerStops
  <2>2. CASE c = active
    BY <1>1, <2>2, ManagerStops, NoConnAssumption DEF Live
  <2>3. CASE c # active
    BY <1>1, <2>1, <2>3, ManagerStops
  <2>4. QED BY <2>2, <2>3
<1>2. CASE Outside
  BY <1>2, OutsideStops DEF TypeOK
<1>3. ASSUME NEW c \in Conn, SessionStep(c) PROVE SingleSession'
  BY <1>3, SessionFrame DEF TypeOK
<1>4. CASE UNCHANGED vars
  BY <1>4 DEF vars, managerVars, sessionVars
<1>5. QED BY <1>1, <1>2, <1>3, <1>4 DEF Next

(* At most one session is projected: any other was told to stop. *)
THEOREM SingleSessionHolds == Spec => []SingleSession
<1>1. Init => SingleSession
  BY DEF Init, SingleSession
<1>2. QED BY <1>1, SingleSessionStep, TypeCorrect, PTL DEF Spec

-----------------------------------------------------------------------------
(* A session that stopped listening is on its way out. *)

(* Nothing outside the manager's strand takes a task from its queue. *)
LEMMA OutsideQueue ==
  ASSUME TypeOK, Outside
  PROVE  /\ \A o : Queued(o) => Queued(o)'
         /\ \A d : QuitQueued(d) => QuitQueued(d)'
         /\ Queued("wait")' => Queued("wait")
<1>0. tasks \in Seq(Task)
  BY DEF TypeOK, Task
<1>1. UNCHANGED tasks \/ \E op \in {"start", "device", "listen", "stop"}, c \in Conn \cup {NoConn} : Dispatch(op, c)
  BY DEF Outside, HandleNewClient, AcceptError, RearmAcceptor, DeviceFound,
     HubFails, RequestStop
<1>2. CASE UNCHANGED tasks
  BY <1>2 DEF Queued, QuitQueued
<1>3. ASSUME NEW op \in {"start", "device", "listen", "stop"},
             NEW c \in Conn \cup {NoConn}, Dispatch(op, c)
      PROVE  /\ \A o : Queued(o) => Queued(o)'
             /\ \A d : QuitQueued(d) => QuitQueued(d)'
             /\ Queued("wait")' => Queued("wait")
  BY <1>0, <1>3, Dispatched
<1>4. QED BY <1>1, <1>2, <1>3

(* Nor does a session; a quit it triggers while it runs is queued. *)
LEMMA SessionQueue ==
  ASSUME TypeOK, NEW c \in Conn, UNCHANGED tasks \/ Dispatch("quit", c)
  PROVE  /\ \A o : Queued(o) => Queued(o)'
         /\ \A d : QuitQueued(d) => QuitQueued(d)'
         /\ Queued("wait")' => Queued("wait")
         /\ phase[c] = "running" /\ TriggerQuit(c) => QuitQueued(c)'
<1>0. tasks \in Seq(Task)
  BY DEF TypeOK, Task
<1>1. CASE Dispatch("quit", c)
  BY <1>0, <1>1, Dispatched
<1>2. CASE UNCHANGED tasks
  <2>1. phase[c] = "running" /\ TriggerQuit(c) => QuitQueued(c)'
    BY <1>0, Dispatched DEF TriggerQuit
  <2>2. QED BY <1>2, <2>1 DEF Queued, QuitQueued
<1>3. QED BY <1>1, <1>2

(* What one session does leaves the channels of the others alone.  A       *)
(* session goes deaf, or sees its ShutdownResponse sent, only with a quit. *)
LEMMA SessionChannel ==
  ASSUME TypeOK, NEW c \in Conn, SessionStep(c)
  PROVE  /\ \A d \in Conn \ {c} : (d \in armed' <=> d \in armed)
                                  /\ (d \in byes' <=> d \in byes)
         /\ phase[c] = "created" /\ phase'[c] = "running" => c \in armed'
         /\ phase[c] = "running" /\ phase'[c] = "running"
            /\ c \in armed /\ c \notin armed' => c \in byes' \/ TriggerQuit(c)
         /\ phase[c] = "running" /\ c \in byes /\ c \notin byes' => TriggerQuit(c)
<1> USE DEF TypeOK
<1>1. CASE SessionStart(c)
  BY <1>1 DEF SessionStart
<1>2. CASE SessionStop(c)
  BY <1>2 DEF SessionStop
<1>3. CASE MessageStep(c)
  <2>1. phase' = phase
    BY <1>3 DEF MessageStep, Receive, OnVersionResponse, OnVersionMismatch,
       OnHandshakeError, OnServiceDiscoveryRequest, OnRequest,
       OnNotification, OnByeByeRequest, OnByeByeResponse
  <2>2. CASE OnVersionResponse(c) \/ OnServiceDiscoveryRequest(c) \/ OnRequest(c)
             \/ OnNotification(c)
    BY <2>1, <2>2 DEF OnVersionResponse, OnServiceDiscoveryRequest, OnRequest,
       OnNotification, Rearm
  <2>3. CASE OnVersionMismatch(c) \/ OnHandshakeError(c) \/ OnByeByeResponse(c)
    BY <2>1, <2>3 DEF OnVersionMismatch, OnHandshakeError, OnByeByeResponse
  <2>4. CASE OnByeByeRequest(c)
    BY <2>1, <2>4 DEF OnByeByeRequest
  <2>5. QED BY <1>3, <2>2, <2>3, <2>4 DEF MessageStep
<1>4. CASE ReceiveFails(c)
  BY <1>4 DEF ReceiveFails
<1>5. CASE SendCompletes(c)
  BY <1>5 DEF SendCompletes
<1>6. CASE ByeCompletes(c)
  BY <1>6 DEF ByeCompletes
<1>7. QED
  BY <1>1, <1>2, <1>3, <1>4, <1>5, <1>6 DEF SessionStep

LEMMA DeafSessionStep ==
  TypeOK /\ SingleSession /\ DeafSessionIsEnding /\ [Next]_vars
    => DeafSessionIsEnding'
<1> SUFFICES ASSUME TypeOK, SingleSession, DeafSessionIsEnding, [Next]_vars,
                    NEW c \in Conn, phase'[c] = "running", c \notin armed'
             PROVE  c \in byes' \/ c \in stopping' \/ QuitQueued(c)'
  BY DEF DeafSessionIsEnding
<1>0. tasks \in Seq(Task)
  BY DEF TypeOK, Task
<1>1. CASE OnAndroidAutoQuit
  <2>1. phase[c] = "running"
    BY <1>1 DEF OnAndroidAutoQuit
  <2>2. c \in Live \/ c \in stopping
    BY <2>1, NoConnAssumption DEF SingleSession, Live
  <2>3. QED BY <1>1, <2>2 DEF OnAndroidAutoQuit
<1>2. CASE ManagerStep /\ ~OnAndroidAutoQuit
  <2>1. phase[c] = "running" /\ c \notin armed
    BY <1>2, ManagerStops
  <2>2. QuitQueued(c) => QuitQueued(c)'
    BY <1>0, <1>2, QuitKept DEF ManagerStep, WaitForUSBDevice, Start, Stop,
       AoapDeviceHandler, StartServerSocket
  <2>3. QED BY <1>2, <2>1, <2>2, ManagerStops DEF DeafSessionIsEnding
<1>3. CASE Outside
  BY <1>3, OutsideStops, OutsideQueue DEF DeafSessionIsEnding
<1>4. ASSUME NEW d \in Conn, SessionStep(d)
      PROVE  c \in byes' \/ c \in stopping' \/ QuitQueued(c)'
  <2>1. UNCHANGED stopping /\ (UNCHANGED tasks \/ Dispatch("quit", d))
    BY <1>4, SessionFrame
  <2>2. phase[c] = "running" \/ (c = d /\ phase[c] = "created")
    BY <1>4, SessionFrame
  <2>3. phase[c] = "running"
    BY <1>4, <2>2, SessionChannel
  <2>4. c \in armed => c \in byes' \/ QuitQueued(c)'
    BY <1>4, <2>1, <2>3, SessionChannel, SessionQueue
  <2>5. c \in byes => c \in byes' \/ QuitQueued(c)'
    BY <1>4, <2>1, <2>3, SessionChannel, SessionQueue
  <2>6. QuitQueued(c) => QuitQueued(c)'
    BY <2>1, SessionQueue
  <2>7. QED
    BY <2>1, <2>3, <2>4, <2>5, <2>6 DEF DeafSessionIsEnding
<1>5. CASE UNCHANGED vars
  BY <1>5 DEF vars, managerVars, sessionVars, DeafSessionIsEnding, QuitQueued
<1>6. QED BY <1>1, <1>2, <1>3, <1>4, <1>5 DEF Next, ManagerStep

(* A running session with no receive outstanding is being brought down. *)
THEOREM DeafSessionIsEndingHolds == Spec => []DeafSessionIsEnding
<1>1. Init => DeafSessionIsEnding
  BY DEF Init, DeafSessionIsEnding
<1>2. QED
  BY <1>1, DeafSessionStep, SingleSessionHolds, TypeCorrect, PTL DEF Spec

-----------------------------------------------------------------------------
(* The manager never goes deaf. *)

LEMMA NeverDeafStep == TypeOK /\ NeverDeaf /\ [Next]_vars => NeverDeaf'
<1> SUFFICES ASSUME TypeOK, NeverDeaf, [Next]_vars, ~isStopped',
                    ~Queued("wait")'
             PROVE  /\ accepts' > 0 \/ rearming' > 0 \/ Queued("listen")'
                    /\ active' = NoConn => hub' # "idle" \/ Queued("device")'
  BY DEF NeverDeaf
<1> DEFINE Listening == accepts > 0 \/ rearming > 0 \/ Queued("listen")
           HubReady == active = NoConn => hub # "idle" \/ Queued("device")
<1>0. tasks \in Seq(Task)
  BY DEF TypeOK, Task
<1>a. accepts \in Nat /\ rearming \in Nat
  BY DEF TypeOK
<1>b. WaitForDevice => accepts' > 0 /\ hub' = "armed"
  BY <1>a DEF WaitForDevice
<1>c. \A other : Running(other) /\ other # "wait" => ~Queued("wait")
  BY <1>0, QueuedKept
<1>1. CASE WaitForUSBDevice
  BY <1>1, <1>b DEF WaitForUSBDevice
<1>2. CASE Start
  <2>1. Listening
    BY <1>2, <1>c DEF Start, NeverDeaf
  <2>2. Queued("listen") => Queued("listen")'
    BY <1>0, <1>2, QueuedKept DEF Start
  <2>3. Head(tasks).conn \in Conn
    BY <1>0, <1>2, HeadConn DEF Start
  <2>4. QED
    BY <1>2, <1>b, <2>1, <2>2, <2>3, NoConnAssumption
    DEF Start, Connecting, CreateFails
<1>3. CASE Stop
  BY <1>3 DEF Stop
<1>4. CASE OnAndroidAutoQuit
  BY <1>4, <1>b DEF OnAndroidAutoQuit
<1>5. CASE AoapDeviceHandler
  <2>1. Listening
    BY <1>5, <1>c DEF AoapDeviceHandler, NeverDeaf
  <2>2. Queued("listen") => Queued("listen")'
    BY <1>0, <1>5, QueuedKept DEF AoapDeviceHandler
  <2>3. Head(tasks).conn \in Conn
    BY <1>0, <1>5, HeadConn DEF AoapDeviceHandler
  <2>4. QED
    BY <1>5, <1>b, <2>1, <2>2, <2>3, NoConnAssumption
    DEF AoapDeviceHandler, Connecting, CreateFails
<1>6. CASE StartServerSocket
  <2>1. HubReady
    BY <1>6, <1>c DEF StartServerSocket, NeverDeaf
  <2>2. Queued("device") => Queued("device")'
    BY <1>0, <1>6, QueuedKept DEF StartServerSocket
  <2>3. QED BY <1>6, <1>a, <2>1, <2>2 DEF StartServerSocket
<1>7. CASE Outside
  <2>1. ~isStopped /\ Listening /\ HubReady
    BY <1>7, OutsideQueue DEF NeverDeaf, Outside, HandleNewClient, AcceptError,
       RearmAcceptor, DeviceFound, HubFails, RequestStop
  <2>2. \A o : Queued(o) => Queued(o)'
    BY <1>7, OutsideQueue
  <2>3. \A op, c : Dispatch(op, c) => Queued(op)'
    BY <1>0, Dispatched
  <2>4. accepts' > 0 \/ rearming' > 0 \/ Queued("listen")'
    BY <1>7, <1>a, <2>1, <2>2, <2>3 DEF Outside, HandleNewClient, AcceptError,
       RearmAcceptor, DeviceFound, HubFails, RequestStop
  <2>5. active' = NoConn => hub' # "idle" \/ Queued("device")'
    BY <1>7, <2>1, <2>2, <2>3 DEF Outside, HandleNewClient, AcceptError,
       RearmAcceptor, DeviceFound, HubFails, RequestStop
  <2>6. QED BY <2>4, <2>5
<1>8. ASSUME NEW c \in Conn, SessionStep(c)
      PROVE  /\ accepts' > 0 \/ rearming' > 0 \/ Queued("listen")'
             /\ active' = NoConn => hub' # "idle" \/ Queued("device")'
  <2>1. UNCHANGED <<active, isStopped, hub, accepts, rearming>>
    BY <1>8, SessionFrame
  <2>2. /\ \A o : Queued(o) => Queued(o)'
        /\ Queued("wait")' => Queued("wait")
    BY <1>8, SessionFrame, SessionQueue
  <2>3. QED BY <2>1, <2>2 DEF NeverDeaf
<1>9. CASE UNCHANGED vars
  BY <1>9 DEF vars, managerVars, NeverDeaf, Queued
<1>10. QED
  BY <1>1, <1>2, <1>3, <1>4, <1>5, <1>6, <1>7, <1>8, <1>9 DEF Next, ManagerStep

(* Until it is stopped, a phone can always reach the head unit. *)
THEOREM NeverDeafHolds == Spec => []NeverDeaf
<1>1. Init => NeverDeaf
  BY DEF Init, NeverDeaf, Queued
<1>2. QED BY <1>1, NeverDeafStep, TypeCorrect, PTL DEF Spec

-----------------------------------------------------------------------------
(* The method shown is that of a session. *)

(* waitForUSBDevice() is the first thing the manager ever runs. *)
WaitFirst == \A i \in DOMAIN tasks : tasks[i].op = "wait" => i = 1 /\ active = NoConn

LEMMA WaitFirstStep == TypeOK /\ WaitFirst /\ [Next]_vars => WaitFirst'
<1> SUFFICES ASSUME TypeOK, WaitFirst, [Next]_vars,
                    NEW i \in DOMAIN tasks', tasks'[i].op = "wait"
             PROVE  i = 1 /\ active' = NoConn
  BY DEF WaitFirst
<1>0. tasks \in Seq(Task)
  BY DEF TypeOK, Task
<1>a. ASSUME NEW other, Running(other) PROVE FALSE
  <2>1. i + 1 \in DOMAIN tasks /\ tasks[i + 1].op = "wait" /\ i \in Nat \ {0}
    BY <1>0, <1>a, TailTask
  <2>2. QED BY <2>1 DEF WaitFirst
<1>b. ASSUME NEW op, NEW c, Dispatch(op, c), op # "wait"
      PROVE  i \in DOMAIN tasks /\ tasks[i].op = "wait"
  BY <1>0, <1>b DEF Dispatch
<1>1. CASE ManagerStep
  BY <1>1, <1>a DEF ManagerStep, WaitForUSBDevice, Start, Stop,
     OnAndroidAutoQuit, AoapDeviceHandler, StartServerSocket
<1>2. CASE Outside
  <2>1. UNCHANGED tasks \/ \E op, c : Dispatch(op, c) /\ op # "wait"
    BY <1>2 DEF Outside, HandleNewClient, AcceptError, RearmAcceptor,
       DeviceFound, HubFails, RequestStop
  <2>2. QED BY <1>2, <1>b, <2>1, OutsideStops DEF WaitFirst
<1>3. ASSUME NEW c \in Conn, SessionStep(c) PROVE i = 1 /\ active' = NoConn
  BY <1>3, <1>b, SessionFrame DEF WaitFirst
<1>4. CASE UNCHANGED vars
  BY <1>4 DEF vars, managerVars, WaitFirst
<1>5. QED BY <1>1, <1>2, <1>3, <1>4 DEF Next

(* The manager's strand alone writes the method, together with active. *)
LEMMA MethodStep ==
  TypeOK /\ WaitFirst /\ MethodTracksSession /\ [Next]_vars => MethodTracksSession'
<1> SUFFICES ASSUME TypeOK, WaitFirst, MethodTracksSession, [Next]_vars
             PROVE  MethodTracksSession'
  OBVIOUS
<1> USE DEF MethodTracksSession
<1>0. tasks \in Seq(Task) /\ (active \in Conn \/ active = NoConn)
  BY DEF TypeOK, Task
<1>1. CASE WaitForUSBDevice
  <2>1. active = NoConn
    BY <1>0, <1>1, TailTask DEF WaitForUSBDevice, WaitFirst
  <2>2. QED BY <1>1, <2>1 DEF WaitForUSBDevice, WaitForDevice
<1>2. CASE Start \/ AoapDeviceHandler
  <2>1. Head(tasks).conn \in Conn
    BY <1>0, <1>2, HeadConn DEF Start, AoapDeviceHandler
  <2>2. QED
    BY <1>2, <2>1, NoConnAssumption
    DEF Start, AoapDeviceHandler, Connecting, CreateFails, WaitForDevice
<1>3. CASE Stop \/ OnAndroidAutoQuit \/ StartServerSocket
  BY <1>3 DEF Stop, OnAndroidAutoQuit, StartServerSocket, WaitForDevice,
     monitorVars
<1>4. CASE Outside
  BY <1>4 DEF Outside, HandleNewClient, AcceptError, RearmAcceptor,
     DeviceFound, HubFails, RequestStop, monitorVars
<1>5. ASSUME NEW c \in Conn, SessionStep(c) PROVE MethodTracksSession'
  BY <1>5, SessionFrame
<1>6. CASE UNCHANGED vars
  BY <1>6 DEF vars, managerVars, monitorVars
<1>7. QED
  BY <1>1, <1>2, <1>3, <1>4, <1>5, <1>6 DEF Next, ManagerStep

(* The method shown is INDETERMINATE exactly when no session exists. *)
THEOREM MethodTracksSessionHolds == Spec => []MethodTracksSession
<1>1. Init => WaitFirst /\ MethodTracksSession
  BY DEF Init, WaitFirst, MethodTracksSession
<1>2. QED BY <1>1, WaitFirstStep, MethodStep, TypeCorrect, PTL DEF Spec

-----------------------------------------------------------------------------
(* Sessions implement the abstract lifecycle. *)

Offered(i) == tasks[i].op \in {"start", "device"}

(* How a connection's phase goes with the manager's variables.  The parts  *)
(* about the queue say that a connection offered to the manager waits in   *)
(* it once, untouched, until its task is handled.                          *)
ActiveLives == active # NoConn => /\ active \notin stopping
                                  /\ phase[active] \in {"created", "running"}
OfferedWaits == \A i \in DOMAIN tasks :
                  Offered(i) => phase[tasks[i].conn] = "offered"
OfferedOnce == \A i, j \in DOMAIN tasks :
                 Offered(i) /\ Offered(j) /\ tasks[i].conn = tasks[j].conn => i = j
StoppingBegan == \A c \in stopping : phase[c] \in {"created", "running", "stopped"}
StoppedWasTold == \A c \in Conn : phase[c] = "stopped" => c \in stopping
ArmedBegan == \A c \in armed : phase[c] \in {"running", "stopped"}

LifeInv == /\ ActiveLives /\ OfferedWaits /\ OfferedOnce
           /\ StoppingBegan /\ StoppedWasTold /\ ArmedBegan

LEMMA LifeManager ==
  ASSUME TypeOK, LifeInv, ManagerStep
  PROVE  LifeInv'
<1> USE DEF LifeInv
<1>0. tasks \in Seq(Task) /\ (active \in Conn \/ active = NoConn)
  BY DEF TypeOK, Task
<1>1. PICK other : Running(other) /\ other = Head(tasks).op
  BY DEF ManagerStep, WaitForUSBDevice, Start, Stop, OnAndroidAutoQuit,
     AoapDeviceHandler, StartServerSocket, Running
<1>2. \A i \in DOMAIN tasks' : i + 1 \in DOMAIN tasks /\ tasks'[i] = tasks[i + 1]
                               /\ i + 1 # 1 /\ i \in Nat
  BY <1>0, <1>1, TailTask
<1>3. OfferedOnce'
  BY <1>2 DEF OfferedOnce, Offered
<1>4. CASE UNCHANGED phase
  <2>1. OfferedWaits'
    BY <1>2, <1>4 DEF OfferedWaits, Offered
  <2>2. CASE WaitForUSBDevice \/ StartServerSocket
    BY <1>3, <2>1, <2>2 DEF WaitForUSBDevice, StartServerSocket, sessionVars,
       ActiveLives, StoppingBegan, StoppedWasTold, ArmedBegan
  <2>3. CASE Stop \/ OnAndroidAutoQuit
    BY <1>3, <2>1, <2>3 DEF Stop, OnAndroidAutoQuit, Live,
       ActiveLives, StoppingBegan, StoppedWasTold, ArmedBegan
  <2>4. CASE Start \/ AoapDeviceHandler
    <3>1. Head(tasks) = tasks[1] /\ 1 \in DOMAIN tasks /\ Offered(1)
      BY <1>0, <2>4, TailTask DEF Start, AoapDeviceHandler, Offered
    <3>2. Head(tasks).conn \in Conn /\ phase[Head(tasks).conn] = "offered"
      BY <1>0, <2>4, <3>1, HeadConn DEF Start, AoapDeviceHandler, OfferedWaits
    <3>3. phase'[Head(tasks).conn] \in {"created", "dropped"}
      BY <2>4, <3>2 DEF Start, AoapDeviceHandler, Connecting, CreateFails, TypeOK
    <3>4. QED BY <1>4, <3>2, <3>3
  <2>5. QED BY <2>2, <2>3, <2>4 DEF ManagerStep
<1>5. CASE Start \/ AoapDeviceHandler
  <2> DEFINE c == Head(tasks).conn
  <2>1. Head(tasks) = tasks[1] /\ 1 \in DOMAIN tasks /\ Offered(1)
    BY <1>0, <1>5, TailTask DEF Start, AoapDeviceHandler, Offered
  <2>2. c \in Conn /\ phase[c] = "offered"
    BY <1>0, <1>5, <2>1, HeadConn DEF Start, AoapDeviceHandler, OfferedWaits
  <2>3. c \notin stopping /\ c \notin armed /\ c # active
    BY <2>2, NoConnAssumption DEF StoppingBegan, ArmedBegan, ActiveLives
  <2>4. \A d \in Conn : d # c => phase'[d] = phase[d]
    BY <1>5, <2>2 DEF Start, AoapDeviceHandler, Connecting, CreateFails, TypeOK
  <2>5. \/ phase'[c] = "created" /\ active' = c
        \/ phase'[c] = "dropped" /\ (active' = NoConn \/ (active' = active /\ UNCHANGED stopping))
    <3>1. DOMAIN phase = Conn
      BY DEF TypeOK
    <3>2. CASE Start
      BY <2>2, <3>1, <3>2 DEF Start, Connecting, CreateFails
    <3>3. CASE AoapDeviceHandler /\ active = NoConn
      BY <2>2, <3>1, <3>3 DEF AoapDeviceHandler, Connecting, CreateFails
    <3>4. CASE AoapDeviceHandler /\ active # NoConn
      BY <2>2, <3>1, <3>4 DEF AoapDeviceHandler
    <3>5. QED BY <1>5, <3>2, <3>3, <3>4
  <2>6. OfferedWaits'
    <3> SUFFICES ASSUME NEW i \in DOMAIN tasks', Offered(i)'
                 PROVE  phase'[tasks'[i].conn] = "offered"
      BY DEF OfferedWaits
    <3>1. i + 1 \in DOMAIN tasks /\ tasks'[i] = tasks[i + 1] /\ i + 1 # 1
      BY <1>2
    <3>2. Offered(i + 1) /\ phase[tasks[i + 1].conn] = "offered"
      BY <3>1 DEF OfferedWaits, Offered
    <3>3. tasks[i + 1].conn # c
      BY <2>1, <3>1, <3>2 DEF OfferedOnce
    <3>4. tasks[i + 1].conn \in Conn
      BY <1>0, <3>1, <3>2 DEF Offered, Task, ConnTask, PlainTask
    <3>5. QED BY <2>4, <3>1, <3>2, <3>3, <3>4
  <2>7. stopping' \subseteq stopping \cup Live /\ Live \subseteq Conn
        /\ stopping \subseteq stopping' /\ armed' = armed
    BY <1>0, <1>5 DEF Start, AoapDeviceHandler, Live
  <2>8. ActiveLives'
    BY <2>2, <2>3, <2>4, <2>5, <2>7, <1>0, NoConnAssumption DEF ActiveLives, Live
  <2>9. StoppingBegan' /\ StoppedWasTold' /\ ArmedBegan'
    BY <2>3, <2>4, <2>5, <2>7
    DEF TypeOK, StoppingBegan, StoppedWasTold, ArmedBegan, ActiveLives, Live
  <2>10. QED BY <1>3, <2>6, <2>8, <2>9
<1>6. QED
  BY <1>4, <1>5 DEF ManagerStep, WaitForUSBDevice, Stop, OnAndroidAutoQuit,
     StartServerSocket, sessionVars

(* Dispatching a task appends it, and nothing else. *)
LEMMA Appended ==
  ASSUME tasks \in Seq(Task), NEW op, NEW c, Dispatch(op, c)
  PROVE  /\ Len(tasks) \in Nat
         /\ DOMAIN tasks = 1 .. Len(tasks)
         /\ DOMAIN tasks' = 1 .. (Len(tasks) + 1)
         /\ \A i \in 1 .. Len(tasks) : tasks'[i] = tasks[i]
         /\ tasks'[Len(tasks) + 1].op = op
         /\ tasks'[Len(tasks) + 1].conn = c
BY DEF Dispatch

(* A task that offers no connection leaves the queue's invariant alone. *)
LEMMA LifeQuietDispatch ==
  ASSUME TypeOK, OfferedWaits, OfferedOnce, NEW op, NEW c,
         op \notin {"start", "device"},
         UNCHANGED tasks \/ Dispatch(op, c),
         \A d \in Conn : phase[d] = "offered" => phase'[d] = "offered"
  PROVE  OfferedWaits' /\ OfferedOnce'
<1>0. tasks \in Seq(Task)
  BY DEF TypeOK, Task
<1>1. \A i \in DOMAIN tasks' :
        Offered(i)' => i \in DOMAIN tasks /\ Offered(i) /\ tasks'[i] = tasks[i]
  BY <1>0, Appended DEF Offered
<1>2. \A i \in DOMAIN tasks : Offered(i) => tasks[i].conn \in Conn
  BY <1>0 DEF Offered, Task, ConnTask, PlainTask
<1>3. OfferedWaits'
  BY <1>1, <1>2 DEF OfferedWaits
<1>4. OfferedOnce'
  BY <1>1 DEF OfferedOnce
<1>5. QED BY <1>3, <1>4

(* A connection is offered to the manager only when it is new. *)
LEMMA LifeOffer ==
  ASSUME TypeOK, OfferedWaits, OfferedOnce,
         NEW op \in {"start", "device"}, NEW c \in Conn, Dispatch(op, c),
         phase[c] = "idle", phase' = [phase EXCEPT ![c] = "offered"]
  PROVE  OfferedWaits' /\ OfferedOnce'
<1>0. tasks \in Seq(Task)
  BY DEF TypeOK, Task
<1>a. phase'[c] = "offered" /\ \A d \in Conn : d # c => phase'[d] = phase[d]
  BY DEF TypeOK
<1>1. \A i \in DOMAIN tasks :
        Offered(i) => tasks[i].conn \in Conn /\ tasks[i].conn # c
  BY <1>0 DEF Offered, OfferedWaits, Task, ConnTask, PlainTask
<1>2. ASSUME NEW i \in DOMAIN tasks', Offered(i)'
      PROVE  \/ i \in DOMAIN tasks /\ Offered(i) /\ tasks'[i] = tasks[i]
             \/ i = Len(tasks) + 1 /\ tasks'[i].conn = c
  <2>1. CASE i \in DOMAIN tasks
    BY <1>0, <1>2, <2>1, Appended DEF Offered
  <2>2. CASE i \notin DOMAIN tasks
    BY <1>0, <1>2, <2>2, Appended
  <2>3. QED BY <2>1, <2>2
<1>3. OfferedWaits'
  BY <1>a, <1>1, <1>2 DEF OfferedWaits
<1>4. OfferedOnce'
  BY <1>1, <1>2 DEF OfferedOnce
<1>5. QED BY <1>3, <1>4

LEMMA LifeOutside ==
  ASSUME TypeOK, LifeInv, Outside
  PROVE  LifeInv'
<1> USE DEF LifeInv
<1>1. ASSUME NEW c \in Conn, HandleNewClient(c) \/ DeviceFound(c)
      PROVE  LifeInv'
  <2>1. phase[c] = "idle" /\ phase' = [phase EXCEPT ![c] = "offered"]
        /\ (Dispatch("start", c) \/ Dispatch("device", c))
        /\ UNCHANGED <<active, stopping, armed>>
    BY <1>1 DEF HandleNewClient, DeviceFound
  <2>2. OfferedWaits' /\ OfferedOnce'
    BY <2>1, LifeOffer
  <2>3. phase'[c] = "offered" /\ \A d \in Conn : d # c => phase'[d] = phase[d]
    BY <2>1 DEF TypeOK
  <2>4. ActiveLives'
    BY <2>1, <2>3 DEF TypeOK, ActiveLives
  <2>5. StoppingBegan' /\ StoppedWasTold' /\ ArmedBegan'
    BY <2>1, <2>3 DEF TypeOK, StoppingBegan, StoppedWasTold, ArmedBegan
  <2>6. QED BY <2>2, <2>4, <2>5
<1>2. CASE AcceptError \/ RearmAcceptor \/ HubFails \/ RequestStop
  <2>1. /\ UNCHANGED <<active, phase, stopping, armed>>
        /\ \/ UNCHANGED tasks
           \/ Dispatch("listen", NoConn) \/ Dispatch("stop", NoConn)
    BY <1>2 DEF AcceptError, RearmAcceptor, HubFails, RequestStop, sessionVars
  <2>2. OfferedWaits' /\ OfferedOnce'
    BY <2>1, LifeQuietDispatch
  <2>3. ActiveLives' /\ StoppingBegan' /\ StoppedWasTold' /\ ArmedBegan'
    BY <2>1 DEF ActiveLives, StoppingBegan, StoppedWasTold, ArmedBegan
  <2>4. QED BY <2>2, <2>3
<1>3. QED BY <1>1, <1>2 DEF Outside

(* What a session's step does to its phase and to its channel. *)
LEMMA SessionLife ==
  ASSUME TypeOK, LifeInv, NEW c \in Conn, SessionStep(c)
  PROVE  /\ \/ UNCHANGED phase /\ armed' \subseteq armed
            \/ phase[c] = "created" /\ phase'[c] = "running"
               /\ armed' = armed \cup {c}
            \/ phase[c] = "running" /\ phase'[c] = "stopped" /\ c \in stopping
               /\ UNCHANGED armed
         /\ armed \ {c} = armed' \ {c}
<1>1. CASE SessionStart(c) \/ SessionStop(c)
  BY <1>1 DEF SessionStart, SessionStop, TypeOK
<1>2. CASE MessageStep(c) \/ ReceiveFails(c) \/ SendCompletes(c) \/ ByeCompletes(c)
  BY <1>2 DEF MessageStep, OnVersionResponse, OnVersionMismatch,
     OnHandshakeError, OnServiceDiscoveryRequest, OnRequest, OnNotification,
     OnByeByeRequest, OnByeByeResponse, Receive, Rearm, ReceiveFails,
     SendCompletes, ByeCompletes
<1>3. QED BY <1>1, <1>2 DEF SessionStep

LEMMA LifeSession ==
  ASSUME TypeOK, LifeInv, NEW c \in Conn, SessionStep(c)
  PROVE  LifeInv'
<1>1. /\ UNCHANGED <<active, stopping>>
      /\ UNCHANGED tasks \/ Dispatch("quit", c)
      /\ \A d \in Conn : d # c => phase'[d] = phase[d]
  BY SessionFrame
<1>2. /\ \/ UNCHANGED phase /\ armed' \subseteq armed
         \/ phase[c] = "created" /\ phase'[c] = "running"
            /\ armed' = armed \cup {c}
         \/ phase[c] = "running" /\ phase'[c] = "stopped" /\ c \in stopping
            /\ UNCHANGED armed
  BY SessionLife
<1>3. OfferedWaits' /\ OfferedOnce'
  <2>1. \A d \in Conn : phase[d] = "offered" => phase'[d] = "offered"
    BY <1>1, <1>2
  <2>2. QED BY <1>1, <2>1, LifeQuietDispatch DEF LifeInv
<1>4. ActiveLives'
  BY <1>1, <1>2 DEF LifeInv, ActiveLives, TypeOK
<1>5. StoppingBegan' /\ StoppedWasTold' /\ ArmedBegan'
  BY <1>1, <1>2 DEF LifeInv, StoppingBegan, StoppedWasTold, ArmedBegan, TypeOK
<1>6. QED BY <1>3, <1>4, <1>5 DEF LifeInv

LEMMA LifeStep == TypeOK /\ LifeInv /\ [Next]_vars => LifeInv'
<1>1. ASSUME LifeInv, UNCHANGED vars PROVE LifeInv'
  BY <1>1 DEF vars, managerVars, sessionVars, LifeInv, ActiveLives, OfferedWaits,
     OfferedOnce, Offered, StoppingBegan, StoppedWasTold, ArmedBegan
<1>2. QED BY <1>1, LifeManager, LifeOutside, LifeSession DEF Next

THEOREM LifeInvHolds == Spec => []LifeInv
<1>1. Init => LifeInv
  BY NoConnAssumption
  DEF Init, LifeInv, ActiveLives, OfferedWaits, OfferedOnce, Offered,
      StoppingBegan, StoppedWasTold, ArmedBegan
<1>2. QED BY <1>1, LifeStep, TypeCorrect, PTL DEF Spec

-----------------------------------------------------------------------------
(* The refinement: every step is a step of the lifecycle, or no step of it. *)

(* The sessions whose control channel is dead. *)
Broken == {c \in Conn : phase[c] \in {"running", "stopped"} /\ c \notin armed}

(* A handler of the manager begins, replaces or ends a session. *)
LEMMA ManagerRefines ==
  ASSUME TypeOK, LifeInv, ManagerStep
  PROVE  /\ Broken' = Broken
         /\ \/ UNCHANGED <<active, stopping>>
            \/ active # NoConn /\ active' = NoConn
               /\ stopping' = stopping \cup {active}
            \/ /\ active' \in Conn /\ active' # active /\ active' \notin stopping
               /\ \/ active = NoConn /\ UNCHANGED stopping
                  \/ active # NoConn /\ stopping' = stopping \cup {active}
<1>0. tasks \in Seq(Task) /\ (active \in Conn \/ active = NoConn)
  BY DEF TypeOK, Task
<1>1. Live = IF active = NoConn THEN {} ELSE {active}
  BY DEF Live
<1>2. CASE WaitForUSBDevice \/ StartServerSocket
  BY <1>2 DEF WaitForUSBDevice, StartServerSocket, sessionVars, Broken
<1>3. CASE Stop \/ OnAndroidAutoQuit
  <2>1. UNCHANGED <<phase, armed>> /\ active' = NoConn
        /\ stopping' = stopping \cup Live
    BY <1>3 DEF Stop, OnAndroidAutoQuit
  <2>2. QED BY <1>0, <1>1, <2>1 DEF Broken
<1>4. CASE Start \/ AoapDeviceHandler
  <2> DEFINE c == Head(tasks).conn
  <2>1. Head(tasks) = tasks[1] /\ 1 \in DOMAIN tasks /\ Offered(1)
    BY <1>0, <1>4, TailTask DEF Start, AoapDeviceHandler, Offered
  <2>2. c \in Conn /\ phase[c] = "offered"
    BY <1>0, <1>4, <2>1, HeadConn DEF Start, AoapDeviceHandler, LifeInv, OfferedWaits
  <2>3. c \notin stopping /\ c # active /\ c # NoConn
    BY <2>2, NoConnAssumption DEF LifeInv, StoppingBegan, ActiveLives
  <2>4. /\ UNCHANGED armed
        /\ phase'[c] \in {"created", "dropped"}
        /\ \A d \in Conn : d # c => phase'[d] = phase[d]
    BY <1>4, <2>2 DEF Start, AoapDeviceHandler, Connecting, CreateFails, TypeOK
  <2>5. Broken' = Broken
    BY <2>2, <2>4 DEF Broken
  <2>6. CASE Start
    <3>1. (active' = c \/ active' = NoConn) /\ stopping' = stopping \cup Live
      BY <2>6 DEF Start, Connecting, CreateFails
    <3>2. QED BY <1>0, <1>1, <2>2, <2>3, <2>5, <3>1
  <2>7. CASE AoapDeviceHandler
    <3>1. UNCHANGED stopping /\ \/ active' = active
                                \/ active = NoConn /\ active' = c
                                \/ active = NoConn /\ active' = NoConn
      BY <2>7 DEF AoapDeviceHandler, Connecting, CreateFails
    <3>2. QED BY <1>0, <2>2, <2>3, <2>5, <3>1
  <2>8. QED BY <1>4, <2>6, <2>7
<1>5. QED BY <1>2, <1>3, <1>4 DEF ManagerStep

(* A step of a session leaves the manager's choice alone, and at most      *)
(* breaks its own channel.                                                 *)
LEMMA SessionRefines ==
  ASSUME TypeOK, LifeInv, SingleSession, NEW c \in Conn, SessionStep(c)
  PROVE  /\ UNCHANGED <<active, stopping>>
         /\ \/ Broken' = Broken
            \/ /\ c \notin Broken /\ Broken' = Broken \cup {c}
               /\ c = active \/ c \in stopping
<1>1. /\ UNCHANGED <<active, stopping>>
      /\ \A d \in Conn : d # c => phase'[d] = phase[d]
  BY SessionFrame
<1>2. /\ \/ UNCHANGED phase /\ armed' \subseteq armed
         \/ phase[c] = "created" /\ phase'[c] = "running"
            /\ armed' = armed \cup {c}
         \/ phase[c] = "running" /\ phase'[c] = "stopped" /\ c \in stopping
            /\ UNCHANGED armed
      /\ armed \ {c} = armed' \ {c}
  BY SessionLife
<1>3. \A d \in Conn : d # c => (d \in Broken' <=> d \in Broken)
  BY <1>1, <1>2 DEF Broken
<1>4. c \in Broken => c \in Broken'
  BY <1>2 DEF Broken
<1>5. c \in Broken' /\ c \notin Broken => c = active \/ c \in stopping
  <2> SUFFICES ASSUME c \in Broken', c \notin Broken
               PROVE  c = active \/ c \in stopping
    OBVIOUS
  <2>1. phase[c] \in {"running", "stopped"}
    BY <1>2 DEF Broken
  <2>2. QED BY <2>1 DEF SingleSession, LifeInv, StoppedWasTold
<1>6. QED BY <1>1, <1>3, <1>4, <1>5 DEF Broken

(* Whatever the strands' interleaving, sessions come and go as the         *)
(* abstract lifecycle allows: a step that is none of its steps changes     *)
(* nothing it speaks of.                                                   *)
THEOREM ImplementsSafetyHolds == Spec => ImplementsSafety
<1>1. Init => Lifecycle!Init
  BY DEF Init, Lifecycle!Init
<1>2. TypeOK /\ LifeInv /\ SingleSession /\ [Next]_vars
        => [Lifecycle!Next]_(Lifecycle!vars)
  <2> SUFFICES ASSUME TypeOK, LifeInv, SingleSession, [Next]_vars
               PROVE  [Lifecycle!Next]_(Lifecycle!vars)
    OBVIOUS
  <2> USE DEF Broken
  <2>1. CASE ManagerStep
    <3>1. CASE UNCHANGED <<active, stopping>>
      BY <2>1, <3>1, ManagerRefines DEF Lifecycle!vars
    <3>2. CASE active # NoConn /\ active' = NoConn
               /\ stopping' = stopping \cup {active}
      BY <2>1, <3>2, ManagerRefines DEF Lifecycle!Next, Lifecycle!End
    <3>3. CASE /\ active' \in Conn /\ active' # active /\ active' \notin stopping
               /\ \/ active = NoConn /\ UNCHANGED stopping
                  \/ active # NoConn /\ stopping' = stopping \cup {active}
      <4>1. Lifecycle!Begin(active') \/ Lifecycle!Replace(active')
        BY <2>1, <3>3, ManagerRefines DEF Lifecycle!Begin, Lifecycle!Replace
      <4>2. QED BY <3>3, <4>1 DEF Lifecycle!Next
    <3>4. QED BY <2>1, <3>1, <3>2, <3>3, ManagerRefines
  <2>2. CASE Outside
    <3>1. UNCHANGED <<active, stopping, armed>>
          /\ \A c \in Conn : phase'[c] # phase[c] =>
               phase'[c] = "offered" /\ phase[c] = "idle"
      BY <2>2 DEF TypeOK, Outside, HandleNewClient, AcceptError, RearmAcceptor,
         DeviceFound, HubFails, RequestStop, sessionVars
    <3>2. QED BY <3>1 DEF Lifecycle!vars
  <2>3. ASSUME NEW c \in Conn, SessionStep(c)
        PROVE  [Lifecycle!Next]_(Lifecycle!vars)
    <3>1. CASE Broken' = Broken
      BY <2>3, <3>1, SessionRefines DEF Lifecycle!vars
    <3>2. CASE Broken' # Broken
      <4>1. Lifecycle!Break(c)
        BY <2>3, <3>2, SessionRefines DEF Lifecycle!Break
      <4>2. QED BY <4>1 DEF Lifecycle!Next
    <3>3. QED BY <3>1, <3>2
  <2>4. CASE UNCHANGED vars
    BY <2>4 DEF vars, managerVars, sessionVars, Lifecycle!vars
  <2>5. QED BY <2>1, <2>2, <2>3, <2>4 DEF Next
<1>3. QED
  BY <1>1, <1>2, TypeCorrect, LifeInvHolds, SingleSessionHolds, PTL
  DEF Spec, ImplementsSafety, Lifecycle!Safety

=============================================================================
