----------------------------- MODULE Projection -----------------------------
(***************************************************************************)
(* ProjectionManager with the AndroidAutoSessions it creates and the       *)
(* AndroidAutoMonitor both write to.                                       *)
(*                                                                         *)
(* The manager and every session serialise their handlers on a strand of   *)
(* their own; four io_service threads run the strands concurrently.  The   *)
(* manager's strand is the FIFO queue tasks of handlers dispatched to it.  *)
(* A session's strand needs no queue: start() is dispatched before stop(), *)
(* and everything else is the completion of an operation in flight.        *)
(*                                                                         *)
(* A dispatch onto an idle strand runs at once on the calling thread; that *)
(* is the interleaving in which the queued task is taken immediately.      *)
(*                                                                         *)
(* A connection (one accepted socket, or one plugged-in AOAP device) is an *)
(* element of Conn, and names the session that serves it.                  *)
(***************************************************************************)
EXTENDS Naturals, Sequences

CONSTANTS
  Conn,       \* the connections phones make in one execution
  NoConn,     \* activeSession_ == nullptr
  IoThreads,  \* threads that run the io_service (main.cpp starts four)
  MaxMsgs,    \* bound: control messages a phone sends on a connection
  MaxTasks    \* bound: handlers waiting on the manager's strand

ASSUME NoConnAssumption == NoConn \notin Conn
ASSUME IoThreadsAssumption == IoThreads \in Nat \ {0}
ASSUME MaxMsgsAssumption == MaxMsgs \in Nat
ASSUME MaxTasksAssumption == MaxTasks \in Nat \ {0}

VARIABLES
  tasks,       \* handlers waiting on ProjectionManager::strand_
  active,      \* activeSession_
  isStopped,   \* isStopped_
  hub,         \* the promise given to usbHub_: "idle", "armed" or "failed"
  accepts,     \* outstanding acceptor_.async_accept operations
  rearming,    \* handleNewClient calls before their "re-arm the acceptor" part
  state,       \* AndroidAutoMonitor::m_connectivityState
  method,      \* AndroidAutoMonitor::m_connectivityMethod
  phase,       \* life of each connection and of the session that serves it
  stopping,    \* sessions on which stop() was called
  armed,       \* sessions with a receive() outstanding on the control channel
  sends,       \* outstanding sends of each session that quit only on failure
  byes,        \* sessions whose ShutdownResponse is outstanding
  msgs         \* control messages received so far, per connection

managerVars == <<tasks, active, isStopped, hub, accepts, rearming>>
monitorVars == <<state, method>>
sessionVars == <<phase, stopping, armed, sends, byes, msgs>>
vars == <<managerVars, monitorVars, sessionVars>>

Phase == {"idle", "offered", "created", "running", "stopped", "dropped"}
ConnTask == [op : {"start", "device"}, conn : Conn]
PlainTask == [op : {"wait", "listen", "quit", "stop"}, conn : Conn \cup {NoConn}]

TypeOK ==
  /\ tasks \in Seq(ConnTask \cup PlainTask)
  /\ active \in Conn \cup {NoConn}
  /\ isStopped \in BOOLEAN
  /\ hub \in {"idle", "armed", "failed"}
  /\ accepts \in Nat
  /\ rearming \in Nat
  /\ state \in {"STARTUP", "DISCONNECTED", "CONNECTING", "CONNECTED"}
  /\ method \in {"INDETERMINATE", "USB", "WIFI"}
  /\ phase \in [Conn -> Phase]
  /\ stopping \subseteq Conn
  /\ armed \subseteq Conn
  /\ sends \in [Conn -> Nat]
  /\ byes \subseteq Conn
  /\ msgs \in [Conn -> Nat]

(* main(): construct the manager (monitor at STARTUP), then waitForUSBDevice. *)
Init ==
  /\ tasks = <<[op |-> "wait", conn |-> NoConn]>>
  /\ active = NoConn
  /\ isStopped = FALSE
  /\ hub = "idle"
  /\ accepts = 0
  /\ rearming = 0
  /\ state = "STARTUP"
  /\ method = "INDETERMINATE"
  /\ phase = [c \in Conn |-> "idle"]
  /\ stopping = {}
  /\ armed = {}
  /\ sends = [c \in Conn |-> 0]
  /\ byes = {}
  /\ msgs = [c \in Conn |-> 0]

-----------------------------------------------------------------------------
(* Helpers of the manager's handlers. *)

Dispatch(op, c) == /\ Len(tasks) < MaxTasks
                   /\ tasks' = Append(tasks, [op |-> op, conn |-> c])

Running(op) ==
  /\ tasks # <<>>
  /\ Head(tasks).op = op
  /\ tasks' = Tail(tasks)

Live == {active} \ {NoConn}

(* Back to waiting: monitor reset, hub re-armed, one more accept started. *)
WaitForDevice ==
  /\ state' = "DISCONNECTED"
  /\ method' = "INDETERMINATE"
  /\ hub' = "armed"
  /\ accepts' = accepts + 1

(* sessionFactory_.create() and AndroidAutoSession::start() succeed. *)
Connecting(c, how) ==
  /\ active' = c
  /\ phase' = [phase EXCEPT ![c] = "created"]
  /\ state' = "CONNECTING"
  /\ method' = how
  /\ UNCHANGED <<hub, accepts>>

(* Fault: a session that cannot be created does not send us back to wait. *)
CreateFailsSilently(c) ==
  /\ active' = NoConn
  /\ phase' = [phase EXCEPT ![c] = "dropped"]
  /\ state' = "DISCONNECTED"
  /\ method' = "INDETERMINATE"
  /\ UNCHANGED <<hub, accepts>>

(* sessionFactory_.create() throws: back to waiting. *)
CreateFails(c) ==
  /\ active' = NoConn
  /\ phase' = [phase EXCEPT ![c] = "dropped"]
  /\ WaitForDevice

-----------------------------------------------------------------------------
(* The handlers run on the manager's strand. *)

WaitForUSBDevice ==
  /\ Running("wait")
  /\ WaitForDevice
  /\ UNCHANGED <<active, isStopped, rearming, sessionVars>>

(* Fault: the new session takes over without stopping the existing one. *)
StartKeepsOld ==
  /\ Running("start")
  /\ LET c == Head(tasks).conn IN Connecting(c, "WIFI") \/ CreateFails(c)
  /\ UNCHANGED <<isStopped, rearming, stopping, armed, sends, byes, msgs>>

Start ==
  /\ Running("start")
  /\ stopping' = stopping \cup Live
  /\ LET c == Head(tasks).conn IN Connecting(c, "WIFI") \/ CreateFails(c)
  /\ UNCHANGED <<isStopped, rearming, armed, sends, byes, msgs>>

Stop ==
  /\ Running("stop")
  /\ isStopped' = TRUE
  /\ hub' = "idle"
  /\ stopping' = stopping \cup Live
  /\ active' = NoConn
  /\ state' = IF Live = {} THEN state ELSE "DISCONNECTED"
  /\ UNCHANGED <<accepts, rearming, method, phase, armed, sends, byes, msgs>>

(* Fault: the session is stopped, and activeSession_ is not reset. *)
OnAndroidAutoQuitKeeps ==
  /\ Running("quit")
  /\ stopping' = stopping \cup Live
  /\ ~isStopped /\ WaitForDevice
  /\ UNCHANGED <<active, isStopped, rearming, phase, armed, sends, byes, msgs>>

OnAndroidAutoQuit ==
  /\ Running("quit")
  /\ stopping' = stopping \cup Live
  /\ active' = NoConn
  /\ \/ ~isStopped /\ WaitForDevice
     \/ /\ isStopped
        /\ state' = IF Live = {} THEN state ELSE "DISCONNECTED"
        /\ UNCHANGED <<hub, accepts, method>>
  /\ UNCHANGED <<isStopped, rearming, phase, armed, sends, byes, msgs>>

(* Fault: a second device is not ignored but reported as connecting. *)
AoapDeviceHandlerMisreports ==
  /\ Running("device")
  /\ LET c == Head(tasks).conn
     IN  \/ /\ active # NoConn
            /\ phase' = [phase EXCEPT ![c] = "dropped"]
            /\ WaitForDevice
            /\ UNCHANGED active
         \/ /\ active = NoConn
            /\ Connecting(c, "USB") \/ CreateFails(c)
  /\ UNCHANGED <<isStopped, rearming, stopping, armed, sends, byes, msgs>>

AoapDeviceHandler ==
  /\ Running("device")
  /\ LET c == Head(tasks).conn
     IN  \/ /\ active # NoConn
            /\ phase' = [phase EXCEPT ![c] = "dropped"]
            /\ UNCHANGED <<active, hub, accepts, state, method>>
         \/ /\ active = NoConn
            /\ Connecting(c, "USB") \/ CreateFails(c)
  /\ UNCHANGED <<isStopped, rearming, stopping, armed, sends, byes, msgs>>

StartServerSocket ==
  /\ Running("listen")
  /\ accepts' = accepts + 1
  /\ UNCHANGED <<active, isStopped, hub, rearming, monitorVars, sessionVars>>

ManagerStep ==
  \/ WaitForUSBDevice \/ Start \/ Stop
  \/ OnAndroidAutoQuit \/ AoapDeviceHandler \/ StartServerSocket

-----------------------------------------------------------------------------
(* What reaches the manager from outside its strand. *)

(* An accept completes; handleNewClient, on any thread, dispatches start(). *)
HandleNewClient(c) ==
  /\ accepts > 0 /\ rearming < IoThreads
  /\ phase[c] = "idle"
  /\ phase' = [phase EXCEPT ![c] = "offered"]
  /\ accepts' = accepts - 1
  /\ rearming' = rearming + 1
  /\ Dispatch("start", c)
  /\ UNCHANGED <<active, isStopped, hub, monitorVars,
                 stopping, armed, sends, byes, msgs>>

(* An accept fails: handleNewClient only goes on to re-arm. *)
AcceptError ==
  /\ accepts > 0 /\ rearming < IoThreads
  /\ accepts' = accepts - 1
  /\ rearming' = rearming + 1
  /\ UNCHANGED <<tasks, active, isStopped, hub, monitorVars, sessionVars>>

(* Fault: the acceptor is re-armed only while a session is projected. *)
RearmWhileServing ==
  /\ rearming > 0
  /\ rearming' = rearming - 1
  /\ IF isStopped \/ active = NoConn
     THEN UNCHANGED tasks ELSE Dispatch("listen", NoConn)
  /\ UNCHANGED <<active, isStopped, hub, accepts, monitorVars, sessionVars>>

(* The rest of handleNewClient, reading isStopped_ outside the strand. *)
RearmAcceptor ==
  /\ rearming > 0
  /\ rearming' = rearming - 1
  /\ IF isStopped THEN UNCHANGED tasks ELSE Dispatch("listen", NoConn)
  /\ UNCHANGED <<active, isStopped, hub, accepts, monitorVars, sessionVars>>

(* The hub finds an AOAP device: its promise is consumed by one device. *)
DeviceFound(c) ==
  /\ hub = "armed"
  /\ phase[c] = "idle"
  /\ phase' = [phase EXCEPT ![c] = "offered"]
  /\ hub' = "idle"
  /\ Dispatch("device", c)
  /\ UNCHANGED <<active, isStopped, accepts, rearming, monitorVars,
                 stopping, armed, sends, byes, msgs>>

(* The hub rejects its promise: onUSBHubError logs and does nothing else. *)
HubFails ==
  /\ hub = "armed"
  /\ hub' = "failed"
  /\ UNCHANGED <<tasks, active, isStopped, accepts, rearming,
                 monitorVars, sessionVars>>

(* The application asks the manager to stop, once. *)
RequestStop ==
  /\ ~isStopped
  /\ \A i \in DOMAIN tasks : tasks[i].op # "stop"
  /\ Dispatch("stop", NoConn)
  /\ UNCHANGED <<active, isStopped, hub, accepts, rearming,
                 monitorVars, sessionVars>>

-----------------------------------------------------------------------------
(* The handlers run on the strand of session c. *)

(* triggerQuit(): eventHandler_ is set from start() until stop() has run. *)
TriggerQuit(c) ==
  IF phase[c] = "running" THEN Dispatch("quit", c) ELSE UNCHANGED tasks

SessionStart(c) ==
  /\ phase[c] = "created"
  /\ phase' = [phase EXCEPT ![c] = "running"]
  /\ sends' = [sends EXCEPT ![c] = @ + 1]
  /\ armed' = armed \cup {c}
  /\ UNCHANGED <<managerVars, monitorVars, stopping, byes, msgs>>

(* eventHandler_ = nullptr; what is still in flight completes unheard. *)
SessionStop(c) ==
  /\ c \in stopping
  /\ phase[c] = "running"
  /\ phase' = [phase EXCEPT ![c] = "stopped"]
  /\ UNCHANGED <<managerVars, monitorVars, stopping, armed, sends, byes, msgs>>

(* The outstanding receive completes with a message and a handler runs.  A *)
(* session that was stopped meanwhile neither sends nor receives any more. *)
Receive(c) ==
  /\ c \in armed
  /\ msgs[c] < MaxMsgs
  /\ msgs' = [msgs EXCEPT ![c] = @ + 1]
  /\ UNCHANGED <<active, isStopped, hub, accepts, rearming, method,
                 phase, stopping>>

Rearm(c) == armed' = IF phase[c] = "running" THEN armed ELSE armed \ {c}
Reply(c) == sends' = IF phase[c] = "running"
                     THEN [sends EXCEPT ![c] = @ + 1] ELSE sends

(* onVersionResponse or onHandshake, the handshake going on or complete. *)
OnVersionResponse(c) ==
  /\ Receive(c) /\ Reply(c) /\ Rearm(c)
  /\ state' = "CONNECTING"
  /\ UNCHANGED <<tasks, byes>>

OnVersionMismatch(c) ==
  /\ Receive(c) /\ TriggerQuit(c)
  /\ state' = "CONNECTING"
  /\ armed' = armed \ {c}
  /\ UNCHANGED <<sends, byes>>

OnHandshakeError(c) ==
  /\ Receive(c) /\ TriggerQuit(c)
  /\ armed' = armed \ {c}
  /\ UNCHANGED <<state, sends, byes>>

OnServiceDiscoveryRequest(c) ==
  /\ Receive(c) /\ Reply(c) /\ Rearm(c)
  /\ state' = "CONNECTED"
  /\ UNCHANGED <<tasks, byes>>

(* Fault: the handler answers and forgets to receive the next message. *)
OnRequestDeaf(c) ==
  /\ Receive(c) /\ Reply(c)
  /\ armed' = armed \ {c}
  /\ UNCHANGED <<tasks, state, byes>>

(* Handshake data, audio or navigation focus, ping: answered and re-armed. *)
OnRequest(c) ==
  /\ Receive(c) /\ Reply(c) /\ Rearm(c)
  /\ UNCHANGED <<tasks, state, byes>>

(* Battery status, voice session, ping response: only re-armed. *)
OnNotification(c) ==
  /\ Receive(c) /\ Rearm(c)
  /\ UNCHANGED <<tasks, state, sends, byes>>

OnByeByeRequest(c) ==
  /\ Receive(c)
  /\ armed' = armed \ {c}
  /\ byes' = IF phase[c] = "running" THEN byes \cup {c} ELSE byes
  /\ state' = "DISCONNECTED"
  /\ UNCHANGED <<tasks, sends>>

OnByeByeResponse(c) ==
  /\ Receive(c) /\ TriggerQuit(c)
  /\ armed' = armed \ {c}
  /\ state' = "DISCONNECTED"
  /\ UNCHANGED <<sends, byes>>

(* A receive or a send is rejected: onChannelError. *)
ReceiveFails(c) ==
  /\ c \in armed
  /\ armed' = armed \ {c}
  /\ TriggerQuit(c)
  /\ UNCHANGED <<active, isStopped, hub, accepts, rearming, monitorVars,
                 phase, stopping, sends, byes, msgs>>

(* Fault: one send both resolves and rejects. *)
SendCompletesTwice(c) ==
  /\ sends[c] > 0
  /\ sends' = [sends EXCEPT ![c] = @ - 2]
  /\ UNCHANGED tasks \/ TriggerQuit(c)
  /\ UNCHANGED <<active, isStopped, hub, accepts, rearming, monitorVars,
                 phase, stopping, armed, byes, msgs>>

SendCompletes(c) ==
  /\ sends[c] > 0
  /\ sends' = [sends EXCEPT ![c] = @ - 1]
  /\ UNCHANGED tasks \/ TriggerQuit(c)
  /\ UNCHANGED <<active, isStopped, hub, accepts, rearming, monitorVars,
                 phase, stopping, armed, byes, msgs>>

(* Fault: only a failed ShutdownResponse quits. *)
ByeCompletesQuietly(c) ==
  /\ c \in byes
  /\ byes' = byes \ {c}
  /\ UNCHANGED tasks \/ TriggerQuit(c)
  /\ UNCHANGED <<active, isStopped, hub, accepts, rearming, monitorVars,
                 phase, stopping, armed, sends, msgs>>

(* The ShutdownResponse is sent, or failed to be: both continuations quit. *)
ByeCompletes(c) ==
  /\ c \in byes
  /\ byes' = byes \ {c}
  /\ TriggerQuit(c)
  /\ UNCHANGED <<active, isStopped, hub, accepts, rearming, monitorVars,
                 phase, stopping, armed, sends, msgs>>

MessageStep(c) ==
  \/ OnVersionResponse(c) \/ OnVersionMismatch(c) \/ OnHandshakeError(c)
  \/ OnServiceDiscoveryRequest(c) \/ OnRequest(c) \/ OnNotification(c)
  \/ OnByeByeRequest(c) \/ OnByeByeResponse(c)

SessionStep(c) ==
  \/ SessionStart(c) \/ SessionStop(c) \/ MessageStep(c)
  \/ ReceiveFails(c) \/ SendCompletes(c) \/ ByeCompletes(c)

Outside ==
  \/ AcceptError \/ RearmAcceptor \/ HubFails \/ RequestStop
  \/ \E c \in Conn : HandleNewClient(c) \/ DeviceFound(c)

Next == ManagerStep \/ Outside \/ \E c \in Conn : SessionStep(c)

Spec == Init /\ [][Next]_vars

(* The io_service threads run what is posted, and a send handed to the     *)
(* transport completes.  Phones, and the application's stop, owe nothing.  *)
(* Fairness is strong where the bound MaxTasks, which the code has not,    *)
(* can disable for a while a step that would otherwise stay enabled.       *)
Fairness ==
  /\ WF_vars(ManagerStep)
  /\ SF_vars(RearmAcceptor)
  /\ \A c \in Conn : WF_vars(SessionStart(c)) /\ SF_vars(ByeCompletes(c))

FairSpec == Spec /\ Fairness

-----------------------------------------------------------------------------
(* Properties. *)

Queued(op) == \E i \in DOMAIN tasks : tasks[i].op = op
QuitQueued(c) == \E i \in DOMAIN tasks : tasks[i].op = "quit" /\ tasks[i].conn = c

(* Two phones are never projected at once: every session that was started  *)
(* and is not activeSession_ has had stop() called on it, whichever of     *)
(* start(), stop(), onAndroidAutoQuit() and aoapDeviceHandler() replaced   *)
(* it and however their strands interleave.                                *)
SingleSession ==
  \A c \in Conn : phase[c] \in {"created", "running"} /\ c # active
                    => c \in stopping

(* The head unit never goes deaf.  Once waitForUSBDevice() ran and until   *)
(* stop(), a WiFi phone finds an accept outstanding or about to be; and    *)
(* with no session, a plugged-in phone finds the hub armed (unless the hub *)
(* itself failed) or is in the queue already.  aoapDeviceHandler() gives   *)
(* the hub's only promise up even when it ignores the device, so it is the *)
(* end of the session, however it comes, that must arm the hub again.      *)
NeverDeaf ==
  ~isStopped /\ ~Queued("wait")
    => /\ accepts > 0 \/ rearming > 0 \/ Queued("listen")
       /\ active = NoConn => hub # "idle" \/ Queued("device")

(* A session that no longer listens to its phone is on its way out: a      *)
(* ShutdownResponse whose continuation quits, a quit already dispatched,   *)
(* or stop() called.  A handler that neither re-armed the receive nor quit *)
(* would leave a projection that looks alive and answers nothing.          *)
DeafSessionIsEnding ==
  \A c \in Conn : phase[c] = "running" /\ c \notin armed
                    => c \in byes \/ c \in stopping \/ QuitQueued(c)

(* The connection method shown to the user is that of a session being      *)
(* projected, and INDETERMINATE exactly when there is none: all writes of  *)
(* it come from the manager's strand.                                      *)
MethodTracksSession ==
  ~isStopped => (method = "INDETERMINATE" <=> active = NoConn)

(* As long as nobody stops the manager, the acceptor is armed again and    *)
(* again, after every client, failed accept and failed session.            *)
KeepsListening == []<>(accepts > 0 \/ isStopped)

Lifecycle == INSTANCE ProjectionLifecycle WITH
  serving <- active,
  ended <- stopping,
  broken <- {c \in Conn : phase[c] \in {"running", "stopped"} /\ c \notin armed}

(* However handlers interleave, sessions come and go as the abstract       *)
(* lifecycle allows: one at a time, each for one connection, ended once,   *)
(* and never resumed after stop().                                         *)
ImplementsSafety == Lifecycle!Safety

(* And a session whose control channel went dead is eventually ended: each *)
(* handler that does not receive again leads to a quit, and the manager    *)
(* gets to it.                                                             *)
ImplementsLifecycle == Lifecycle!Spec
=============================================================================
