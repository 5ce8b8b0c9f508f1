----------------------------- MODULE Microphone -----------------------------
(***************************************************************************)
(* QtAudioInput, shared by the MediaSourceServices of all sessions.        *)
(*                                                                         *)
(* A service handles its channel, and the promises it gave away, on its    *)
(* strand.  Starting and stopping the microphone are signals queued to the *)
(* GUI thread.  Once it is started, the service reads a chunk, sends it,   *)
(* reads the next: a chain that lives in the pending read, in a            *)
(* continuation queued to the strand or in a send, and that nothing begins *)
(* again when it breaks.                                                   *)
(*                                                                         *)
(* The formats, the debug recordings and the replies are left out, and so  *)
(* are the signal readyRead and the call that read() queues, which do what *)
(* the poll timer does anyway.                                             *)
(***************************************************************************)
EXTENDS Naturals, Sequences

CONSTANTS
  Sessions,    \* how many sessions there are, one after the other
  MaxRequests  \* bounds: requests to open or close the microphone, of each
               \* session; a behaviour keeps to one of them

VARIABLES
  phase,       \* of each session's service
  receiving,   \* services with a receive() outstanding on the channel
  requests,    \* requests received so far, per session
  signals,     \* startRecording and stopRecording, queued to the GUI thread
  device,      \* ioDevice_ is not null
  opener,      \* history: the session that opened it last
  pollTimer,   \* pollTimer_ is not null
  timers,      \* poll timers that run
  readPromise, \* the session whose read is pending in readPromise_, or 0
  filter,      \* sessions that have samples in filterGraph_
  resampler,   \* sessions that have samples in swrCtx_
  opened,      \* StartPromises resolved, their continuation queued, per session
  data,        \* ReadPromises resolved, their continuation queued, per session
  sending,     \* chunks being sent, per session
  broken       \* history: sessions that had a read or a send fail

serviceVars == <<phase, receiving, requests>>
inputVars == <<device, opener, pollTimer, timers, filter, resampler>>
chainVars == <<readPromise, opened, data, sending, broken>>
vars == <<serviceVars, signals, inputVars, chainVars>>

Session == 1 .. Sessions
Signal == [op : {"start", "stop"}, session : Session]

TypeOK ==
  /\ phase \in [Session -> {"idle", "started", "stopping", "stopped"}]
  /\ receiving \subseteq Session
  /\ requests \in [Session -> Nat]
  /\ signals \in Seq(Signal)
  /\ device \in BOOLEAN /\ opener \in 0 .. Sessions
  /\ pollTimer \in BOOLEAN /\ timers \in Nat
  /\ readPromise \in 0 .. Sessions
  /\ filter \subseteq Session /\ resampler \subseteq Session
  /\ opened \in [Session -> Nat] /\ data \in [Session -> Nat]
  /\ sending \in [Session -> Nat]
  /\ broken \subseteq Session

Init ==
  /\ phase = [s \in Session |-> "idle"] /\ receiving = {}
  /\ requests = [s \in Session |-> 0]
  /\ signals = <<>>
  /\ device = FALSE /\ opener = 0
  /\ pollTimer = FALSE /\ timers = 0
  /\ readPromise = 0
  /\ filter = {} /\ resampler = {}
  /\ opened = [s \in Session |-> 0] /\ data = [s \in Session |-> 0]
  /\ sending = [s \in Session |-> 0]
  /\ broken = {}

Plus(count, s) == [count EXCEPT ![s] = @ + 1]
Less(count, s) == count[s] > 0 /\ count' = [count EXCEPT ![s] = @ - 1]

Emit(op, s) == signals' = Append(signals, [op |-> op, session |-> s])

-----------------------------------------------------------------------------
(* The service's channel. *)

ServiceStart(s) ==
  /\ phase[s] = "idle"
  /\ \A t \in Session : t < s => phase[t] \in {"stopping", "stopped"}
  /\ phase' = [phase EXCEPT ![s] = "started"]
  /\ receiving' = receiving \cup {s}
  /\ UNCHANGED <<requests, signals, inputVars, chainVars>>

SessionStop(s) ==
  /\ phase[s] = "started"
  /\ phase' = [phase EXCEPT ![s] = "stopping"]
  /\ UNCHANGED <<receiving, requests, signals, inputVars, chainVars>>

ServiceStop(s) ==
  /\ phase[s] = "stopping"
  /\ phase' = [phase EXCEPT ![s] = "stopped"]
  /\ Emit("stop", s)
  /\ UNCHANGED <<receiving, requests, inputVars, chainVars>>

(* The phone opens or closes the microphone.  A request on its way when    *)
(* the service was stopped is handled still, but none after it.            *)
OnMediaSourceOpenRequest(s) ==
  /\ s \in receiving
  /\ requests' = Plus(requests, s)
  /\ \E bound \in MaxRequests : \A t \in Session : requests'[t] <= bound[t]
  /\ \E op \in {"start", "stop"} : Emit(op, s)
  /\ receiving' = IF phase[s] = "stopped" THEN receiving \ {s} ELSE receiving
  /\ UNCHANGED <<phase, inputVars, chainVars>>

ChannelFails(s) ==
  /\ s \in receiving
  /\ receiving' = receiving \ {s}
  /\ UNCHANGED <<phase, requests, signals, inputVars, chainVars>>

-----------------------------------------------------------------------------
(* The chain of reads, on the service's strand. *)

(* read() rejects a promise while another one is pending or the device is  *)
(* closed; isActive(), asked just before, makes no difference to that.     *)
ReadMediaSource(s) ==
  readPromise' = IF device /\ readPromise = 0 THEN s ELSE readPromise

OnMediaSourceOpenSuccess(s) ==
  /\ Less(opened, s)
  /\ ReadMediaSource(s)
  /\ UNCHANGED <<serviceVars, signals, inputVars, data, sending, broken>>

OnMediaSourceDataReady(s) ==
  /\ Less(data, s)
  /\ sending' = Plus(sending, s)
  /\ UNCHANGED <<serviceVars, signals, inputVars>>
  /\ UNCHANGED <<readPromise, opened, broken>>

(* Fault: a chunk that was sent is not followed by a read. *)
SentAndDone(s) ==
  /\ Less(sending, s)
  /\ UNCHANGED <<serviceVars, signals, inputVars>>
  /\ UNCHANGED <<readPromise, opened, data, broken>>

(* Fault: a read of a closed device is settled with nothing, not rejected. *)
SentReadsNothing(s) ==
  /\ Less(sending, s)
  /\ ReadMediaSource(s)
  /\ data' = IF device THEN data ELSE Plus(data, s)
  /\ UNCHANGED <<serviceVars, signals, inputVars, opened, broken>>

(* The chunk was sent: the next is read. *)
Sent(s) ==
  /\ Less(sending, s)
  /\ ReadMediaSource(s)
  /\ UNCHANGED <<serviceVars, signals, inputVars, opened, data, broken>>

(* Or it was not: onChannelError logs. *)
SendFails(s) ==
  /\ Less(sending, s)
  /\ broken' = broken \cup {s}
  /\ UNCHANGED <<serviceVars, signals, inputVars, readPromise, opened, data>>

-----------------------------------------------------------------------------
(* The GUI thread. *)

Take(op, s) ==
  /\ signals # <<>> /\ Head(signals) = [op |-> op, session |-> s]
  /\ signals' = Tail(signals)
  /\ UNCHANGED serviceVars

(* The source starts, which gives a new device, or fails to.  A poll timer *)
(* that runs already is left to run.                                       *)
OnStartRecording(s) ==
  /\ Take("start", s)
  /\ \/ /\ device' = TRUE /\ opener' = s
        /\ pollTimer' = TRUE /\ timers' = timers + 1
        /\ opened' = Plus(opened, s)
     \/ device' = FALSE /\ UNCHANGED <<opener, pollTimer, timers, opened>>
  /\ UNCHANGED <<readPromise, filter, resampler>>
  /\ UNCHANGED <<data, sending, broken>>

(* Fault: a timer is stopped though there is none. *)
OnStopRecordingUnchecked(s) ==
  /\ Take("stop", s)
  /\ timers' = timers - 1 /\ pollTimer' = FALSE /\ readPromise' = 0
  /\ device' = FALSE /\ resampler' = {}
  /\ UNCHANGED <<opener, filter, opened, data, sending, broken>>

(* The timer is stopped, the read rejected, the device closed; of what was *)
(* recorded the resampler is emptied.                                      *)
OnStopRecording(s) ==
  /\ Take("stop", s)
  /\ timers' = IF pollTimer THEN timers - 1 ELSE timers
  /\ pollTimer' = FALSE /\ readPromise' = 0
  /\ device' = FALSE /\ resampler' = {}
  /\ UNCHANGED <<opener, filter, opened, data, sending, broken>>

Reading == timers > 0 /\ device /\ readPromise # 0

(* A poll finds samples: they go through the filter and the resampler to   *)
(* the service, and some remain in either.                                 *)
Deliver ==
  /\ Reading
  /\ data' = Plus(data, readPromise) /\ readPromise' = 0
  /\ filter' \in {{}, filter, filter \cup {opener}}
  /\ resampler' \in {{}, resampler, resampler \cup {opener}}
  /\ UNCHANGED <<serviceVars, signals, device, opener, pollTimer, timers>>
  /\ UNCHANGED <<opened, sending, broken>>

(* Or the filter keeps them all, and the read remains pending. *)
KeepInFilter ==
  /\ Reading
  /\ filter' = filter \cup {opener}
  /\ UNCHANGED <<serviceVars, signals, device, opener, pollTimer, timers>>
  /\ UNCHANGED <<resampler, chainVars>>

(* Or the device or the resampler fails, and the read is rejected. *)
ReadFails ==
  /\ Reading
  /\ broken' = broken \cup {readPromise} /\ readPromise' = 0
  /\ UNCHANGED <<serviceVars, signals, inputVars, opened, data, sending>>

GuiThread == \E s \in Session : OnStartRecording(s) \/ OnStopRecording(s)

Strand(s) ==
  \/ OnMediaSourceOpenSuccess(s) \/ OnMediaSourceDataReady(s)
  \/ Sent(s) \/ SendFails(s)

Next ==
  \/ GuiThread \/ Deliver \/ KeepInFilter \/ ReadFails
  \/ \E s \in Session :
       \/ ServiceStart(s) \/ SessionStop(s) \/ ServiceStop(s) \/ Strand(s)
       \/ OnMediaSourceOpenRequest(s) \/ ChannelFails(s)

Spec == Init /\ [][Next]_vars

(* The threads run, sends complete, and a microphone that is open gives    *)
(* samples, though the filter keeps some of them.                          *)
Fairness ==
  /\ WF_vars(GuiThread) /\ WF_vars(Deliver \/ ReadFails)
  /\ \A s \in Session : WF_vars(Strand(s))

FairSpec == Spec /\ Fairness

-----------------------------------------------------------------------------
(* Properties. *)

(* A microphone that is open records for the session that opened it: its   *)
(* chain of reads goes on, though the phone opened it twice, closed and    *)
(* opened it in between two reads, or both.  Only a read or a send that    *)
(* failed stops it.  (Once another session has begun this is not so.)      *)
Alone(s) == \A t \in Session \ {s} : phase[t] = "idle"
FlowingWhileOpen ==
  device /\ opener \notin broken /\ Alone(opener)
    => \/ readPromise = opener
       \/ opened[opener] + data[opener] + sending[opener] > 0

(* A read of an open microphone comes to an end, with no help from the     *)
(* device's readyRead.  And when the microphone is stopped, stop having    *)
(* been the last request, the chain of every session dies out: no session  *)
(* goes on sending.                                                        *)
ChainsEnd ==
  /\ readPromise # 0 /\ device ~> readPromise = 0 \/ ~device
  /\ (signals = <<>> /\ ~device)
       ~> (device \/ signals # <<>>
             \/ \A s \in Session : opened[s] + data[s] + sending[s] = 0)
=============================================================================
