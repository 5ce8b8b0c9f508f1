---------------------------- MODULE VideoOutput ----------------------------
(***************************************************************************)
(* QtVideoOutput, shared by the VideoMediaSinkServices of all sessions,    *)
(* and its decode thread.                                                  *)
(*                                                                         *)
(* Sessions follow one another.  The service of a session handles its      *)
(* channel on a strand of its own; stop() is dispatched onto that strand,  *)
(* and the next session may start before it has run there.  Each section   *)
(* under mutex_ is one step.  The condition variable is modelled as it is: *)
(* a thread asleep in cv_.wait() looks at its predicate again only after a *)
(* notify, or spuriously, which nobody may count on.                       *)
(*                                                                         *)
(* The pictures themselves, the QML sink they go to and the replies of the *)
(* service (whose failure is only logged) are left out.                    *)
(***************************************************************************)
EXTENDS Naturals, Sequences

CONSTANTS
  Sessions,   \* how many sessions there are, one after the other
  MaxPackets  \* bound: video packets the phone sends in a session

VARIABLES
  phase,          \* of each session's service: started, asked to stop, stopped
  receiving,      \* services with a receive() outstanding on the channel
  sent,           \* packets received from the phone, per session
  packetQueue,    \* packetQueue_
  flushRequested, \* flushRequested_
  stopRequested,  \* stopRequested_
  thread,         \* where the decode thread is
  current,        \* currentPacket, outside the lock
  fed             \* the last packet the codec was given since it was flushed

serviceVars == <<phase, receiving, sent>>
sharedVars == <<packetQueue, flushRequested, stopRequested>>
decoderVars == <<thread, current, fed>>
vars == <<serviceVars, sharedVars, decoderVars>>

Session == 1 .. Sessions
Packet == [session : Session, n : 1 .. MaxPackets]
NoPacket == [session |-> 0, n |-> 0]

TypeOK ==
  /\ phase \in [Session -> {"idle", "started", "stopping", "stopped"}]
  /\ receiving \subseteq Session
  /\ sent \in [Session -> 0 .. MaxPackets]
  /\ packetQueue \in Seq(Packet)
  /\ flushRequested \in BOOLEAN
  /\ stopRequested \in BOOLEAN
  /\ thread \in {"starting", "ready", "asleep", "decoding", "exited"}
  /\ current \in Packet \cup {NoPacket}
  /\ fed \in Packet \cup {NoPacket}

Init ==
  /\ phase = [s \in Session |-> "idle"]
  /\ receiving = {}
  /\ sent = [s \in Session |-> 0]
  /\ packetQueue = <<>>
  /\ flushRequested = FALSE
  /\ stopRequested = FALSE
  /\ thread = "starting"
  /\ current = NoPacket
  /\ fed = NoPacket

-----------------------------------------------------------------------------
(* The services, and the output's methods they call under the mutex. *)

(* notify_one() and notify_all(): there is one thread to wake. *)
Notify == thread' = IF thread = "asleep" THEN "ready" ELSE thread

(* The session is started: the service starts to receive. *)
ServiceStart(s) ==
  /\ phase[s] = "idle" /\ ~stopRequested
  /\ \A t \in Session : t < s => phase[t] \in {"stopping", "stopped"}
  /\ phase' = [phase EXCEPT ![s] = "started"]
  /\ receiving' = receiving \cup {s}
  /\ UNCHANGED <<sent, sharedVars, decoderVars>>

(* The session is stopped: stop() is dispatched to the service's strand. *)
SessionStop(s) ==
  /\ phase[s] = "started"
  /\ phase' = [phase EXCEPT ![s] = "stopping"]
  /\ UNCHANGED <<receiving, sent, sharedVars, decoderVars>>

(* stop() runs there: videoOutput_->stop(). *)
ServiceStop(s) ==
  /\ phase[s] = "stopping" /\ ~stopRequested
  /\ phase' = [phase EXCEPT ![s] = "stopped"]
  /\ packetQueue' = <<>>
  /\ flushRequested' = TRUE
  /\ Notify
  /\ UNCHANGED <<receiving, sent, stopRequested, current, fed>>

(* Fault: write() queues the packet and wakes nobody. *)
OnMediaSilently(s) ==
  /\ s \in receiving /\ sent[s] < MaxPackets /\ ~stopRequested
  /\ sent' = [sent EXCEPT ![s] = @ + 1]
  /\ packetQueue' = Append(packetQueue, [session |-> s, n |-> sent[s] + 1])
  /\ receiving' = IF phase[s] = "stopped" THEN receiving \ {s} ELSE receiving
  /\ UNCHANGED <<phase, flushRequested, stopRequested, decoderVars>>

(* A packet arrives: videoOutput_->write(), an acknowledgement, receive(). *)
(* One that was on its way when stop() ran is written all the same, but a  *)
(* messenger that has been stopped delivers no more after it.              *)
OnMediaWithTimestampIndication(s) ==
  /\ s \in receiving /\ sent[s] < MaxPackets /\ ~stopRequested
  /\ sent' = [sent EXCEPT ![s] = @ + 1]
  /\ packetQueue' = Append(packetQueue, [session |-> s, n |-> sent[s] + 1])
  /\ receiving' = IF phase[s] = "stopped" THEN receiving \ {s} ELSE receiving
  /\ Notify
  /\ UNCHANGED <<phase, flushRequested, stopRequested, current, fed>>

(* The channel fails: onChannelError logs, and nothing is received again. *)
ChannelFails(s) ==
  /\ s \in receiving
  /\ receiving' = receiving \ {s}
  /\ UNCHANGED <<phase, sent, sharedVars, decoderVars>>

(* Fault: the destructor sets its flag without waking the thread. *)
DestroySilently ==
  /\ ~stopRequested
  /\ stopRequested' = TRUE
  /\ UNCHANGED <<serviceVars, packetQueue, flushRequested, decoderVars>>

(* ~QtVideoOutput, when the program ends: it joins the decode thread. *)
Destroy ==
  /\ ~stopRequested
  /\ stopRequested' = TRUE
  /\ Notify
  /\ UNCHANGED <<serviceVars, packetQueue, flushRequested, current, fed>>

-----------------------------------------------------------------------------
(* The decode thread. *)

(* The decoder is found and opened, or decodeLoop() returns. *)
OpenCodec ==
  /\ thread = "starting"
  /\ thread' \in {"ready", "exited"}
  /\ UNCHANGED <<serviceVars, sharedVars, current, fed>>

Exit ==
  /\ thread = "ready" /\ stopRequested
  /\ thread' = "exited"
  /\ UNCHANGED <<serviceVars, sharedVars, current, fed>>

(* cv_.wait(): nothing to do. *)
Wait ==
  /\ thread = "ready" /\ ~stopRequested
  /\ packetQueue = <<>> /\ ~flushRequested
  /\ thread' = "asleep"
  /\ UNCHANGED <<serviceVars, sharedVars, current, fed>>

SpuriousWakeup ==
  /\ thread = "asleep"
  /\ thread' = "ready"
  /\ UNCHANGED <<serviceVars, sharedVars, current, fed>>

(* The reset stop() asked for: the queue and the codec are emptied. *)
Flush ==
  /\ thread = "ready" /\ ~stopRequested /\ flushRequested
  /\ flushRequested' = FALSE
  /\ packetQueue' = <<>>
  /\ fed' = NoPacket
  /\ UNCHANGED <<serviceVars, stopRequested, thread, current>>

(* Fault: the newest packet is taken first. *)
TakeNewest ==
  /\ thread = "ready" /\ ~stopRequested /\ ~flushRequested
  /\ packetQueue # <<>>
  /\ current' = packetQueue[Len(packetQueue)]
  /\ packetQueue' = SubSeq(packetQueue, 1, Len(packetQueue) - 1)
  /\ thread' = "decoding"
  /\ UNCHANGED <<serviceVars, flushRequested, stopRequested, fed>>

Take ==
  /\ thread = "ready" /\ ~stopRequested /\ ~flushRequested
  /\ packetQueue # <<>>
  /\ current' = Head(packetQueue)
  /\ packetQueue' = Tail(packetQueue)
  /\ thread' = "decoding"
  /\ UNCHANGED <<serviceVars, flushRequested, stopRequested, fed>>

(* Without the lock: the packet goes to the codec, frames to the screen. *)
Decode ==
  /\ thread = "decoding"
  /\ fed' = current
  /\ current' = NoPacket
  /\ thread' = "ready"
  /\ UNCHANGED <<serviceVars, sharedVars>>

DecodeLoop == OpenCodec \/ Exit \/ Wait \/ Flush \/ Take \/ Decode

Next ==
  \/ DecodeLoop \/ SpuriousWakeup \/ Destroy
  \/ \E s \in Session :
       \/ ServiceStart(s) \/ SessionStop(s) \/ ServiceStop(s)
       \/ OnMediaWithTimestampIndication(s) \/ ChannelFails(s)

Spec == Init /\ [][Next]_vars

(* A thread that is not asleep runs.  Phones and users owe nothing. *)
Fairness == WF_vars(DecodeLoop)

FairSpec == Spec /\ Fairness

-----------------------------------------------------------------------------
(* Properties. *)

Queued(p) == \E i \in DOMAIN packetQueue : packetQueue[i] = p

(* The decode thread is never left asleep with a packet queued, a flush    *)
(* asked for or the program ending: every change under the mutex that      *)
(* makes its predicate true also wakes it.                                 *)
NoLostWakeup ==
  thread = "asleep" => packetQueue = <<>> /\ ~flushRequested /\ ~stopRequested

(* Two packets of one session are decoded in the order the phone sent      *)
(* them, with nothing decoded twice, through any number of flushes.        *)
DecodedInOrder ==
  LET ahead == IF current = NoPacket THEN fed ELSE current
  IN  /\ \A i \in DOMAIN packetQueue :
           packetQueue[i].session = ahead.session => packetQueue[i].n > ahead.n
      /\ \A i, j \in DOMAIN packetQueue :
           i < j /\ packetQueue[i].session = packetQueue[j].session
             => packetQueue[i].n < packetQueue[j].n
      /\ fed.session = current.session => current = NoPacket \/ fed.n < current.n

(* A packet that was written is decoded or flushed, unless there is no     *)
(* decoder at all; write(), the flush and the thread's wait never leave    *)
(* one in the queue for good while the program runs; and the destructor's  *)
(* join() returns.                                                         *)
PacketsMoveOn ==
  /\ \A p \in Packet : Queued(p) ~> (~Queued(p) \/ thread = "exited")
  /\ stopRequested ~> (thread = "exited")

(* The codec starts each session clean and from its first packet, as       *)
(* decodeLoop() says of its reset: a packet of a session nobody stopped is *)
(* given to a codec that since its last flush has seen the packet before   *)
(* it, or nothing if it is the session's first.                            *)
CleanStart ==
  current # NoPacket /\ phase[current.session] = "started" =>
    fed = IF current.n = 1 THEN NoPacket ELSE [current EXCEPT !.n = @ - 1]
=============================================================================
