---------------------------- MODULE AudioOutput ----------------------------
(***************************************************************************)
(* QtAudioOutput, shared by the AudioMediaSinkServices of all sessions,    *)
(* and the thread that owns its QAudioSink.                                *)
(*                                                                         *)
(* A service handles its channel on its strand: audio is written into the  *)
(* ring at once, while start, stop and suspend are signals queued to the   *)
(* sink's thread, which handles them in order.  The sink pulls from the    *)
(* ring while it is active.  stop() of a service is dispatched onto its    *)
(* strand, and the next session may begin before it has run there.         *)
(*                                                                         *)
(* The volume, the choice of the device and the service's replies, whose   *)
(* failure is only logged, are left out.                                   *)
(***************************************************************************)
EXTENDS Integers, Sequences

CONSTANTS
  Sessions,   \* how many sessions there are, one after the other
  Capacity,   \* chunks of audio the ring holds
  MaxChunks,  \* bound: chunks a phone sends in a session
  MaxSignals  \* bound: signals queued to the sink's thread

VARIABLES
  phase,           \* of each session's service
  receiving,       \* services with a receive() outstanding on the channel
  sent,            \* chunks received from the phone, per session
  signals,         \* startPlayback, stopPlayback, suspendPlayback, queued
  requested,       \* history: the signal emitted last
  playbackStarted, \* playbackStarted_
  sink,            \* audioOutput_, a QAudioSink: its state
  ring,            \* audioInternalBuffer_
  reopening        \* between close() and open() of the ring

serviceVars == <<phase, receiving, sent>>
sinkVars == <<playbackStarted, sink, reopening>>
requests == <<signals, requested>>
vars == <<serviceVars, requests, ring, sinkVars>>

Session == 1 .. Sessions
Signal == {"start", "stop", "suspend"}
Chunk == [session : Session, n : 1 .. MaxChunks]

Buffer == INSTANCE SequentialBuffer
  WITH MaxLen <- 1, MaxWritten <- 0, buffer <- ring, written <- 0, played <- 0

TypeOK ==
  /\ phase \in [Session -> {"idle", "started", "stopping", "stopped"}]
  /\ receiving \subseteq Session
  /\ sent \in [Session -> 0 .. MaxChunks]
  /\ signals \in Seq(Signal) /\ requested \in Signal \cup {"none"}
  /\ playbackStarted \in BOOLEAN
  /\ sink \in {"none", "stopped", "active", "suspended"}
  /\ ring \in Seq(Chunk) /\ Len(ring) <= Capacity
  /\ reopening \in BOOLEAN

Init ==
  /\ phase = [s \in Session |-> "idle"]
  /\ receiving = {}
  /\ sent = [s \in Session |-> 0]
  /\ signals = <<>> /\ requested = "none"
  /\ playbackStarted = FALSE
  /\ sink = "none"
  /\ ring = <<>>
  /\ reopening = FALSE

-----------------------------------------------------------------------------
(* The services. *)

Emit(signal) == /\ Len(signals) < MaxSignals
                /\ signals' = Append(signals, signal)
                /\ requested' = signal

ServiceStart(s) ==
  /\ phase[s] = "idle"
  /\ \A t \in Session : t < s => phase[t] \in {"stopping", "stopped"}
  /\ phase' = [phase EXCEPT ![s] = "started"]
  /\ receiving' = receiving \cup {s}
  /\ UNCHANGED <<sent, requests, ring, sinkVars>>

SessionStop(s) ==
  /\ phase[s] = "started"
  /\ phase' = [phase EXCEPT ![s] = "stopping"]
  /\ UNCHANGED <<receiving, sent, requests, ring, sinkVars>>

ServiceStop(s) ==
  /\ phase[s] = "stopping"
  /\ phase' = [phase EXCEPT ![s] = "stopped"]
  /\ Emit("stop")
  /\ UNCHANGED <<receiving, sent, ring, sinkVars>>

(* A message is handled.  The one that was on its way when the service was *)
(* stopped is handled all the same; a stopped messenger delivers no more.  *)
Receive(s) ==
  /\ s \in receiving
  /\ receiving' = IF phase[s] = "stopped" THEN receiving \ {s} ELSE receiving
  /\ UNCHANGED <<phase, sinkVars>>

OnMediaChannelStartIndication(s) ==
  /\ Receive(s) /\ Emit("start")
  /\ UNCHANGED <<sent, ring>>

OnMediaChannelStopIndication(s) ==
  /\ Receive(s) /\ Emit("suspend")
  /\ UNCHANGED <<sent, ring>>

(* Fault: the ring grows instead of dropping its oldest audio. *)
OnMediaUnbounded(s) ==
  /\ Receive(s)
  /\ sent[s] < MaxChunks
  /\ sent' = [sent EXCEPT ![s] = @ + 1]
  /\ ring' = Append(ring, [session |-> s, n |-> sent[s] + 1])
  /\ UNCHANGED requests

(* Audio: written into the ring, unless the ring is closed just then. *)
OnMediaWithTimestampIndication(s) ==
  /\ Receive(s)
  /\ sent[s] < MaxChunks
  /\ sent' = [sent EXCEPT ![s] = @ + 1]
  /\ IF reopening THEN UNCHANGED ring
     ELSE Buffer!WriteData(<<[session |-> s, n |-> sent[s] + 1]>>)
  /\ UNCHANGED requests

(* The channel fails: onChannelError logs, and nothing is received again. *)
ChannelFails(s) ==
  /\ s \in receiving
  /\ receiving' = receiving \ {s}
  /\ UNCHANGED <<phase, sent, requests, ring, sinkVars>>

-----------------------------------------------------------------------------
(* The sink's thread. *)

(* The thread starts, and the sink is created before any signal is taken. *)
CreateAudioOutput ==
  /\ sink = "none"
  /\ sink' = "stopped"
  /\ UNCHANGED <<serviceVars, requests, ring, playbackStarted, reopening>>

Handle(signal) ==
  /\ sink # "none" /\ ~reopening
  /\ signals # <<>> /\ Head(signals) = signal
  /\ signals' = Tail(signals)
  /\ UNCHANGED <<serviceVars, requested>>

(* start() of the sink the first time, and resume() after that, which only *)
(* a suspended sink obeys.                                                 *)
OnStartPlayback ==
  /\ Handle("start")
  /\ playbackStarted' = TRUE
  /\ sink' = IF ~playbackStarted \/ sink = "suspended" THEN "active" ELSE sink
  /\ UNCHANGED <<ring, reopening>>

(* Fault: playbackStarted_ is not reset. *)
OnStopPlaybackForgets ==
  /\ Handle("stop")
  /\ IF playbackStarted
     THEN sink' = "stopped" /\ reopening' = TRUE /\ ring' = <<>>
     ELSE UNCHANGED <<sink, reopening, ring>>
  /\ UNCHANGED playbackStarted

(* The sink stops, and the ring is closed ... *)
OnStopPlayback ==
  /\ Handle("stop")
  /\ IF playbackStarted
     THEN playbackStarted' = FALSE /\ sink' = "stopped" /\ reopening' = TRUE
     ELSE UNCHANGED sinkVars
  /\ UNCHANGED ring

(* ... and opened again, empty. *)
ReopenRing ==
  /\ reopening
  /\ reopening' = FALSE
  /\ Buffer!Open
  /\ UNCHANGED <<serviceVars, requests, playbackStarted, sink>>

(* suspend() of the sink, which only an active sink obeys. *)
OnSuspendPlayback ==
  /\ Handle("suspend")
  /\ sink' = IF sink = "active" THEN "suspended" ELSE sink
  /\ UNCHANGED <<ring, playbackStarted, reopening>>

(* The active sink pulls the next chunk from the ring. *)
Play ==
  /\ sink = "active" /\ ring # <<>>
  /\ Buffer!ReadData(1)
  /\ UNCHANGED <<serviceVars, requests, sinkVars>>

SinkThread ==
  \/ CreateAudioOutput \/ OnStartPlayback \/ OnStopPlayback
  \/ ReopenRing \/ OnSuspendPlayback

Next ==
  \/ SinkThread \/ Play
  \/ \E s \in Session :
       \/ ServiceStart(s) \/ SessionStop(s) \/ ServiceStop(s)
       \/ OnMediaChannelStartIndication(s) \/ OnMediaChannelStopIndication(s)
       \/ OnMediaWithTimestampIndication(s) \/ ChannelFails(s)

Spec == Init /\ [][Next]_vars

(* The sink's thread and the audio system run; phones owe nothing. *)
Fairness == WF_vars(SinkThread) /\ WF_vars(Play)

FairSpec == Spec /\ Fairness

-----------------------------------------------------------------------------
(* Properties. *)

(* The sink follows the last request, whatever was queued before it: when  *)
(* start() is the last that any session called, the sink gets to play,     *)
(* though sessions stopped it, suspended it or never started it before;    *)
(* and after stop() it falls silent, its ring open again for the next      *)
(* phone, be it playing, suspended or not even created when it was called. *)
LastRequestHolds ==
  /\ requested = "start" ~> sink = "active" \/ requested # "start"
  /\ requested = "stop"
       ~> (sink = "stopped" /\ ~reopening) \/ requested # "stop"
=============================================================================
