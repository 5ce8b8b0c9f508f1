------------------------------ MODULE Outputs ------------------------------
(***************************************************************************)
(* What comes from the phone: the ring of the audio (SequentialBuffer,     *)
(* which is extended), VideoOutput and AudioOutput.                        *)
(*                                                                         *)
(* The three share no state: in openauto they are separate objects, with   *)
(* threads and channels of their own.  What interleaving them would reach  *)
(* is what each reaches alone, so a behaviour picks the one it exercises   *)
(* in its initial state and leaves the others as they began.               *)
(***************************************************************************)
EXTENDS SequentialBuffer

CONSTANTS
  Sessions,   \* how many phones there are, one after the other
  MaxPackets, \* bound: video packets of each
  RingChunks, \* chunks of audio the ring of AudioOutput holds
  MaxChunks,  \* bound: chunks of audio of each phone
  MaxSignals  \* bound: requests to the sink at a time

ASSUME OutputsAssumption ==
  /\ Sessions \in Nat /\ MaxPackets \in Nat /\ MaxChunks \in Nat
  /\ RingChunks \in Nat \ {0} /\ MaxSignals \in Nat

VARIABLES
  exercised, \* what moves in this behaviour
  videoPhase, videoReceiving, videoSent,
  packetQueue, flushRequested, stopRequested, thread, current, fed,
  audioPhase, audioReceiving, audioSent, audioSignals, audioRequested,
  playbackStarted, sink, ring, reopening

Video == INSTANCE VideoOutput WITH
  phase <- videoPhase, receiving <- videoReceiving, sent <- videoSent

Audio == INSTANCE AudioOutput WITH
  Capacity <- RingChunks,
  phase <- audioPhase, receiving <- audioReceiving, sent <- audioSent,
  signals <- audioSignals, requested <- audioRequested

ringVars == <<buffer, written, played>>
videoVars == <<videoPhase, videoReceiving, videoSent, packetQueue,
  flushRequested, stopRequested, thread, current, fed>>
audioVars == <<audioPhase, audioReceiving, audioSent, audioSignals,
  audioRequested, playbackStarted, sink, ring, reopening>>
OutputVars == <<exercised, ringVars, videoVars, audioVars>>

OutputsInit ==
  /\ exercised \in {"ring", "video", "audio"}
  /\ Init /\ Video!Init /\ Audio!Init

OutputsNext ==
  /\ UNCHANGED exercised
  /\ \/ /\ exercised = "ring" /\ Next
        /\ UNCHANGED <<videoVars, audioVars>>
     \/ /\ exercised = "video" /\ Video!Next
        /\ UNCHANGED <<ringVars, audioVars>>
     \/ /\ exercised = "audio" /\ Audio!Next
        /\ UNCHANGED <<ringVars, videoVars>>

(* The threads that run in what moves.  The decode thread and the sink's   *)
(* have something to do from the beginning, so the others are excused.     *)
OutputsSpec ==
  /\ OutputsInit /\ [][OutputsNext]_OutputVars
  /\ WF_videoVars(exercised = "video" /\ Video!DecodeLoop)
  /\ WF_audioVars(exercised = "audio" /\ Audio!SinkThread)
  /\ WF_audioVars(exercised = "audio" /\ Audio!Play)

(* The type invariants of the three. *)
OutputsTypeOK ==
  /\ exercised \in {"ring", "video", "audio"}
  /\ TypeOK /\ Video!TypeOK /\ Audio!TypeOK

-----------------------------------------------------------------------------
(* The properties of QtVideoOutput, as VideoOutput states them. *)

(* The decode thread is not left asleep with something to do.              *)
NoLostWakeup == Video!NoLostWakeup

(* Packets of a session are decoded in the order they were received.       *)
DecodedInOrder == Video!DecodedInOrder

(* A packet that was written is decoded or flushed.                        *)
PacketsMoveOn == Video!PacketsMoveOn

(* The properties of QtAudioOutput, as AudioOutput states them. *)

(* The sink plays or is silent as the last request has it.                *)
LastRequestHolds == Audio!LastRequestHolds
=============================================================================
