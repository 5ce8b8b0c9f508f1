-------------------------- MODULE SequentialBuffer --------------------------
(***************************************************************************)
(* The ring between the thread that receives audio from the phone and the  *)
(* one that plays it: a circular buffer that drops its oldest data when it *)
(* is full.  Each method holds m_mutex, so each is one step.               *)
(*                                                                         *)
(* Samples are numbered in the order they are written: the specification   *)
(* at the end writes 1, 2, 3, ... and AudioOutput, which instantiates this *)
(* module for its buffer, writes chunks of its own.                        *)
(***************************************************************************)
EXTENDS Integers, Sequences

CONSTANTS
  Capacity,   \* MAX_BUFFER_SIZE, in samples
  MaxLen,     \* bound: samples written or read at once
  MaxWritten  \* bound: samples written in all

ASSUME CapacityAssumption == Capacity \in Nat \ {0}
ASSUME MaxLenAssumption == MaxLen \in Nat \ {0}
ASSUME MaxWrittenAssumption == MaxWritten \in Nat

VARIABLES
  buffer,   \* m_buffer
  written,  \* the number of the last sample written
  played    \* the number of the last sample read

vars == <<buffer, written, played>>

TypeOK ==
  /\ buffer \in Seq(1 .. MaxWritten)
  /\ written \in 0 .. MaxWritten
  /\ played \in 0 .. MaxWritten

Init == buffer = <<>> /\ written = 0 /\ played = 0

-----------------------------------------------------------------------------
Lesser(a, b) == IF a < b THEN a ELSE b

(* circular_buffer::erase_begin(n). *)
EraseBegin(s, n) == SubSeq(s, n + 1, Len(s))

(* circular_buffer::insert at the end: the newest Capacity elements remain. *)
Insert(s, data) ==
  LET all == s \o data
  IN  EraseBegin(all, IF Len(all) > Capacity THEN Len(all) - Capacity ELSE 0)

(* Fault: one sample too many makes room. *)
MakeRoomTooMuch(len) ==
  LET space == Capacity - Len(buffer)
  IN  IF len >= space THEN EraseBegin(buffer, Lesser(len - space + 1, Len(buffer)))
      ELSE buffer

(* The oldest data goes when len samples do not fit. *)
MakeRoom(len) ==
  LET space == Capacity - Len(buffer)
  IN  IF len > space THEN EraseBegin(buffer, Lesser(len - space, Len(buffer)))
      ELSE buffer

(* Fault: the new samples go before those that wait. *)
WriteInFront(data) == buffer' = Insert(data, MakeRoom(Len(data)))

WriteData(data) == buffer' = Insert(MakeRoom(Len(data)), data)

(* What a read of at most maxlen samples returns. *)
Readable(maxlen) == SubSeq(buffer, 1, Lesser(maxlen, Len(buffer)))

ReadData(maxlen) == buffer' = EraseBegin(buffer, Lesser(maxlen, Len(buffer)))

Open == buffer' = <<>>

-----------------------------------------------------------------------------
Write(len) ==
  /\ written + len <= MaxWritten
  /\ WriteData([i \in 1 .. len |-> written + i])
  /\ written' = written + len
  /\ UNCHANGED played

Read(maxlen) ==
  /\ buffer # <<>>
  /\ ReadData(maxlen)
  /\ played' = Readable(maxlen)[Len(Readable(maxlen))]
  /\ UNCHANGED written

(* QtAudioOutput opens the buffer again whenever playback stops. *)
Reopen == Open /\ UNCHANGED <<written, played>>

Next == Reopen \/ \E len \in 1 .. MaxLen : Write(len) \/ Read(len)

Spec == Init /\ [][Next]_vars

-----------------------------------------------------------------------------
(* Whatever was dropped, what waits to be played is the newest audio,      *)
(* without a gap, in the order the phone sent it.                          *)
NewestInOrder ==
  /\ Len(buffer) <= Capacity
  /\ \A i \in DOMAIN buffer : buffer[i] = written - Len(buffer) + i

(* What is read was never read before: playback does not stutter or jump   *)
(* back, though writes and reads move both ends of the ring.               *)
NeverPlayedAgain == \A i \in DOMAIN buffer : played < buffer[i]

(* Audio is dropped only when there is no room for it, and no more than    *)
(* has to be: a write that fits, to the last sample, loses nothing.        *)
DropsNoMoreThanNeeded ==
  [][written' > written =>
       Len(buffer') = Lesser(Capacity, Len(buffer) + (written' - written))]_vars
=============================================================================
