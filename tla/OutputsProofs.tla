---------------------------- MODULE OutputsProofs ----------------------------
(***************************************************************************)
(* Machine-checked proofs about Outputs: about the ring of the audio, for  *)
(* every capacity and every sequence of reads and writes, and about the    *)
(* video and the audio output, for any number of phones and of what they   *)
(* send.                                                                   *)
(*                                                                         *)
(* A step is one of the three parts and leaves the other two alone, so the *)
(* inductive invariant, OutputsInv, is that of each part, and each is      *)
(* proved of the steps of its part alone.                                  *)
(***************************************************************************)
EXTENDS Outputs, SequenceTheorems, TLAPS

-----------------------------------------------------------------------------
(* The ring. *)

(* The samples up to the one numbered last, without a gap. *)
Run(s, last) == \A i \in 1 .. Len(s) : s[i] = last - Len(s) + i

Sample == 1 .. MaxWritten

(* Erasing the oldest samples of a run leaves a run. *)
LEMMA RunErased ==
  ASSUME NEW s \in Seq(Sample), NEW last \in Int, Run(s, last),
         NEW n \in Nat, n <= Len(s)
  PROVE  /\ EraseBegin(s, n) \in Seq(Sample)
         /\ Len(EraseBegin(s, n)) = Len(s) - n
         /\ \A i \in 1 .. (Len(s) - n) : EraseBegin(s, n)[i] = s[n + i]
         /\ Run(EraseBegin(s, n), last)
<1>1. /\ EraseBegin(s, n) \in Seq(Sample)
      /\ Len(EraseBegin(s, n)) = Len(s) - n
      /\ \A i \in 1 .. (Len(s) - n) : EraseBegin(s, n)[i] = s[n + i]
  BY DEF EraseBegin
<1>2. QED BY <1>1 DEF Run

(* A run and the samples that follow it are a run. *)
LEMMA RunAppended ==
  ASSUME NEW s \in Seq(Sample), NEW data \in Seq(Sample), NEW last \in Int,
         Run(s, last), Run(data, last + Len(data))
  PROVE  /\ s \o data \in Seq(Sample)
         /\ Len(s \o data) = Len(s) + Len(data)
         /\ Run(s \o data, last + Len(data))
<1>1. s \o data \in Seq(Sample) /\ Len(s \o data) = Len(s) + Len(data)
  OBVIOUS
<1>2. ASSUME NEW i \in 1 .. Len(s)
      PROVE  (s \o data)[i] = last + Len(data) - Len(s \o data) + i
  BY <1>1 DEF Run
<1>3. ASSUME NEW i \in (Len(s) + 1) .. (Len(s) + Len(data))
      PROVE  (s \o data)[i] = last + Len(data) - Len(s \o data) + i
  <2>1. (s \o data)[i] = data[i - Len(s)] /\ i - Len(s) \in 1 .. Len(data)
    OBVIOUS
  <2>2. QED BY <1>1, <2>1 DEF Run
<1>4. QED BY <1>1, <1>2, <1>3 DEF Run

(* A write of the samples after the last one written. *)
LEMMA WriteKeeps ==
  ASSUME TypeOK, NewestInOrder, NEW len \in 1 .. MaxLen, Write(len)
  PROVE  /\ TypeOK' /\ NewestInOrder'
         /\ Len(buffer') = Lesser(Capacity, Len(buffer) + len)
<1> DEFINE data == [i \in 1 .. len |-> written + i]
           space == Capacity - Len(buffer)
           drop == IF len > space THEN Lesser(len - space, Len(buffer)) ELSE 0
           room == EraseBegin(buffer, drop)
           all == room \o data
           rest == IF Len(all) > Capacity THEN Len(all) - Capacity ELSE 0
<1>1. len \in Nat \ {0} /\ written \in Nat /\ written' = written + len
      /\ written' \in 0 .. MaxWritten /\ played' = played
  BY MaxLenAssumption, MaxWrittenAssumption DEF TypeOK, Write
<1>2. data \in Seq(Sample) /\ Len(data) = len /\ Run(data, written + len)
  BY <1>1, MaxWrittenAssumption DEF Run, Sample
<1>3. /\ buffer \in Seq(Sample) /\ Len(buffer) \in Nat
      /\ Len(buffer) <= Capacity
      /\ Run(buffer, written)
  BY DEF TypeOK, NewestInOrder, Run, Sample
<1>4. drop \in Nat /\ drop <= Len(buffer)
      /\ (drop > 0 => Len(buffer) - drop + len >= Capacity)
  BY <1>1, <1>3, CapacityAssumption DEF Lesser
<1>5. buffer' = EraseBegin(all, rest)
  <2>1. EraseBegin(buffer, 0) = buffer
    BY <1>3 DEF EraseBegin
  <2>2. room = MakeRoom(len)
    BY <2>1 DEF MakeRoom
  <2>3. QED BY <1>2, <2>2 DEF Write, WriteData, Insert
<1> HIDE DEF data, drop, room
<1>6. /\ room \in Seq(Sample) /\ Len(room) = Len(buffer) - drop
      /\ Run(room, written)
  BY <1>1, <1>3, <1>4, RunErased DEF room
<1>7. all \in Seq(Sample) /\ Len(all) = Len(buffer) - drop + len
      /\ Run(all, written + len)
  <2>1. Run(data, written + Len(data)) /\ written \in Int
    BY <1>1, <1>2
  <2>2. /\ room \o data \in Seq(Sample)
        /\ Len(room \o data) = Len(room) + Len(data)
        /\ Run(room \o data, written + Len(data))
    BY <1>2, <1>6, <2>1, RunAppended, Zenon
  <2>3. QED BY <1>2, <1>6, <2>2
<1>8. rest \in Nat /\ rest <= Len(all)
      /\ Len(all) - rest = Lesser(Capacity, Len(all))
  BY <1>7, CapacityAssumption DEF Lesser
<1> HIDE DEF all, rest
<1>9. buffer' \in Seq(Sample) /\ Len(buffer') = Lesser(Capacity, Len(all))
      /\ Run(buffer', written')
  BY <1>1, <1>5, <1>7, <1>8, RunErased
<1>10. Lesser(Capacity, Len(all)) = Lesser(Capacity, Len(buffer) + len)
  <2>1. Lesser(Capacity, Len(buffer) - drop + len)
          = Lesser(Capacity, Len(buffer) + len)
    <3>1. Len(buffer) \in Nat /\ drop \in Nat /\ drop <= Len(buffer)
          /\ len \in Nat /\ Capacity \in Nat
          /\ (drop > 0 => Len(buffer) - drop + len >= Capacity)
      BY <1>1, <1>3, <1>4, CapacityAssumption
    <3>2. QED BY <3>1 DEF Lesser
  <2>2. QED BY <1>7, <2>1
<1>11. TypeOK'
  BY <1>1, <1>9 DEF TypeOK, Sample
<1>12. NewestInOrder'
  <2>1. Lesser(Capacity, Len(all)) <= Capacity
    BY <1>7, CapacityAssumption DEF Lesser
  <2>2. DOMAIN buffer' = 1 .. Len(buffer')
    BY <1>9
  <2>3. QED BY <1>9, <2>1, <2>2 DEF NewestInOrder, Run
<1>13. QED BY <1>9, <1>10, <1>11, <1>12

(* A read takes the oldest samples, and the last it takes is played. *)
LEMMA ReadKeeps ==
  ASSUME TypeOK, NewestInOrder, NEW maxlen \in 1 .. MaxLen, Read(maxlen)
  PROVE  TypeOK' /\ NewestInOrder' /\ NeverPlayedAgain'
<1> DEFINE n == Lesser(maxlen, Len(buffer))
<1>1. /\ buffer \in Seq(Sample) /\ Len(buffer) \in Nat \ {0}
      /\ Len(buffer) <= Capacity /\ written' = written /\ written \in Int
      /\ Run(buffer, written)
  BY MaxWrittenAssumption DEF TypeOK, NewestInOrder, Read, Run, Sample
<1>2. n \in Nat /\ 1 <= n /\ n <= Len(buffer)
  BY <1>1, MaxLenAssumption DEF Lesser
<1>3. buffer' = EraseBegin(buffer, n) /\ played' = buffer[n]
  BY <1>1, <1>2 DEF Read, ReadData, Readable
<1> HIDE DEF n
<1>4. /\ buffer' \in Seq(Sample) /\ Len(buffer') = Len(buffer) - n
      /\ \A i \in 1 .. (Len(buffer) - n) : buffer'[i] = buffer[n + i]
      /\ Run(buffer', written)
  BY <1>1, <1>2, <1>3, RunErased
<1>5. TypeOK'
  BY <1>1, <1>2, <1>3, <1>4, MaxWrittenAssumption DEF TypeOK, Sample, Read
<1>6. NewestInOrder'
  <2>1. Len(buffer') \in Nat /\ Len(buffer') <= Capacity
    BY <1>1, <1>2, <1>4, CapacityAssumption
  <2>2. DOMAIN buffer' = 1 .. Len(buffer')
    BY <1>4
  <2>3. \A i \in 1 .. Len(buffer') : buffer'[i] = written - Len(buffer') + i
    BY <1>4 DEF Run
  <2>4. written' = written
    BY <1>1
  <2>5. QED BY <2>1, <2>2, <2>3, <2>4 DEF NewestInOrder
<1>7. NeverPlayedAgain'
  <2> SUFFICES ASSUME NEW i \in 1 .. Len(buffer') PROVE played' < buffer'[i]
    BY <1>4 DEF NeverPlayedAgain
  <2>1. buffer[n] = written - Len(buffer) + n
    BY <1>1, <1>2 DEF Run
  <2>2. buffer'[i] = written - (Len(buffer) - n) + i
    BY <1>4 DEF Run
  <2>3. QED BY <1>1, <1>2, <1>3, <1>4, <2>1, <2>2
<1>8. QED BY <1>5, <1>6, <1>7

(* A write leaves what was played behind. *)
LEMMA WritePlays ==
  ASSUME TypeOK, NewestInOrder, NeverPlayedAgain, played <= written,
         NEW len \in 1 .. MaxLen, Write(len)
  PROVE  NeverPlayedAgain' /\ played' <= written'
<1>1. /\ written \in Nat /\ played \in Nat /\ len \in Nat
      /\ written' = written + len /\ played' = played
      /\ Len(buffer) \in Nat /\ Len(buffer') \in Nat
  BY MaxLenAssumption, MaxWrittenAssumption, WriteKeeps DEF TypeOK, Write
<1>2. Len(buffer') <= Len(buffer) + len
  BY <1>1, WriteKeeps, CapacityAssumption DEF Lesser
<1>3. \A i \in 1 .. Len(buffer') :
        buffer'[i] = written + len - Len(buffer') + i
  BY <1>1, WriteKeeps DEF NewestInOrder, TypeOK
<1>4. played <= written - Len(buffer)
  <2>1. CASE Len(buffer) = 0
    BY <1>1, <2>1
  <2>2. CASE Len(buffer) > 0
    BY <1>1, <2>2 DEF NewestInOrder, NeverPlayedAgain, TypeOK
  <2>3. QED BY <1>1, <2>1, <2>2
<1>5. \A i \in 1 .. Len(buffer') : played' < buffer'[i]
  BY <1>1, <1>2, <1>3, <1>4
<1>6. DOMAIN buffer' = 1 .. Len(buffer')
  BY WriteKeeps DEF TypeOK
<1>7. QED BY <1>1, <1>5, <1>6 DEF NeverPlayedAgain

(* The inductive invariant. *)
BufferInv == /\ TypeOK /\ NewestInOrder /\ NeverPlayedAgain
             /\ played <= written

LEMMA BufferStep == BufferInv /\ [Next]_vars => BufferInv'
<1> SUFFICES ASSUME BufferInv, [Next]_vars PROVE BufferInv'
  OBVIOUS
<1>1. ASSUME NEW len \in 1 .. MaxLen, Write(len) PROVE BufferInv'
  BY <1>1, WriteKeeps, WritePlays DEF BufferInv
<1>2. ASSUME NEW len \in 1 .. MaxLen, Read(len) PROVE BufferInv'
  <2>1. TypeOK' /\ NewestInOrder' /\ NeverPlayedAgain'
    BY <1>2, ReadKeeps DEF BufferInv
  <2>2. Len(buffer) \in Nat \ {0} /\ written' = written /\ written \in Int
        /\ \A i \in 1 .. Len(buffer) : buffer[i] <= written
    BY <1>2, MaxWrittenAssumption DEF BufferInv, TypeOK, NewestInOrder, Read
  <2>3. \E i \in 1 .. Len(buffer) : played' = buffer[i]
    <3>1. Lesser(len, Len(buffer)) \in 1 .. Len(buffer)
      BY <2>2, MaxLenAssumption DEF Lesser
    <3>2. played' = buffer[Lesser(len, Len(buffer))]
      BY <1>2, <3>1 DEF Read, Readable, BufferInv, TypeOK
    <3>3. QED BY <3>1, <3>2
  <2>4. QED BY <2>1, <2>2, <2>3 DEF BufferInv
<1>3. CASE Reopen
  BY <1>3, CapacityAssumption
  DEF Reopen, Open, BufferInv, TypeOK, NewestInOrder, NeverPlayedAgain
<1>4. CASE UNCHANGED vars
  BY <1>4 DEF vars, BufferInv, TypeOK, NewestInOrder, NeverPlayedAgain
<1>5. QED BY <1>1, <1>2, <1>3, <1>4 DEF Next

(* It holds at first. *)
LEMMA BufferInit == Init => BufferInv
BY CapacityAssumption, MaxWrittenAssumption
DEF Init, BufferInv, TypeOK, NewestInOrder, NeverPlayedAgain

-----------------------------------------------------------------------------
(* The video. *)

(* What the services do with the queue: the rest leaves it, and wakes no   *)
(* one.                                                                    *)
Services(s) ==
  Video!ServiceStart(s) \/ Video!SessionStop(s) \/ Video!ChannelFails(s)

-----------------------------------------------------------------------------
(* The decode thread is not left asleep: each step that makes its          *)
(* predicate true notifies it.                                             *)

LEMMA WakeupStep ==
  Video!NoLostWakeup /\ [Video!Next]_videoVars => Video!NoLostWakeup'
<1> SUFFICES ASSUME Video!NoLostWakeup, [Video!Next]_videoVars
             PROVE  Video!NoLostWakeup'
  OBVIOUS
<1> USE DEF Video!NoLostWakeup, Video!sharedVars, Video!decoderVars
<1>1. CASE Video!OpenCodec \/ Video!Exit \/ Video!Wait \/ Video!Flush
           \/ Video!Take \/ Video!Decode \/ Video!SpuriousWakeup
  BY <1>1
  DEF Video!OpenCodec, Video!Exit, Video!Wait, Video!Flush, Video!Take,
      Video!Decode, Video!SpuriousWakeup
<1>2. CASE Video!Destroy
  BY <1>2 DEF Video!Destroy, Video!Notify
<1>3. ASSUME NEW s \in Video!Session,
             \/ Video!ServiceStop(s) \/ Video!OnMediaWithTimestampIndication(s)
      PROVE  Video!NoLostWakeup'
  BY <1>3
  DEF Video!ServiceStop, Video!OnMediaWithTimestampIndication, Video!Notify
<1>4. ASSUME NEW s \in Video!Session, Services(s) PROVE Video!NoLostWakeup'
  BY <1>4
  DEF Services, Video!ServiceStart, Video!SessionStop, Video!ChannelFails
<1>5. CASE UNCHANGED videoVars
  BY <1>5 DEF videoVars
<1>6. QED
  BY <1>1, <1>2, <1>3, <1>4, <1>5
  DEF Video!Next, Video!DecodeLoop, Services

-----------------------------------------------------------------------------
(* The order of the packets. *)

Numbered == [session : Video!Session, n : Nat \ {0}]

OrderTypeOK ==
  /\ videoSent \in [Video!Session -> Nat]
  /\ packetQueue \in Seq(Numbered)
  /\ current \in Numbered \cup {Video!NoPacket}
  /\ fed \in Numbered \cup {Video!NoPacket}

(* No packet is ahead of what its phone has sent. *)
WasSent(p) == p.session \in Video!Session => p.n <= videoSent[p.session]
AllSent == /\ WasSent(current) /\ WasSent(fed)
           /\ \A i \in DOMAIN packetQueue : WasSent(packetQueue[i])

(* A packet is taken and decoded before the next is. *)
OneAtATime == thread # "decoding" => current = Video!NoPacket

(* DecodedInOrder by its parts. *)
Ahead == IF current = Video!NoPacket THEN fed ELSE current
QueuedAfter(p) ==
  \A i \in DOMAIN packetQueue :
    packetQueue[i].session = p.session => packetQueue[i].n > p.n
Sorted ==
  \A i, j \in DOMAIN packetQueue :
    i < j /\ packetQueue[i].session = packetQueue[j].session
      => packetQueue[i].n < packetQueue[j].n
FedBefore ==
  fed.session = current.session
    => current = Video!NoPacket \/ fed.n < current.n

LEMMA InOrderByParts ==
  Video!DecodedInOrder <=> QueuedAfter(Ahead) /\ Sorted /\ FedBefore
BY DEF Video!DecodedInOrder, Ahead, QueuedAfter, Sorted, FedBefore

OrderInv == /\ OrderTypeOK /\ AllSent /\ OneAtATime
            /\ QueuedAfter(Ahead) /\ Sorted /\ FedBefore

(* A queue that is emptied is in order, whatever else is. *)
LEMMA EmptiedInOrder ==
  ASSUME packetQueue' = <<>>
  PROVE  /\ packetQueue' \in Seq(Numbered)
         /\ \A i \in DOMAIN packetQueue' : WasSent(packetQueue[i])'
         /\ QueuedAfter(Ahead)' /\ Sorted'
BY DEF QueuedAfter, Sorted

(* stop() of a service. *)
LEMMA StopKeepsOrder ==
  ASSUME OrderInv, NEW s \in Video!Session, Video!ServiceStop(s)
  PROVE  OrderInv'
<1>1. UNCHANGED <<videoSent, current, fed>> /\ packetQueue' = <<>>
  BY DEF Video!ServiceStop
<1>2. OneAtATime'
  BY <1>1 DEF Video!ServiceStop, Video!Notify, OneAtATime, OrderInv
<1>3. OrderTypeOK' /\ AllSent' /\ FedBefore'
  BY <1>1, EmptiedInOrder
  DEF OrderInv, OrderTypeOK, AllSent, WasSent, FedBefore
<1>4. QED BY <1>1, <1>2, <1>3, EmptiedInOrder DEF OrderInv

(* The flush of the decode thread. *)
LEMMA FlushKeepsOrder ==
  ASSUME OrderInv, Video!Flush
  PROVE  OrderInv'
<1>1. UNCHANGED <<videoSent, current, thread>> /\ packetQueue' = <<>>
      /\ fed' = Video!NoPacket
  BY DEF Video!Flush, Video!serviceVars
<1>2. current = Video!NoPacket
  BY DEF Video!Flush, OrderInv, OneAtATime
<1>3. OrderTypeOK' /\ OneAtATime' /\ FedBefore'
  BY <1>1, <1>2, EmptiedInOrder
  DEF OrderInv, OrderTypeOK, OneAtATime, FedBefore
<1>4. AllSent'
  BY <1>1, <1>2, EmptiedInOrder
  DEF OrderInv, OrderTypeOK, AllSent, WasSent, Video!NoPacket
<1>5. QED BY <1>1, <1>3, <1>4, EmptiedInOrder DEF OrderInv

(* A packet is written: its number is beyond all of its session.           *)
LEMMA WriteKeepsOrder ==
  ASSUME OrderInv, NEW s \in Video!Session,
         Video!OnMediaWithTimestampIndication(s)
  PROVE  OrderInv'
<1> DEFINE p == [session |-> s, n |-> videoSent[s] + 1]
<1>1. /\ videoSent' = [videoSent EXCEPT ![s] = @ + 1]
      /\ packetQueue' = Append(packetQueue, p)
      /\ UNCHANGED <<current, fed>>
  BY DEF Video!OnMediaWithTimestampIndication
<1>2. p \in Numbered /\ videoSent' \in [Video!Session -> Nat]
  BY <1>1 DEF OrderInv, OrderTypeOK, Numbered
<1>3. /\ packetQueue' \in Seq(Numbered)
      /\ DOMAIN packetQueue' = 1 .. (Len(packetQueue) + 1)
      /\ DOMAIN packetQueue = 1 .. Len(packetQueue)
      /\ Len(packetQueue) \in Nat
      /\ \A i \in 1 .. Len(packetQueue) : packetQueue'[i] = packetQueue[i]
      /\ packetQueue'[Len(packetQueue) + 1] = p
  BY <1>1, <1>2 DEF OrderInv, OrderTypeOK
<1>4. OrderTypeOK' /\ OneAtATime' /\ FedBefore'
  BY <1>1, <1>2, <1>3
  DEF OrderInv, OrderTypeOK, OneAtATime, FedBefore, Video!Notify,
      Video!OnMediaWithTimestampIndication
<1>5. \A t \in Video!Session : videoSent[t] <= videoSent'[t]
      /\ videoSent[t] \in Nat
  BY <1>1 DEF OrderInv, OrderTypeOK
<1>6. videoSent'[s] = videoSent[s] + 1 /\ videoSent[s] \in Nat
  BY <1>1 DEF OrderInv, OrderTypeOK
<1>7. ASSUME NEW q \in Numbered \cup {Video!NoPacket}, WasSent(q)
      PROVE  /\ q.session \in Video!Session => q.n <= videoSent'[q.session]
             /\ q.session = s => q.n < p.n
             /\ q.n \in Nat
  <2>1. q.n \in Nat /\ (q.session = s => q.session \in Video!Session)
    BY DEF Numbered, Video!NoPacket
  <2>2. q.session = s => q.n <= videoSent[s]
    BY <1>7, <2>1 DEF WasSent
  <2>3. ASSUME q.session \in Video!Session PROVE q.n <= videoSent'[q.session]
    <3>1. q.n <= videoSent[q.session]
      BY <1>7, <2>3 DEF WasSent
    <3>2. videoSent[q.session] <= videoSent'[q.session]
          /\ videoSent[q.session] \in Nat
      BY <1>5, <2>3
    <3>3. videoSent'[q.session] \in Nat
      BY <1>2, <2>3
    <3>4. QED BY <2>1, <3>1, <3>2, <3>3
  <2>4. p.n = videoSent[s] + 1
    OBVIOUS
  <2>5. QED BY <1>6, <2>1, <2>2, <2>3, <2>4
<1>8. \A i \in 1 .. Len(packetQueue) :
        packetQueue[i] \in Numbered /\ WasSent(packetQueue[i])
  BY <1>3 DEF OrderInv, OrderTypeOK, AllSent
<1>9. AllSent'
  <2>1. WasSent(current)' /\ WasSent(fed)'
    BY <1>1, <1>7 DEF OrderInv, OrderTypeOK, AllSent, WasSent
  <2>2. ASSUME NEW i \in DOMAIN packetQueue' PROVE WasSent(packetQueue[i])'
    <3>1. CASE i \in 1 .. Len(packetQueue)
      BY <3>1, <1>3, <1>7, <1>8 DEF WasSent
    <3>2. CASE i = Len(packetQueue) + 1
      BY <3>2, <1>3, <1>6 DEF WasSent
    <3>3. QED BY <3>1, <3>2, <1>3
  <2>3. QED BY <2>1, <2>2 DEF AllSent
<1>10. QueuedAfter(Ahead)'
  <2>1. Ahead \in Numbered \cup {Video!NoPacket} /\ WasSent(Ahead)
        /\ Ahead' = Ahead
    BY <1>1 DEF Ahead, OrderInv, OrderTypeOK, AllSent
  <2>2. QueuedAfter(Ahead)
    BY DEF OrderInv
  <2>3. \A i \in DOMAIN packetQueue' :
          packetQueue'[i].session = Ahead.session
            => packetQueue'[i].n > Ahead.n
    BY <2>1, <2>2, <1>3, <1>6, <1>7 DEF QueuedAfter
  <2>4. QED BY <2>1, <2>3 DEF QueuedAfter
<1>11. Sorted'
  <2>1. Sorted
    BY DEF OrderInv
  <2>2. ASSUME NEW i \in DOMAIN packetQueue',
        NEW j \in DOMAIN packetQueue', i < j,
               packetQueue'[i].session = packetQueue'[j].session
        PROVE  packetQueue'[i].n < packetQueue'[j].n
    <3>1. CASE j \in 1 .. Len(packetQueue)
      BY <2>1, <2>2, <3>1, <1>3 DEF Sorted
    <3>2. CASE j = Len(packetQueue) + 1
      BY <2>2, <3>2, <1>3, <1>7, <1>8
    <3>3. QED BY <3>1, <3>2, <1>3
  <2>3. QED BY <2>2 DEF Sorted
<1>12. QED BY <1>4, <1>9, <1>10, <1>11 DEF OrderInv

(* The oldest packet is taken: it is after what was decoded, and before    *)
(* the rest of its session.                                                *)
LEMMA TakeKeepsOrder ==
  ASSUME OrderInv, Video!Take
  PROVE  OrderInv'
<1>1. /\ packetQueue # <<>> /\ current' = Head(packetQueue)
      /\ packetQueue' = Tail(packetQueue) /\ thread' = "decoding"
      /\ UNCHANGED <<videoSent, fed>>
      /\ current = Video!NoPacket
  BY DEF Video!Take, Video!serviceVars, OrderInv, OneAtATime
<1>2. /\ packetQueue' \in Seq(Numbered)
      /\ DOMAIN packetQueue = 1 .. Len(packetQueue)
      /\ DOMAIN packetQueue' = 1 .. (Len(packetQueue) - 1)
      /\ Len(packetQueue) \in Nat \ {0}
      /\ current' = packetQueue[1] /\ current' \in Numbered
      /\ \A i \in 1 .. (Len(packetQueue) - 1) :
           i + 1 \in DOMAIN packetQueue /\ packetQueue'[i] = packetQueue[i + 1]
  BY <1>1 DEF OrderInv, OrderTypeOK
<1>3. current' # Video!NoPacket
  BY <1>2 DEF Numbered, Video!NoPacket
<1>4. OrderTypeOK' /\ OneAtATime'
  BY <1>1, <1>2 DEF OrderInv, OrderTypeOK, OneAtATime
<1>5. AllSent'
  BY <1>1, <1>2 DEF OrderInv, AllSent, WasSent
<1>6. FedBefore'
  <2>1. QueuedAfter(fed)
    BY <1>1 DEF OrderInv, Ahead
  <2>2. 1 \in DOMAIN packetQueue
    BY <1>2
  <2>3. QED BY <1>1, <1>2, <2>1, <2>2 DEF QueuedAfter, FedBefore, OrderInv,
           OrderTypeOK, Numbered, Video!NoPacket
<1>7. Sorted
  BY DEF OrderInv
<1>8. QueuedAfter(Ahead)'
  <2>1. Ahead' = packetQueue[1]
    BY <1>2, <1>3 DEF Ahead
  <2>2. ASSUME NEW i \in DOMAIN packetQueue',
               packetQueue'[i].session = packetQueue[1].session
        PROVE  packetQueue'[i].n > packetQueue[1].n
    <3>1. /\ 1 \in DOMAIN packetQueue /\ i + 1 \in DOMAIN packetQueue
          /\ 1 < i + 1
          /\ packetQueue'[i] = packetQueue[i + 1]
      BY <1>2
    <3>2. packetQueue[1].n < packetQueue[i + 1].n
      BY <1>7, <2>2, <3>1 DEF Sorted
    <3>3. packetQueue[1] \in Numbered /\ packetQueue[i + 1] \in Numbered
      BY <3>1, <1>2 DEF OrderInv, OrderTypeOK
    <3>4. QED BY <3>1, <3>2, <3>3 DEF Numbered
  <2>3. QED BY <2>1, <2>2 DEF QueuedAfter
<1>9. Sorted'
  <2>1. ASSUME NEW i \in DOMAIN packetQueue',
        NEW j \in DOMAIN packetQueue', i < j,
               packetQueue'[i].session = packetQueue'[j].session
        PROVE  packetQueue'[i].n < packetQueue'[j].n
    <3>1. /\ i + 1 \in DOMAIN packetQueue /\ j + 1 \in DOMAIN packetQueue
          /\ packetQueue'[i] = packetQueue[i + 1]
          /\ packetQueue'[j] = packetQueue[j + 1]
      BY <1>2
    <3>2. i + 1 < j + 1
      BY <1>2, <2>1
    <3>3. packetQueue[i + 1].session = packetQueue[j + 1].session
      BY <2>1, <3>1
    <3>4. packetQueue[i + 1].n < packetQueue[j + 1].n
      BY <1>7, <3>1, <3>2, <3>3 DEF Sorted
    <3>5. QED BY <3>1, <3>4
  <2>2. QED BY <2>1 DEF Sorted
<1>10. QED BY <1>4, <1>5, <1>6, <1>8, <1>9 DEF OrderInv

(* What was taken is what the codec was fed last. *)
LEMMA DecodeKeepsOrder ==
  ASSUME OrderInv, Video!Decode
  PROVE  OrderInv'
<1>1. /\ UNCHANGED <<videoSent, packetQueue>> /\ fed' = current
      /\ current' = Video!NoPacket
      /\ thread' = "ready"
  BY DEF Video!Decode, Video!serviceVars, Video!sharedVars
<1>2. OrderTypeOK' /\ OneAtATime' /\ Sorted' /\ FedBefore'
  BY <1>1 DEF OrderInv, OrderTypeOK, OneAtATime, Sorted, FedBefore
<1>3. AllSent'
  BY <1>1 DEF OrderInv, OrderTypeOK, AllSent, WasSent, Video!NoPacket
<1>4. QueuedAfter(Ahead)'
  <2>1. Ahead' = current
    BY <1>1 DEF Ahead
  <2>2. QueuedAfter(current)
    <3>1. CASE current # Video!NoPacket
      BY <3>1 DEF OrderInv, Ahead
    <3>2. CASE current = Video!NoPacket
      <4>1. \A i \in DOMAIN packetQueue : packetQueue[i] \in Numbered
        BY DEF OrderInv, OrderTypeOK
      <4>2. \A i \in DOMAIN packetQueue : packetQueue[i].n > 0
        BY <4>1 DEF Numbered
      <4>3. QED BY <3>2, <4>2 DEF QueuedAfter, Video!NoPacket
    <3>3. QED BY <3>1, <3>2
  <2>3. QED BY <1>1, <2>1, <2>2 DEF QueuedAfter
<1>5. QED BY <1>2, <1>3, <1>4 DEF OrderInv

(* Everything else leaves packets alone. *)
LEMMA OthersKeepOrder ==
  ASSUME OrderInv, UNCHANGED <<videoSent, packetQueue, current, fed>>,
         thread' = "decoding" => thread = "decoding",
         thread = "decoding" => thread' = "decoding"
  PROVE  OrderInv'
BY DEF OrderInv, OrderTypeOK, AllSent, WasSent, OneAtATime, QueuedAfter, Ahead,
       Sorted, FedBefore

LEMMA OrderStep == OrderInv /\ [Video!Next]_videoVars => OrderInv'
<1> SUFFICES ASSUME OrderInv, [Video!Next]_videoVars PROVE OrderInv'
  OBVIOUS
<1>1. CASE Video!Flush \/ Video!Take \/ Video!Decode
  BY <1>1, FlushKeepsOrder, TakeKeepsOrder, DecodeKeepsOrder
<1>2. CASE Video!OpenCodec \/ Video!Exit \/ Video!Wait
           \/ Video!SpuriousWakeup \/ Video!Destroy
  BY <1>2, OthersKeepOrder
  DEF Video!OpenCodec, Video!Exit, Video!Wait, Video!SpuriousWakeup,
      Video!Destroy, Video!Notify, Video!serviceVars, Video!sharedVars
<1>3. ASSUME NEW s \in Video!Session,
             \/ Video!ServiceStop(s) \/ Video!OnMediaWithTimestampIndication(s)
      PROVE  OrderInv'
  BY <1>3, StopKeepsOrder, WriteKeepsOrder
<1>4. ASSUME NEW s \in Video!Session, Services(s) PROVE OrderInv'
  BY <1>4, OthersKeepOrder
  DEF Services, Video!ServiceStart, Video!SessionStop, Video!ChannelFails,
      Video!sharedVars, Video!decoderVars
<1>5. CASE UNCHANGED videoVars
  BY <1>5, OthersKeepOrder
  DEF videoVars, Video!serviceVars, Video!sharedVars, Video!decoderVars
<1>6. QED
  BY <1>1, <1>2, <1>3, <1>4, <1>5
  DEF Video!Next, Video!DecodeLoop, Services

LEMMA InitOrder == Video!Init => OrderInv
<1> SUFFICES ASSUME Video!Init PROVE OrderInv
  OBVIOUS
<1>1. /\ packetQueue = <<>> /\ current = Video!NoPacket /\ fed = Video!NoPacket
      /\ videoSent = [s \in Video!Session |-> 0]
  BY DEF Video!Init
<1>2. OrderTypeOK /\ OneAtATime /\ QueuedAfter(Ahead) /\ Sorted /\ FedBefore
  BY <1>1 DEF OrderTypeOK, OneAtATime, QueuedAfter, Sorted, FedBefore
<1>3. AllSent
  BY <1>1 DEF AllSent, WasSent, Video!NoPacket
<1>4. QED BY <1>2, <1>3 DEF OrderInv

-----------------------------------------------------------------------------
(* The types of the video. *)

(* They hold at first. *)
LEMMA VideoInitTypes ==
  ASSUME Video!Init
  PROVE  Video!TypeOK
<1>1. <<>> \in Seq(Video!Packet)
  BY EmptySeq
<1>2. 0 \in 0 .. MaxPackets
  BY OutputsAssumption
<1>3. QED
  BY <1>1, <1>2, Zenon DEF Video!Init, Video!TypeOK

(* The steps of a service keep them. *)
LEMMA VideoServiceTypes ==
  ASSUME Video!TypeOK, NEW s \in Video!Session,
         \/ Services(s) \/ Video!ServiceStop(s)
         \/ Video!OnMediaWithTimestampIndication(s)
  PROVE  Video!TypeOK'
<1>1. UNCHANGED <<current, fed, stopRequested>>
  BY Zenon
  DEF Services, Video!ServiceStart, Video!SessionStop, Video!ChannelFails,
      Video!ServiceStop, Video!OnMediaWithTimestampIndication,
      Video!sharedVars, Video!decoderVars
<1>2. thread' \in {"starting", "ready", "asleep", "decoding", "exited"}
  BY Zenon
  DEF Services, Video!ServiceStart, Video!SessionStop, Video!ChannelFails,
      Video!ServiceStop, Video!OnMediaWithTimestampIndication, Video!Notify,
      Video!decoderVars, Video!TypeOK
<1>3. flushRequested' \in BOOLEAN
  BY Zenon
  DEF Services, Video!ServiceStart, Video!SessionStop, Video!ChannelFails,
      Video!ServiceStop, Video!OnMediaWithTimestampIndication,
      Video!sharedVars, Video!TypeOK
<1>4. videoPhase' \in [Video!Session ->
                        {"idle", "started", "stopping", "stopped"}]
  <2>1. \/ UNCHANGED videoPhase
        \/ \E p \in {"started", "stopping", "stopped"} :
             videoPhase' = [videoPhase EXCEPT ![s] = p]
    BY Zenon
    DEF Services, Video!ServiceStart, Video!SessionStop, Video!ChannelFails,
        Video!ServiceStop, Video!OnMediaWithTimestampIndication
  <2>2. videoPhase \in [Video!Session ->
                          {"idle", "started", "stopping", "stopped"}]
    BY Zenon DEF Video!TypeOK
  <2>3. QED
    BY <2>1, <2>2
<1>5. videoReceiving' \subseteq Video!Session
  <2>1. videoReceiving' \subseteq videoReceiving \cup {s}
    BY Zenon
    DEF Services, Video!ServiceStart, Video!SessionStop, Video!ChannelFails,
        Video!ServiceStop, Video!OnMediaWithTimestampIndication
  <2>2. videoReceiving \subseteq Video!Session
    BY Zenon DEF Video!TypeOK
  <2>3. QED
    BY <2>1, <2>2
<1>6. /\ videoSent \in [Video!Session -> 0 .. MaxPackets]
      /\ packetQueue \in Seq(Video!Packet)
  BY Zenon DEF Video!TypeOK
<1>7. /\ videoSent' \in [Video!Session -> 0 .. MaxPackets]
      /\ packetQueue' \in Seq(Video!Packet)
  <2>1. CASE Services(s)
    BY <1>6, <2>1, Zenon
    DEF Services, Video!ServiceStart, Video!SessionStop, Video!ChannelFails,
        Video!sharedVars
  <2>2. CASE Video!ServiceStop(s)
    <3>1. packetQueue' = <<>> /\ UNCHANGED videoSent
      BY <2>2, Zenon DEF Video!ServiceStop
    <3>2. QED
      BY <1>6, <3>1, EmptySeq
  <2>3. CASE Video!OnMediaWithTimestampIndication(s)
    <3>1. /\ videoSent[s] < MaxPackets
          /\ videoSent' = [videoSent EXCEPT ![s] = @ + 1]
          /\ packetQueue'
               = Append(packetQueue, [session |-> s, n |-> videoSent[s] + 1])
      BY <2>3, Zenon DEF Video!OnMediaWithTimestampIndication
    <3>2. videoSent[s] + 1 \in 1 .. MaxPackets
      BY <1>6, <3>1, OutputsAssumption
    <3>3. [session |-> s, n |-> videoSent[s] + 1] \in Video!Packet
      BY <3>2, Zenon DEF Video!Packet
    <3>4. packetQueue' \in Seq(Video!Packet)
      BY <1>6, <3>1, <3>3, AppendProperties
    <3>5. videoSent' \in [Video!Session -> 0 .. MaxPackets]
      BY <1>6, <3>1, <3>2, OutputsAssumption
    <3>6. QED
      BY <3>4, <3>5
  <2>4. QED
    BY <2>1, <2>2, <2>3
<1>8. QED
  BY <1>1, <1>2, <1>3, <1>4, <1>5, <1>7, Zenon DEF Video!TypeOK

(* So do those of the decode thread, and the end of the program. *)
LEMMA DecodeThreadTypes ==
  ASSUME Video!TypeOK,
         Video!DecodeLoop \/ Video!SpuriousWakeup \/ Video!Destroy
  PROVE  Video!TypeOK'
<1>1. UNCHANGED <<videoPhase, videoReceiving, videoSent>>
  BY Zenon
  DEF Video!DecodeLoop, Video!OpenCodec, Video!Exit, Video!Wait, Video!Flush,
      Video!Take, Video!Decode, Video!SpuriousWakeup, Video!Destroy,
      Video!serviceVars
<1>2. /\ flushRequested' \in BOOLEAN /\ stopRequested' \in BOOLEAN
      /\ thread' \in {"starting", "ready", "asleep", "decoding", "exited"}
  BY Zenon
  DEF Video!DecodeLoop, Video!OpenCodec, Video!Exit, Video!Wait, Video!Flush,
      Video!Take, Video!Decode, Video!SpuriousWakeup, Video!Destroy,
      Video!Notify, Video!sharedVars, Video!TypeOK
<1>3. packetQueue \in Seq(Video!Packet)
  BY Zenon DEF Video!TypeOK
<1>4. \/ UNCHANGED <<packetQueue, current>>
      \/ packetQueue' = <<>> /\ UNCHANGED current
      \/ /\ packetQueue # <<>> /\ packetQueue' = Tail(packetQueue)
         /\ current' = Head(packetQueue)
      \/ UNCHANGED packetQueue /\ current' = Video!NoPacket
  BY Zenon
  DEF Video!DecodeLoop, Video!OpenCodec, Video!Exit, Video!Wait, Video!Flush,
      Video!Take, Video!Decode, Video!SpuriousWakeup, Video!Destroy,
      Video!sharedVars
<1>5. /\ <<>> \in Seq(Video!Packet)
      /\ packetQueue # <<>> => /\ Tail(packetQueue) \in Seq(Video!Packet)
                               /\ Head(packetQueue) \in Video!Packet
  BY <1>3, EmptySeq, HeadTailProperties
<1>6. /\ packetQueue' \in Seq(Video!Packet)
      /\ current' \in Video!Packet \cup {Video!NoPacket}
  BY <1>4, <1>5, Zenon DEF Video!TypeOK
<1>7. fed' \in Video!Packet \cup {Video!NoPacket}
  BY Zenon
  DEF Video!DecodeLoop, Video!OpenCodec, Video!Exit, Video!Wait, Video!Flush,
      Video!Take, Video!Decode, Video!SpuriousWakeup, Video!Destroy,
      Video!TypeOK
<1>8. QED
  BY <1>1, <1>2, <1>6, <1>7, Zenon DEF Video!TypeOK

(* So does every step. *)
LEMMA VideoStepTypes ==
  ASSUME Video!TypeOK, [Video!Next]_videoVars
  PROVE  Video!TypeOK'
<1>1. CASE UNCHANGED videoVars
  BY <1>1, Zenon DEF videoVars, Video!TypeOK
<1>2. QED
  BY <1>1, VideoServiceTypes, DecodeThreadTypes, Zenon
  DEF Video!Next, Services

-----------------------------------------------------------------------------
(* The types of the audio. *)

AudioService(s) ==
  \/ Audio!ServiceStart(s) \/ Audio!SessionStop(s) \/ Audio!ServiceStop(s)
  \/ Audio!OnMediaChannelStartIndication(s)
  \/ Audio!OnMediaChannelStopIndication(s)
  \/ Audio!OnMediaWithTimestampIndication(s) \/ Audio!ChannelFails(s)

(* They hold at first. *)
LEMMA AudioInitTypes ==
  ASSUME Audio!Init
  PROVE  Audio!TypeOK
<1>1. <<>> \in Seq(Audio!Signal) /\ <<>> \in Seq(Audio!Chunk)
  BY EmptySeq
<1>2. 0 \in 0 .. MaxChunks
  BY OutputsAssumption
<1>3. Len(<<>>) <= RingChunks
  BY OutputsAssumption, EmptySeq
<1>4. QED
  BY <1>1, <1>2, <1>3, Zenon DEF Audio!Init, Audio!TypeOK

(* What is left of a sequence when its first elements are dropped. *)
LEMMA Dropped ==
  ASSUME NEW S, NEW q \in Seq(S), NEW n \in 1 .. Len(q) + 1
  PROVE  /\ SubSeq(q, n, Len(q)) \in Seq(S)
         /\ Len(SubSeq(q, n, Len(q))) = Len(q) - n + 1
<1>1. Len(q) \in Nat /\ Len(q) \in n - 1 .. Len(q)
  BY LenProperties
<1>2. QED
  BY <1>1, SubSeqProperties

(* The lesser of one and more. *)
LEMMA LesserOne ==
  ASSUME NEW n \in Nat, n > 0
  PROVE  Audio!Buffer!Lesser(1, n) = 1
BY DEF Audio!Buffer!Lesser

(* What is written into the ring does not make it hold more than it can. *)
LEMMA RingBounded ==
  ASSUME NEW c \in Audio!Chunk, ring \in Seq(Audio!Chunk),
         Len(ring) <= RingChunks, Audio!Buffer!WriteData(<<c>>)
  PROVE  ring' \in Seq(Audio!Chunk) /\ Len(ring') <= RingChunks
<1> DEFINE space == RingChunks - Len(ring)
           room == Audio!Buffer!MakeRoom(1)
           all == room \o <<c>>
<1>1. Len(ring) \in Nat /\ RingChunks \in Nat \ {0}
  BY OutputsAssumption, LenProperties
<1>2. <<c>> \in Seq(Audio!Chunk) /\ Len(<<c>>) = 1
  OBVIOUS
<1>3. room \in Seq(Audio!Chunk) /\ Len(room) <= RingChunks
  <2>1. CASE Len(ring) < RingChunks
    <3>1. room = ring
      BY <1>1, <2>1 DEF Audio!Buffer!MakeRoom
    <3>2. QED
      BY <3>1
  <2>2. CASE Len(ring) = RingChunks
    <3>1. room = SubSeq(ring, 2, Len(ring))
      BY <1>1, <2>2
      DEF Audio!Buffer!MakeRoom, Audio!Buffer!EraseBegin, Audio!Buffer!Lesser
    <3>2. QED
      <4>1. 2 \in 1 .. Len(ring) + 1
        BY <1>1, <2>2
      <4>2. /\ room \in Seq(Audio!Chunk)
            /\ Len(room) = Len(ring) - 2 + 1
        BY <3>1, <4>1, Dropped, Zenon
      <4>3. QED
        BY <1>1, <2>2, <4>2
  <2>3. QED
    BY <1>1, <2>1, <2>2
<1> HIDE DEF room
<1>4. all \in Seq(Audio!Chunk) /\ Len(all) = Len(room) + 1 /\ Len(room) \in Nat
  BY <1>2, <1>3, ConcatProperties, LenProperties
<1>5. ring' = SubSeq(all,
                     (IF Len(all) > RingChunks THEN Len(all) - RingChunks
                      ELSE 0)
                       + 1,
                     Len(all))
  BY <1>2, Zenon
  DEF room, Audio!Buffer!WriteData, Audio!Buffer!Insert,
      Audio!Buffer!EraseBegin
<1> HIDE DEF all
<1>6. CASE Len(all) > RingChunks
  <2>1. ring' = SubSeq(all, Len(all) - RingChunks + 1, Len(all))
    BY <1>5, <1>6
  <2>2. /\ Len(all) \in Nat /\ Len(all) - RingChunks + 1 \in 1 .. Len(all) + 1
        /\ Len(all) - (Len(all) - RingChunks + 1) + 1 <= RingChunks
    BY <1>1, <1>4, <1>6
  <2>3. QED
    BY <1>1, <1>4, <2>1, <2>2, Dropped
<1>7. CASE ~(Len(all) > RingChunks)
  <2>1. ring' = SubSeq(all, 1, Len(all))
    BY <1>5, <1>7
  <2>2. ring' = all
    BY <1>4, <2>1, SubSeqFull
  <2>3. QED
    BY <1>1, <1>4, <1>7, <2>2
<1>8. QED
  BY <1>6, <1>7

(* The steps of a service keep them. *)
LEMMA AudioServiceTypes ==
  ASSUME Audio!TypeOK, NEW s \in Audio!Session, AudioService(s)
  PROVE  Audio!TypeOK'
<1> USE DEF AudioService
<1>1. UNCHANGED <<playbackStarted, sink, reopening>>
  BY Zenon
  DEF Audio!ServiceStart, Audio!SessionStop, Audio!ServiceStop, Audio!Receive,
      Audio!OnMediaChannelStartIndication, Audio!OnMediaChannelStopIndication,
      Audio!OnMediaWithTimestampIndication, Audio!ChannelFails,
      Audio!sinkVars
<1>2. audioPhase' \in [Audio!Session ->
                        {"idle", "started", "stopping", "stopped"}]
  <2>1. \/ UNCHANGED audioPhase
        \/ \E p \in {"started", "stopping", "stopped"} :
             audioPhase' = [audioPhase EXCEPT ![s] = p]
    BY Zenon
    DEF Audio!ServiceStart, Audio!SessionStop, Audio!ServiceStop,
        Audio!Receive, Audio!OnMediaChannelStartIndication,
        Audio!OnMediaChannelStopIndication,
        Audio!OnMediaWithTimestampIndication, Audio!ChannelFails
  <2>2. audioPhase \in [Audio!Session ->
                          {"idle", "started", "stopping", "stopped"}]
    BY Zenon DEF Audio!TypeOK
  <2>3. QED
    BY <2>1, <2>2
<1>3. audioReceiving' \subseteq Audio!Session
  <2>1. audioReceiving' \subseteq audioReceiving \cup {s}
    BY Zenon
    DEF Audio!ServiceStart, Audio!SessionStop, Audio!ServiceStop,
        Audio!Receive, Audio!OnMediaChannelStartIndication,
        Audio!OnMediaChannelStopIndication,
        Audio!OnMediaWithTimestampIndication, Audio!ChannelFails
  <2>2. audioReceiving \subseteq Audio!Session
    BY Zenon DEF Audio!TypeOK
  <2>3. QED
    BY <2>1, <2>2
<1>4. /\ audioSignals' \in Seq(Audio!Signal)
      /\ audioRequested' \in Audio!Signal \cup {"none"}
  <2>1. \/ UNCHANGED <<audioSignals, audioRequested>>
        \/ \E signal \in Audio!Signal :
             /\ audioSignals' = Append(audioSignals, signal)
             /\ audioRequested' = signal
    BY Zenon
    DEF Audio!ServiceStart, Audio!SessionStop, Audio!ServiceStop,
        Audio!OnMediaChannelStartIndication,
        Audio!OnMediaChannelStopIndication,
        Audio!OnMediaWithTimestampIndication, Audio!ChannelFails, Audio!Emit,
        Audio!Signal, Audio!requests
  <2>2. audioSignals \in Seq(Audio!Signal)
    BY Zenon DEF Audio!TypeOK
  <2>3. \A signal \in Audio!Signal :
          Append(audioSignals, signal) \in Seq(Audio!Signal)
    BY <2>2, AppendProperties
  <2>4. QED
    BY <2>1, <2>3, Zenon DEF Audio!TypeOK
<1>5. /\ audioSent \in [Audio!Session -> 0 .. MaxChunks]
      /\ ring \in Seq(Audio!Chunk) /\ Len(ring) <= RingChunks
  BY Zenon DEF Audio!TypeOK
<1>6. /\ audioSent' \in [Audio!Session -> 0 .. MaxChunks]
      /\ ring' \in Seq(Audio!Chunk) /\ Len(ring') <= RingChunks
  <2>1. CASE Audio!OnMediaWithTimestampIndication(s)
    <3>1. /\ audioSent[s] < MaxChunks
          /\ audioSent' = [audioSent EXCEPT ![s] = @ + 1]
          /\ \/ UNCHANGED ring
             \/ Audio!Buffer!WriteData(
                  <<[session |-> s, n |-> audioSent[s] + 1]>>)
      BY <2>1, Zenon DEF Audio!OnMediaWithTimestampIndication
    <3>2. audioSent[s] + 1 \in 1 .. MaxChunks
      BY <1>5, <3>1, OutputsAssumption
    <3>3. [session |-> s, n |-> audioSent[s] + 1] \in Audio!Chunk
      BY <3>2, Zenon DEF Audio!Chunk
    <3>4. audioSent' \in [Audio!Session -> 0 .. MaxChunks]
      BY <1>5, <3>1, <3>2, OutputsAssumption
    <3>5. ring' \in Seq(Audio!Chunk) /\ Len(ring') <= RingChunks
      BY <1>5, <3>1, <3>3, RingBounded, Zenon
    <3>6. QED
      BY <3>4, <3>5
  <2>2. CASE ~Audio!OnMediaWithTimestampIndication(s)
    <3>1. UNCHANGED <<audioSent, ring>>
      BY <2>2, Zenon
      DEF Audio!ServiceStart, Audio!SessionStop, Audio!ServiceStop,
          Audio!OnMediaChannelStartIndication,
          Audio!OnMediaChannelStopIndication, Audio!ChannelFails
    <3>2. QED
      BY <1>5, <3>1, Zenon
  <2>3. QED
    BY <2>1, <2>2
<1>7. QED
  BY <1>1, <1>2, <1>3, <1>4, <1>6, Zenon DEF Audio!TypeOK

(* So do those of the sink's thread and of the audio system. *)
LEMMA SinkTypes ==
  ASSUME Audio!TypeOK, Audio!SinkThread \/ Audio!Play
  PROVE  Audio!TypeOK'
<1>1. UNCHANGED <<audioPhase, audioReceiving, audioSent, audioRequested>>
  BY Zenon
  DEF Audio!SinkThread, Audio!CreateAudioOutput, Audio!OnStartPlayback,
      Audio!OnStopPlayback, Audio!ReopenRing, Audio!OnSuspendPlayback,
      Audio!Handle, Audio!Play, Audio!serviceVars, Audio!requests
<1>2. /\ playbackStarted' \in BOOLEAN /\ reopening' \in BOOLEAN
      /\ sink' \in {"none", "stopped", "active", "suspended"}
  BY Zenon
  DEF Audio!SinkThread, Audio!CreateAudioOutput, Audio!OnStartPlayback,
      Audio!OnStopPlayback, Audio!ReopenRing, Audio!OnSuspendPlayback,
      Audio!Handle, Audio!Play, Audio!sinkVars, Audio!TypeOK
<1>3. audioSignals' \in Seq(Audio!Signal)
  <2>1. \/ UNCHANGED audioSignals
        \/ audioSignals # <<>> /\ audioSignals' = Tail(audioSignals)
    BY Zenon
    DEF Audio!SinkThread, Audio!CreateAudioOutput, Audio!OnStartPlayback,
        Audio!OnStopPlayback, Audio!ReopenRing, Audio!OnSuspendPlayback,
        Audio!Handle, Audio!Play, Audio!requests
  <2>2. audioSignals \in Seq(Audio!Signal)
    BY Zenon DEF Audio!TypeOK
  <2>3. QED
    BY <2>1, <2>2, HeadTailProperties
<1>4. ring' \in Seq(Audio!Chunk) /\ Len(ring') <= RingChunks
  <2>1. ring \in Seq(Audio!Chunk) /\ Len(ring) <= RingChunks
        /\ RingChunks \in Nat /\ Len(ring) \in Nat
    <3>1. ring \in Seq(Audio!Chunk) /\ Len(ring) <= RingChunks
      BY Zenon DEF Audio!TypeOK
    <3>2. QED
      BY <3>1, OutputsAssumption, LenProperties
  <2>2. CASE Audio!Play
    <3>1. ring # <<>> /\ Audio!Buffer!ReadData(1)
      BY <2>2, Zenon DEF Audio!Play
    <3>2. Len(ring) > 0
      BY <2>1, <3>1, EmptySeq
    <3>3. Audio!Buffer!Lesser(1, Len(ring)) = 1
      BY <2>1, <3>2, LesserOne, Zenon
    <3>4. ring' = SubSeq(ring, 2, Len(ring))
      BY <3>1, <3>3 DEF Audio!Buffer!ReadData, Audio!Buffer!EraseBegin
    <3>5. QED
      BY <2>1, <3>2, <3>4, Dropped
  <2>3. CASE Audio!ReopenRing
    <3>1. ring' = <<>>
      BY <2>3, Zenon DEF Audio!ReopenRing, Audio!Buffer!Open
    <3>2. QED
      BY <2>1, <3>1, EmptySeq
  <2>4. CASE ~Audio!ReopenRing /\ ~Audio!Play
    <3>1. UNCHANGED ring
      BY <2>4, Zenon
      DEF Audio!SinkThread, Audio!CreateAudioOutput, Audio!OnStartPlayback,
          Audio!OnStopPlayback, Audio!OnSuspendPlayback
    <3>2. QED
      BY <2>1, <3>1
  <2>5. QED
    BY <2>2, <2>3, <2>4
<1>5. QED
  BY <1>1, <1>2, <1>3, <1>4, Zenon DEF Audio!TypeOK

(* So does every step. *)
LEMMA AudioStepTypes ==
  ASSUME Audio!TypeOK, [Audio!Next]_audioVars
  PROVE  Audio!TypeOK'
<1>1. CASE UNCHANGED audioVars
  BY <1>1, Zenon DEF audioVars, Audio!TypeOK
<1>2. QED
  BY <1>1, AudioServiceTypes, SinkTypes, Zenon DEF Audio!Next, AudioService

-----------------------------------------------------------------------------
(* The three together. *)

(* The inductive invariant. *)
OutputsInv ==
  /\ exercised \in {"ring", "video", "audio"}
  /\ BufferInv
  /\ Video!TypeOK /\ Video!NoLostWakeup /\ OrderInv
  /\ Audio!TypeOK

(* A step of the three is one of each, or leaves it as it is. *)
LEMMA OutputsParts ==
  ASSUME [OutputsNext]_OutputVars
  PROVE  /\ [Next]_vars /\ [Video!Next]_videoVars /\ [Audio!Next]_audioVars
         /\ UNCHANGED exercised
BY Zenon DEF OutputsNext, OutputVars, ringVars, vars

(* The invariant holds at first, *)
LEMMA OutputsInvInit == OutputsInit => OutputsInv
<1>1. Video!Init => Video!NoLostWakeup
  BY Zenon DEF Video!Init, Video!NoLostWakeup
<1>2. QED
  BY <1>1, BufferInit, VideoInitTypes, InitOrder, AudioInitTypes, Zenon
  DEF OutputsInit, OutputsInv

(* after every step, *)
LEMMA OutputsInvStep ==
  ASSUME OutputsInv, [OutputsNext]_OutputVars
  PROVE  OutputsInv'
<1>1. BufferInv'
  BY OutputsParts, BufferStep, Zenon DEF OutputsInv
<1>2. Video!TypeOK'
  BY OutputsParts, VideoStepTypes, Zenon DEF OutputsInv
<1>3. Video!NoLostWakeup'
  BY OutputsParts, WakeupStep, Zenon DEF OutputsInv
<1>4. OrderInv'
  BY OutputsParts, OrderStep, Zenon DEF OutputsInv
<1>5. Audio!TypeOK'
  BY OutputsParts, AudioStepTypes, Zenon DEF OutputsInv
<1>6. QED
  BY <1>1, <1>2, <1>3, <1>4, <1>5, OutputsParts, Zenon DEF OutputsInv

(* and so always. *)
LEMMA OutputsInvHolds == OutputsSpec => []OutputsInv
<1>1. OutputsInv /\ [OutputsNext]_OutputVars => OutputsInv'
  BY OutputsInvStep
<1>2. QED
  BY <1>1, OutputsInvInit, PTL DEF OutputsSpec

-----------------------------------------------------------------------------
(* Theorems. *)

(* Every variable of the ring, the video and the audio output keeps its    *)
(* type; the ring of the audio output never holds more than it can.        *)
THEOREM TypeCorrect == OutputsSpec => []OutputsTypeOK
<1>1. OutputsInv => OutputsTypeOK
  BY Zenon DEF OutputsInv, OutputsTypeOK, BufferInv
<1>2. QED
  BY <1>1, OutputsInvHolds, PTL

(* For every capacity, and writes of every size: what waits in the ring is *)
(* the newest audio, without a gap.                                        *)
THEOREM NewestInOrderHolds == OutputsSpec => []NewestInOrder
<1>1. OutputsInv => NewestInOrder
  BY DEF OutputsInv, BufferInv
<1>2. QED
  BY <1>1, OutputsInvHolds, PTL

(* No sample is ever read twice. *)
THEOREM NeverPlayedAgainHolds == OutputsSpec => []NeverPlayedAgain
<1>1. OutputsInv => NeverPlayedAgain
  BY DEF OutputsInv, BufferInv
<1>2. QED
  BY <1>1, OutputsInvHolds, PTL

(* Nothing is dropped that fits. *)
THEOREM DropsNoMoreThanNeededHolds == OutputsSpec => DropsNoMoreThanNeeded
<1>1. ASSUME OutputsInv, [OutputsNext]_OutputVars
      PROVE  [written' > written =>
                Len(buffer') = Lesser(Capacity,
                                      Len(buffer) + (written' - written))]_vars
  <2>1. BufferInv /\ [Next]_vars
    BY <1>1, OutputsParts, Zenon DEF OutputsInv
  <2>2. SUFFICES ASSUME Next, written' > written
                 PROVE  Len(buffer') = Lesser(Capacity,
                                       Len(buffer) + (written' - written))
    BY <2>1
  <2>3. PICK len \in 1 .. MaxLen : Write(len)
    BY <2>1, <2>2, MaxWrittenAssumption
    DEF Next, Reopen, Read, BufferInv, TypeOK
  <2>4. written' - written = len
    BY <2>1, <2>3, MaxLenAssumption, MaxWrittenAssumption
    DEF Write, BufferInv, TypeOK
  <2>5. QED
    BY <2>1, <2>3, <2>4, WriteKeeps DEF BufferInv
<1>2. QED
  BY <1>1, OutputsInvHolds, PTL DEF OutputsSpec, DropsNoMoreThanNeeded

(* Whoever writes, stops or destroys the output, the decode thread does    *)
(* not sleep through it.                                                   *)
THEOREM NoLostWakeupHolds == OutputsSpec => []NoLostWakeup
<1>1. OutputsInv => NoLostWakeup
  BY DEF OutputsInv, NoLostWakeup
<1>2. QED
  BY <1>1, OutputsInvHolds, PTL

(* The codec gets the packets of a session in the order they were sent,    *)
(* and none of them twice, whatever is flushed in between.                 *)
THEOREM DecodedInOrderHolds == OutputsSpec => []DecodedInOrder
<1>1. OutputsInv => DecodedInOrder
  BY InOrderByParts DEF OutputsInv, OrderInv, DecodedInOrder
<1>2. QED
  BY <1>1, OutputsInvHolds, PTL
=============================================================================
