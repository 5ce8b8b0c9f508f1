----------------------- MODULE AndroidBluetoothServer -----------------------
(***************************************************************************)
(* The RFCOMM server over which a phone is told how to join the WiFi of    *)
(* the head unit, before it connects to the ProjectionManager.             *)
(*                                                                         *)
(* The phone's messages, each a header of four bytes (length and id) and   *)
(* a payload, are a stream of bytes that arrives in pieces of any size;    *)
(* the socket's readyRead calls readSocket() once for each piece, on the   *)
(* GUI thread.  Four bytes that are not a header are read as one anyway:   *)
(* as some length and some id.                                             *)
(*                                                                         *)
(* What the messages say is left out: of the phone's, only WifiInfoRequest *)
(* makes the server do more than log.                                      *)
(***************************************************************************)
EXTENDS Naturals, Sequences, SequencesExt

CONSTANTS
  MaxClients,   \* bound: phones that connect, one after the other
  MaxMessages,  \* bound: messages a phone sends on its connection
  MaxLength     \* bound: bytes of a payload

VARIABLES
  client,   \* socket: the phone that connected last, 0 for nullptr
  clean,    \* history: buffer was empty when that phone connected
  sent,     \* the messages that phone has sent
  wire,     \* bytes of them that have not arrived
  buffer,   \* buffer
  handled,  \* history: the messages handled since that phone connected
  responses \* WifiInfoResponses sent to that phone

vars == <<client, clean, sent, wire, buffer, handled, responses>>

Header == 4
Kind == {"info_request", "other"}
Message == [client : 1 .. MaxClients, n : 1 .. MaxMessages,
            kind : Kind, length : 0 .. MaxLength]

Bytes(m) == [i \in 1 .. Header + m.length |-> [message |-> m, i |-> i]]

(* What four bytes that are not a header are read as. *)
Anything == [client : {0}, n : {0}, kind : Kind, length : 0 .. MaxLength]

Byte == [message : Message, i : 1 .. Header + MaxLength]

TypeOK ==
  /\ client \in 0 .. MaxClients /\ clean \in BOOLEAN
  /\ sent \in Seq(Message) /\ Len(sent) <= MaxMessages
  /\ wire \in Seq(Byte) /\ buffer \in Seq(Byte)
  /\ handled \in Seq(Message \cup Anything)
  /\ responses \in Nat

Init ==
  /\ client = 0 /\ clean = TRUE
  /\ sent = <<>> /\ wire = <<>> /\ buffer = <<>>
  /\ handled = <<>> /\ responses = 0

-----------------------------------------------------------------------------
(* A phone connects: it replaces the socket of the one before, and is sent *)
(* a WifiVersionRequest and a WifiStartRequest.                            *)
OnClientConnected ==
  /\ client < MaxClients
  /\ client' = client + 1
  /\ clean' = (buffer = <<>>)
  /\ sent' = <<>> /\ wire' = <<>> /\ handled' = <<>> /\ responses' = 0
  /\ UNCHANGED buffer

PhoneSends ==
  /\ client > 0 /\ Len(sent) < MaxMessages
  /\ \E kind \in Kind, length \in 0 .. MaxLength :
       LET m == [client |-> client, n |-> Len(sent) + 1,
                 kind |-> kind, length |-> length]
       IN  sent' = Append(sent, m) /\ wire' = wire \o Bytes(m)
  /\ UNCHANGED <<client, clean, buffer, handled, responses>>

(* What the first bytes are taken for: the message they are the header of, *)
(* or anything.                                                            *)
Decode(bytes) ==
  LET m == bytes[1].message
  IN  IF SubSeq(bytes, 1, Header) = SubSeq(Bytes(m), 1, Header)
      THEN {m}
      ELSE Anything

Handle(m) ==
  /\ handled' = Append(handled, m)
  /\ responses' = IF m.kind = "info_request" THEN responses + 1 ELSE responses

(* Fault: the length of the header is not reckoned with. *)
ReadMessageEarly(bytes) ==
  IF Len(bytes) < Header
  THEN buffer' = bytes /\ UNCHANGED <<handled, responses>>
  ELSE \E m \in Decode(bytes) :
         IF Len(bytes) < m.length
         THEN buffer' = bytes /\ UNCHANGED <<handled, responses>>
         ELSE /\ Handle(m)
              /\ buffer' = SubSeq(bytes, m.length + Header + 1, Len(bytes))

(* One message is handled, if it is there: the rest waits for more bytes. *)
ReadMessage(bytes) ==
  IF Len(bytes) < Header
  THEN buffer' = bytes /\ UNCHANGED <<handled, responses>>
  ELSE \E m \in Decode(bytes) :
         IF Len(bytes) < m.length + Header
         THEN buffer' = bytes /\ UNCHANGED <<handled, responses>>
         ELSE /\ Handle(m)
              /\ buffer' = SubSeq(bytes, m.length + Header + 1, Len(bytes))

(* readyRead: a piece of the stream has arrived. *)
ReadSocket ==
  /\ \E n \in 1 .. Len(wire) :
       /\ ReadMessage(buffer \o SubSeq(wire, 1, n))
       /\ wire' = SubSeq(wire, n + 1, Len(wire))
  /\ UNCHANGED <<client, clean, sent>>

Next == OnClientConnected \/ PhoneSends \/ ReadSocket

Spec == Init /\ [][Next]_vars

(* Bytes that were sent arrive; phones need neither come nor speak. *)
FairSpec == Spec /\ WF_vars(ReadSocket)

-----------------------------------------------------------------------------
(* Properties. *)

(* The bytes are those of the messages, one after the other: the first k   *)
(* messages take the first end[k] bytes.                                   *)
Are(bytes, messages) ==
  \E end \in [0 .. Len(messages) -> 0 .. Len(bytes)] :
    /\ end[0] = 0 /\ end[Len(messages)] = Len(bytes)
    /\ \A k \in 1 .. Len(messages) :
         /\ end[k] = end[k - 1] + Header + messages[k].length
         /\ \A i \in 1 .. Header + messages[k].length :
              bytes[end[k - 1] + i] = Bytes(messages[k])[i]

(* However the stream is cut into pieces, messages are handled as sent, in *)
(* order and once each: unless an earlier phone left a piece of a message  *)
(* behind in the buffer, which onClientConnected() does not empty.  No     *)
(* byte is lost or taken twice: what is in the buffer and on the way is    *)
(* exactly the messages that were not handled yet.                         *)
HandledAsSent ==
  clean => /\ IsPrefix(handled, sent)
           /\ Are(buffer \o wire, SubSeq(sent, Len(handled) + 1, Len(sent)))

(* A WifiInfoRequest is answered, as readSocket()'s comment says, unless   *)
(* another phone takes over.                                               *)
InfoRequestAnswered ==
  \A n \in 1 .. MaxMessages, c \in 1 .. MaxClients :
    (client = c /\ n \in DOMAIN sent /\ sent[n].kind = "info_request")
      ~> (client # c \/ \E k \in DOMAIN handled : handled[k].n = n)
=============================================================================
