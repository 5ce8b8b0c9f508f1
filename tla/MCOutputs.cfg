\* The ring, the video and the audio output, each by itself.
CONSTANTS
  Capacity = 4
  MaxLen = 6
  MaxWritten = 24
  Sessions = 2
  MaxPackets = 2
  RingChunks = 2
  MaxChunks = 2
  MaxSignals = 3
SPECIFICATION OutputsSpec
INVARIANTS
  OutputsTypeOK NoLostWakeup DecodedInOrder NewestInOrder
PROPERTIES
  PacketsMoveOn LastRequestHolds DropsNoMoreThanNeeded
\* Sessions end, and the bounds are used up.
CHECK_DEADLOCK FALSE
