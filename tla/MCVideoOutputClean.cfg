\* The state of the codec when a session's packets reach it.
CONSTANTS
  Sessions = 2
  MaxPackets = 2
SPECIFICATION Spec
INVARIANT CleanStart
CHECK_DEADLOCK FALSE
