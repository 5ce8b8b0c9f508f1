\* The sensors, the input device and the microphone, each by itself.
CONSTANTS
  MaxRequests = 3
  MaxChanges = 4
  Sessions = 2
  MaxEvents = 2
  MaxOpens = 1
  MaxReopens = 3
SPECIFICATION InputsSpec
INVARIANTS
  InputsTypeOK ComparesWithTold ReportsInOrder HandlerExists
  FlowingWhileOpen
PROPERTIES PollsForSession ChainsEnd
\* The sessions end.
CHECK_DEADLOCK FALSE
