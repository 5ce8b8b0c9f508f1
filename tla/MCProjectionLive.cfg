\* Liveness of the manager and its sessions, and the abstract lifecycle.
CONSTANTS
  NoConn = NoConn
  Conn = {c1, c2}
  IoThreads = 1
  MaxMsgs = 1
  MaxTasks = 1
SPECIFICATION FairSpec
PROPERTIES KeepsListening ImplementsLifecycle
CHECK_DEADLOCK FALSE
