\* Safety of the manager and its sessions; connections are interchangeable.
CONSTANTS
  NoConn = NoConn
  Conn = {c1, c2}
  IoThreads = 1
  MaxMsgs = 1
  MaxTasks = 3
SPECIFICATION Spec
SYMMETRY Symmetry
INVARIANTS TypeOK SingleSession NeverDeaf DeafSessionIsEnding MethodTracksSession
PROPERTY ImplementsSafety
\* After stop() the last accept is never renewed and everything comes to rest.
CHECK_DEADLOCK FALSE
