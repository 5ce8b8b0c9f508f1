\* What the user is told of the connection.
CONSTANTS
  Iface = {wlan0, wlan1}
  Network = {home}
  None = None
  MaxAsked = 1
  MaxWaiting = 2
SPECIFICATION Spec
INVARIANT ConnectedIsAccurate
CHECK_DEADLOCK FALSE
