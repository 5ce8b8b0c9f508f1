\* Two scans, the second of which the timer of the first stops.
CONSTANTS
  Device = {p1}
  Adapter = {a1}
  None = None
  MaxScans = 2
  MaxErrors = 0
  MaxRequests = 0
SPECIFICATION Spec
PROPERTY ScanEnds
CHECK_DEADLOCK FALSE
