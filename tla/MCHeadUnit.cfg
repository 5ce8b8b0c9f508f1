\* Updates, the framing of the Bluetooth server's messages, and the WiFi.
CONSTANTS
  MaxAttempts = 3
  MaxDownloads = 2
  MaxClients = 2
  MaxMessages = 2
  MaxLength = 2
  Iface = {"wlan0", "wlan1"}
  Network = {"home"}
  None = "none"
  MaxAsked = 3
  MaxWaiting = 2
SPECIFICATION HeadUnitSpec
INVARIANTS HeadUnitTypeOK OneCheckAtATime HandledAsSent LastRequestStands
PROPERTIES CheckEnds DialogsClose ScanSettles
\* The program ends, and phones and users have said all they had to say.
CHECK_DEADLOCK FALSE
