\* Messages that arrive together.
CONSTANTS
  MaxClients = 1
  MaxMessages = 2
  MaxLength = 1
SPECIFICATION FairSpec
PROPERTY InfoRequestAnswered
CHECK_DEADLOCK FALSE
