\* What is shown while an update is downloaded.
CONSTANTS
  MaxAttempts = 3
  MaxDownloads = 2
SPECIFICATION Spec
INVARIANT DownloadingShown
CHECK_DEADLOCK FALSE
