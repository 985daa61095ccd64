SPECIFICATION FairSpec
CONSTANTS
  Lingering = TRUE
  MaxRuns = 2
  MaxUnread = 2
CHECK_DEADLOCK FALSE
PROPERTIES
  CancelFreesRunner
