SPECIFICATION FairSpec
CONSTANTS
  Lingering = FALSE
  MaxRuns = 2
  MaxUnread = 2
CHECK_DEADLOCK FALSE
INVARIANTS
  OneReportPerRun
PROPERTIES
  ReportIsTrue
  EveryRunReports
