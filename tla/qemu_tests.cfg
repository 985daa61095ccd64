SPECIFICATION FairSpec
CONSTANTS
  Suites <- MCSuites
  Screens <- MCScreens
  MaxAttempts = 2
  Absent = Absent
CHECK_DEADLOCK FALSE
INVARIANTS
  QemuIsGone
  PassedWasShown
  ReportsAgree
  SuiteIsJudgedByAll
PROPERTIES
  EveryTestEnds
