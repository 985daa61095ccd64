SPECIFICATION FairSpec
CONSTANTS
  Drivers <- MCDrivers
  InvalidNames = {"PPP+"}
  BuiltInTables = {"PS2Keyboard"}
  BuiltInSize = 470
  TableSizes = {4096, 24576}
  KeyDeltas <- MCKeyDeltas
  KernelAddress = 1048576
  KernelSizes = {1085440, 4189900}
  LinkSizes = {0, 4096, 40960}
  SarldEnds = {335872, 400000}
  DriverLimit = 2
  AtapiSlave = TRUE
  PrimaryOnly = TRUE
CHECK_DEADLOCK FALSE
INVARIANTS
  RecordsTile
  CutTableIsLast
  HandoffIsConsistent
PROPERTIES
  BootInfoOutlivesReads
  HandoffHappens
