SPECIFICATION FairSpec
CONSTANTS
  c1 = c1
  c2 = c2
  Clients = {c1, c2}
  NoTask = NoTask
  Boards = 2
CHECK_DEADLOCK FALSE
INVARIANTS
  ExclusiveMapping
  DeadOwnerIsNoticed
  LibraryIsCurrent
PROPERTIES
  DeadOwnerReleased
  CallReturns
