SPECIFICATION Spec
CONSTANTS
  Order <- MCOrder
  Parent <- MCParent
  Jobs <- MCJobs
  Images <- MCImages
  Faults = {"break", "corrupt", "kill"}
  Writers = {"first", "second"}
  Verified = {"kernel"}
  Absent = Absent
CHECK_DEADLOCK FALSE
INVARIANTS
  NeverRefused
  VerificationIsHonest
PROPERTIES
  OutputIsWhole
  WrongFilesAreUnread
