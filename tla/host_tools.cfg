SPECIFICATION Spec
CONSTANTS
  CommandLines <- MCCommandLines
  Y2K <- MCY2K
  Layouts <- MCLayouts
  LongNames = {"docs", "LONGNAME.UFS"}
  Accidents = {"network", "builder", "kill"}
  MaxRuns = 2
  None = None
  Makers = {"one", "two"}
  Tasks <- MCTasks
  Sources <- MCSources
  Edits <- MCEdits
  MaxEdits = 1
  Mishaps = {"tool", "kill"}
  Nothing = Nothing
  Adopters = {"a1", "a2"}
  Media = {"user", "dev", "table"}
  Repository = {"table"}
  Optional_ = {"dev"}
  Profiles <- MCProfiles
  PathNames <- MCPathNames
  Manifest <- MCManifest
  Candidates = {"f1", "f2"}
  Tampers = 1
  Kills = 1
  Adoptions = 3
  Missing = Missing
  Volumes <- MCVolumesOf
  Requests <- MCRequests
  Deaths = 1
  Unset = Unset
  RawDiscs <- MCRawDiscs
  Templates <- MCTemplates
  Wraps <- MCWraps
  Masters <- MCMasters
  FilePlaces = {20, 65535, 65536}
  Mishaps_ = {"builder", "kill"}
  Blank = Blank
  Pinned <- MCPinned
  Restored <- MCRestored
  Overlay = {"nextlabel.c", "util/Makefile"}
  Edited <- MCEdited
  Trouble = 2
CHECK_DEADLOCK FALSE
INVARIANTS
  RebuiltAsAsked
  SuccessIsUsable
  PublishedAsChecked
  VaultIsHonest
  TreeIsExtracted
  OnlyHardTreesFail
  CandidateHasItsPaths
  LabelsLead
  OnlyTroubleFails
  PreparedIsPatched
PROPERTIES
  PublishedOnce
