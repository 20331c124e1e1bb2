SPECIFICATION Spec
CONSTANTS
  NULL = NULL
  Streams = {"stable", "beta"}
  Paths = {"duo.zip", "orb.zip"}
  FileOf <- OwnFiles
  Tokens = {"t1"}
  KeepCount = 1
  MaxReleases = 3
  MaxEdits = 1
  MaxUploads = 2
  MaxFaults = 2
INVARIANTS
  TypeOK
  RevokedNeverServe
PROPERTIES
  NeededFilesStay
  PrunedFilesGo
  NewestAreKept
  ActiveWithinCount
CHECK_DEADLOCK FALSE
