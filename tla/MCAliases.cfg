SPECIFICATION Spec
CONSTANTS
  NULL = NULL
  Streams = {"stable"}
  Paths = {"duo.zip", "/data/duo.zip"}
  FileOf <- AliasedFiles
  Tokens = {"t1"}
  KeepCount = 1
  MaxReleases = 2
  MaxEdits = 0
  MaxUploads = 1
  MaxFaults = 0
PROPERTIES
  NeededFilesStay
CHECK_DEADLOCK FALSE
