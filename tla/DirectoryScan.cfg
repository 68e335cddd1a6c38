SPECIFICATION FairSpec
CONSTANTS
  Offsets = {1, 2}
  Kinds = {"good", "cut"}
  MaxDirs = 3
  MaxDirn = 1
  SubDirectories = TRUE
  MayRunOut = TRUE
PROPERTY NoDirectoryTwice
PROPERTY ScanEnds
CHECK_DEADLOCK FALSE
