SPECIFICATION FairSpec
CONSTANTS
  Offsets = {1, 2}
  Kinds = {"good", "bad", "odd", "cut", "unreadable"}
  MaxDirs = 3
  MaxDirn = 2
  SubDirectories = FALSE
  MayRunOut = FALSE
INVARIANT TypeOK
INVARIANT ListIsHistory
INVARIANT CurrentIsIndex
INVARIANT CountsTheChain
PROPERTY CallsReturn
CHECK_DEADLOCK FALSE
