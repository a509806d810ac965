SPECIFICATION NSpec
CONSTANTS
  MAX_DIRS = 9
  MAX_KEEPDIR = 2
  MAX_SUBDIRS = 3
  Untyped <- Mounted
  MaxDepth = 2
  MaxDirs = 11
  MaxTops = 2
  MaxBlind = 3
  Names = {"a"}
  MaxFiles = 1
  MaxQueue = 2
  Rewrites = FALSE
INVARIANTS
  NamesWatched
  NTypeOK
  PathWatched
  GraceKept
  EachAnnounced
CHECK_DEADLOCK FALSE
