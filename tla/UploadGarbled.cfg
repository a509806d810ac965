SPECIFICATION TSpec
CONSTANTS
  F_VERSION_M = 3
  NFiles = 6
  MaxFails = 1
  MaxTimeouts = 1
  MaxBehind = 3
  NMoved = 4
  Blocks = 2
  MoverDeaths = 1
  ReaderDeaths = 1
  Opens = TRUE
  Uploads <- Requests
  Form <- Forms
  Cells = 3
  MaxChunk = 2
  MaxOpen = 2
  BUFSIZ = 2
  DiskFills = TRUE
INVARIANT
  StoredAsSent
CHECK_DEADLOCK FALSE
