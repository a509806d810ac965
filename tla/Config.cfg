SPECIFICATION CSpec
CONSTANTS
  Files <- Samples
  Texts <- Damaged
  Matching <- Matched
  BadPatterns = {"["}
  FileNames = {"kobe_1", "osaka_1"}
  Types = {"vr", "ze", "qcf"}
  MAX_CONF = 2
  MAX_SYNCFILES = 2
INVARIANTS
  CTypeOK
  ReadsAsMeant
CHECK_DEADLOCK FALSE
