SPECIFICATION SFairSpec
CONSTANTS
  F_VERSION_M = 3
  NFiles = 6
  MaxFails = 0
  MaxTimeouts = 1
  MaxBehind = 3
PROPERTIES
  SenderGoesOn
CHECK_DEADLOCK FALSE
