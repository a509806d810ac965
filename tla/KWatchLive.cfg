SPECIFICATION KWFairSpec
CONSTANTS
  nhist = 3
  Types <- Types2
  Dates <- Dates4
  Late = 0
  MaxLate = 0
  Counts = {2}
  OpenTypes = {}
  MaxSkipped = 1
  MaxDeaths <- AnyDeath
INVARIANTS
  GotWhole
  RanksAgree
PROPERTIES
  KWatcherGoesOn
CHECK_DEADLOCK FALSE
