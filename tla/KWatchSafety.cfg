SPECIFICATION KWSpec
CONSTANTS
  nhist = 3
  Types <- Types2
  Dates <- Dates4
  Late = 1
  MaxLate = 1
  Counts = {2}
  OpenTypes = {1}
  MaxSkipped = 2
  MaxDeaths <- AppDeath
INVARIANTS
  KWTypeOK
  KOneDate
  GotRecent
  TakenOnce
  OneEntryPerDate
  DiskInRing
PROPERTIES
  KeepsHistory
CHECK_DEADLOCK FALSE
