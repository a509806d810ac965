SPECIFICATION LWSpec
CONSTANTS
  nh = 5
  Types <- Types2
  Dates <- Dates5
  Late = 1
  Clients = {c1}
  NoClient = NoClient
  Counts = {2}
  OpenTypes = {1}
  MaxOverrun = 2
  MaxDeaths = 1
INVARIANTS
  LWTypeOK
  RepliesWhole
  NoMissedEntry
  NeverAgain
PROPERTIES
  HistSpec
  RemovesServed
CHECK_DEADLOCK FALSE
