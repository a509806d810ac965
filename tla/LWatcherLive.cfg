SPECIFICATION LWFairSpec
CONSTANTS
  nh = 5
  Types <- Types1
  Dates <- Dates5
  Late = 1
  Clients = {c1, c2}
  NoClient = NoClient
  Counts = {1}
  OpenTypes = {}
  MaxOverrun = 2
  MaxDeaths = 0
PROPERTIES
  CompleteIsAnswered
CHECK_DEADLOCK FALSE
