SPECIFICATION LWFairSpec
CONSTANTS
  nh = 5
  Types <- Types2
  Dates <- Dates5
  Late = 1
  Clients = {c1}
  NoClient = NoClient
  Counts = {2}
  OpenTypes = {}
  MaxOverrun = 2
  MaxDeaths = 0
PROPERTIES
  CompleteIsAnswered
CHECK_DEADLOCK FALSE
