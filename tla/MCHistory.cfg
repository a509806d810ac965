SPECIFICATION HistSpec
CONSTANTS
  nh = 3
  Types <- MCTypes
  Dates <- MCDates
  Late = 1
INVARIANTS
  HistTypeOK
  PointersAgree
  DatesDescend
  OneDatePerEntry
  DiskIsRegistered
PROPERTIES
  KeepsRecent
  ImplementsQueue
CHECK_DEADLOCK FALSE
