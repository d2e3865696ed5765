SPECIFICATION Spec
CONSTANTS
  a = a
  s1 = s1
  s2 = s2
  NoSocket = NoSocket
  NoTable = NoTable
  Due = Due
  Unseen = Unseen
  NoAnswer = NoAnswer
  Ships <- MCShips
  Sockets <- MCSockets
  ShipOf <- MCShipOf
  Early <- MCEarly
  Frail <- MCFrail
  FeedSize = 2
  MaxFrames = 1
  MaxDrops = 1
  Scenarios <- MCScenarios
INVARIANTS
  TypeOK
  NewestRegistered
PROPERTIES
  Operational
  EndedQuiet
  EndNoticed
  PingsHeal
  CountersSettle
CHECK_DEADLOCK FALSE
