SPECIFICATION Spec
CONSTANTS
  a = a
  b = b
  c = c
  d = d
  e = e
  f = f
  Nowhere = Nowhere
  NoParent = NoParent
  NoRoute = NoRoute
  Ships <- MCShips
  Edges <- MCEdges
  Rank <- MCRank
  Places <- MCLine
  Apart <- MCApart
  EdgeAt <- MCEnds
  Fleets <- MCAnyFleet
  MaxRangeKm = 2
  Jitter = 0
  MaxHops = 3
  MaxChanges = 0
  Faults = {}
INVARIANTS
  TypeOK
  RoutesShortest
