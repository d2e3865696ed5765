SPECIFICATION Spec
CONSTANTS
  a = a
  b = b
  c = c
  d = d
  e = e
  f = f
  Nowhere = Nowhere
  NoParent = NoParent
  NoRoute = NoRoute
  Ships <- MCPair
  Edges <- MCEdges
  Rank <- MCRank
  Places <- MCCoast
  Apart <- MCApart
  EdgeAt <- MCNear
  Fleets <- MCUnderWay
  MaxRangeKm = 1
  Jitter = 1
  MaxHops = 2
  MaxChanges = 2
  Faults = {"shed", "infra"}
INVARIANTS
  ViewCurrent
  RoutesKnown
PROPERTIES
  Converges
