SPECIFICATION Spec
CONSTANTS
  c1 = c1
  c2 = c2
  a = a
  tx = tx
  calm = calm
  storm = storm
  low = low
  high = high
  Clients <- MCClients
  Ships <- MCShips
  SpreadingFactors <- MCSpreadingFactors
  Powers <- MCPowers
  Weathers <- MCWeathers
  NoRow = NoRow
  NoParams = NoParams
  Faults = {"infra", "shed", "crash"}
  MaxRequests = 3
  MaxVisits = 2
  MaxCrashes = 1
INVARIANTS
  TypeOK
  CacheCurrent
  ToldCurrent
  Serving
  StopCleans
PROPERTIES
  RowLife
SYMMETRY MCSymmetry
CHECK_DEADLOCK FALSE
