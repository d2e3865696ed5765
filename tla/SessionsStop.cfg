SPECIFICATION Spec
CONSTANTS
  c1 = c1
  c2 = c2
  a = a
  tx = tx
  calm = calm
  storm = storm
  low = low
  high = high
  Clients <- MCClients
  Ships <- MCShips
  SpreadingFactors <- MCSpreadingFactors
  Powers <- MCPowers
  Weathers <- MCWeathers
  NoRow = NoRow
  NoParams = NoParams
  Faults = {}
  MaxRequests = 2
  MaxVisits = 2
  MaxCrashes = 0
INVARIANTS
  StopDisconnects
CHECK_DEADLOCK FALSE
