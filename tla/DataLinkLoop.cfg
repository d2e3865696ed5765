SPECIFICATION Spec
CONSTANTS
  a = a
  b = b
  e = e
  p = p
  NoNode = NoNode
  NoFrame = NoFrame
  Nodes <- MCNodes
  Edges <- MCEdges
  Packets <- MCPackets
  Origin <- MCOrigin
  Scenarios <- LoopScenarios
  MaxRetries = 1
  MaxHops = 2
  MaxExpiries = 0
INVARIANTS
  RowsHonest
PROPERTIES
  VerdictFinal Quiesces EndToEnd
CHECK_DEADLOCK FALSE
