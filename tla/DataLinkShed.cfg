SPECIFICATION Spec
CONSTANTS
  a = a
  b = b
  e = e
  p = p
  NoNode = NoNode
  NoFrame = NoFrame
  Nodes <- MCNodes
  Edges <- MCEdges
  Packets <- MCPackets
  Origin <- MCOrigin
  Scenarios <- ShedScenarios
  MaxRetries = 1
  MaxHops = 2
  MaxExpiries = 0
INVARIANTS
  DuplicateGotThrough
CHECK_DEADLOCK FALSE
