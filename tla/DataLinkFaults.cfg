SPECIFICATION Spec
CONSTANTS
  a = a
  b = b
  e = e
  p = p
  NoNode = NoNode
  NoFrame = NoFrame
  Nodes <- MCNodes
  Edges <- MCEdges
  Packets <- MCPackets
  Origin <- MCOrigin
  Scenarios <- FaultScenarios
  MaxRetries = 1
  MaxHops = 2
  MaxExpiries = 1
INVARIANTS
  TypeOK AckSound OncePerWindow EdgeAckMeansDelivered
PROPERTIES
  HopDelivery
CHECK_DEADLOCK FALSE
