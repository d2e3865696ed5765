SPECIFICATION Spec
CONSTANTS
  SpreadingFactors = {7, 8, 9, 10, 11}
  MaxRetries = 3
  Latency = 3
  Slack = 1
INVARIANTS
  TypeOK
  HandedOnce
  RouteOutlivesWait
CHECK_DEADLOCK FALSE
