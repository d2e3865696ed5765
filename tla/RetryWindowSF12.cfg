SPECIFICATION Spec
CONSTANTS
  SpreadingFactors = {12}
  MaxRetries = 3
  Latency = 3
  Slack = 1
INVARIANTS
  HandedOnce
CHECK_DEADLOCK FALSE
