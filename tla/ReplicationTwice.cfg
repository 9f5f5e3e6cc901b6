SPECIFICATION Spec
CONSTANTS
  n1 = n1
  n2 = n2
  Node <- TwoNodes
  Ops = {"metric"}
  Capacity = 2
  BatchLimit = 2
  MaxLogs <- Uneven
  MaxJoins = 1
  MaxConns = 1
  MaxFaults = 0
INVARIANTS
  MetricOnce
CHECK_DEADLOCK FALSE
