SPECIFICATION FairLeaveSpec
CONSTANTS
  n1 = n1
  n2 = n2
  Node <- TwoNodes
  Ops = {"metric"}
  Capacity = 2
  BatchLimit = 2
  MaxLogs <- BothWrite
  MaxJoins = 2
  MaxConns = 1
  MaxFaults = 1
PROPERTIES
  AllDelivered
CHECK_DEADLOCK FALSE
