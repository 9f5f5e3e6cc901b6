SPECIFICATION FailureSpec
CONSTANTS
  n1 = n1
  n2 = n2
  Node <- TwoNodes
  Ops = {"metric"}
  Capacity = 1
  BatchLimit = 2
  MaxLogs <- OneWrites
  MaxJoins = 2
  MaxConns = 2
  MaxFaults = 2
INVARIANTS
  TypeOK
PROPERTIES
  ImplementsDelivery
CHECK_DEADLOCK FALSE
