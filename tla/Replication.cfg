SPECIFICATION FairSpec
CONSTANTS
  n1 = n1
  n2 = n2
  Node <- TwoNodes
  Ops = {"metric"}
  Capacity = 1
  BatchLimit = 2
  MaxLogs <- OneOrBoth
  MaxJoins = 1
  MaxConns = 2
  MaxFaults = 1
INVARIANTS
  NoGap
PROPERTIES
  AllDelivered
CHECK_DEADLOCK FALSE
