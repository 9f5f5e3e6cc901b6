SPECIFICATION Spec
CONSTANTS
  n1 = n1
  n2 = n2
  c1 = c1
  c2 = c2
  c3 = c3
  Node = {n1, n2}
  Client = {c1, c2, c3}
  Home <- Homes
  Durations = {1}
  Stale = 1
  Skew <- SecondAhead
  MaxOffset = 1
  MaxNow = 2
  MaxCalls = 3
  MaxApplies = 2
  Int32Max = 20
INVARIANTS
  TypeOK
  NoDoubleCount
CHECK_DEADLOCK FALSE
