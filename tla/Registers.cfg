SPECIFICATION Spec
CONSTANTS
  None = None
  n1 = n1
  n2 = n2
  c1 = c1
  c2 = c2
  c3 = c3
  x = x
  Node = {n1, n2}
  Client = {c1, c2, c3}
  Home <- Clients
  Data = {x}
  Calls <- Arguments
  Milli = 2
  Second = 2
  Grace = 3
  Skew <- SecondAhead
  MaxOffset = 1
  MaxNow = 3
  MaxTicks = 4
  Int32Max = 9
INVARIANTS
  TypeOK
  ConvergesWithoutTies
  LaterCallWins
  DeletedStaysDeleted
  ScansAsSet
  ExpiresEverywhere
CHECK_DEADLOCK FALSE
