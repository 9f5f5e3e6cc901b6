SPECIFICATION MetricSpec
CONSTANTS
  n1 = n1
  n2 = n2
  c1 = c1
  c2 = c2
  c3 = c3
  Node = {n1, n2}
  Client = {c1, c2, c3}
  Home <- Homes
  Deltas <- Amounts
  MaxCalls = 3
  MaxCrashes = 1
  MaxRepeats = 1
INVARIANTS
  MetricTypeOK
  PartialsExact
  AggregateIsSum
  NeverOvercounts
  MetricsAgree
  MetricIsSum
  AverageInRange
SYMMETRY Twins
CHECK_DEADLOCK FALSE
