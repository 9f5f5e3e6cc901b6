SPECIFICATION Spec
CONSTANTS
  Node = {n1, n2, n3}
  Wall = {1, 3}
  Offsets = {1, 2}
  DefaultMaxOffset = 1
  MaxTicks = 5
  Int32Max = 5
SYMMETRY NodeSymmetry
INVARIANTS
  TypeOK
  DriftBounded
  Causality
PROPERTIES
  ClockAdvances
