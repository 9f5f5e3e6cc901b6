SPECIFICATION Spec
CONSTANTS
  r = r
  c = c
  m = m
  w = w
  q = q
  Key = {r, c, m, w, q}
  Kind <- Keyed
  Shards = 2
  Name <- Names
  Hash <- Hashes
  MaxWrites = 2
  MaxRestarts = 1
  MaxErrors = 1
INVARIANTS
  TypeOK
  ChangesTracked
  CloseKeepsIfAlone
PROPERTIES
  Flushed
CHECK_DEADLOCK FALSE
