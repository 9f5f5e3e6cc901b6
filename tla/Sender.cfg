SPECIFICATION FairSpec
CONSTANTS
  Absent = Absent
  Stored = 0
  MaxLog = 1
  MaxSeen = 1
  MaxJoins = 2
  MaxFaults = 1
INVARIANTS
  TypeOK
  NoLostWakeup
  NoConnLeak
  HandshakeCarried
PROPERTIES
  AllSent
CHECK_DEADLOCK FALSE
