SPECIFICATION WireSpec
CONSTANTS
  Nil = Nil
  Error = Error
  capacity = 2
  BytesPerEntry = 5
  LargeLog = 100
  LargeBuf = 400
  Entry <- SmallEntries
  Entries <- Operations
  Descriptor <- Descriptors
  Handshakes <- Greetings
  FromNode = 5
  limit = 2
  maxBytes = 3
  MaxAppends = 5
INVARIANTS
  TypeOK
  ReadsIntact
  ReadsMakeProgress
  ReceivedAsLogged
  MsgsizeIsBound
  HandshakeAsSent
CHECK_DEADLOCK FALSE
