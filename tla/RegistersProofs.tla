-------------------------- MODULE RegistersProofs --------------------------
(***************************************************************************)
(* Proofs about the registers of Registers, for any number of nodes and    *)
(* concurrent calls.                                                       *)
(***************************************************************************)
EXTENDS Registers, TLAPS

(***************************************************************************)
(* The clock operations and the order of timestamps of HLC                 *)
(***************************************************************************)

(* The clock operations return timestamps.                                 *)
LEMMA ClockTypes ==
  ASSUME NEW h \in Timestamp, NEW w \in Nat, NEW r \in Timestamp
  PROVE  Now(h, w) \in Timestamp /\ Update(h, w, r) \in Timestamp
BY Int32MaxAssumption DEF Now, Update, Inc32, Larger, Timestamp

(* Now returns a timestamp strictly after the clock's, unless the logical  *)
(* part is at its greatest value.                                          *)
LEMMA NowAdvances ==
  ASSUME NEW h \in Timestamp, NEW w \in Nat, h.l \in 0..Int32Max - 1
  PROVE  /\ Now(h, w) \in Timestamp
         /\ After(Now(h, w), h)
         /\ Now(h, w).l \in 0..h.l + 1
BY Int32MaxAssumption DEF Now, Inc32, After, Timestamp

(* An accepted Update moves the clock strictly past both its old value and *)
(* the timestamp received.                                                 *)
LEMMA UpdateAdvances ==
  ASSUME NEW h \in Timestamp, NEW w \in Nat, NEW r \in Timestamp,
         h.l \in 0..Int32Max - 1, r.l \in 0..Int32Max - 1
  PROVE  /\ Update(h, w, r) \in Timestamp
         /\ After(Update(h, w, r), h)
         /\ After(Update(h, w, r), r)
         /\ Update(h, w, r).l \in 0..Larger(h.l, r.l) + 1
BY Int32MaxAssumption DEF Update, Inc32, Larger, After, Timestamp

(* The order of timestamps is total.                                       *)
LEMMA Order ==
  ASSUME NEW a \in Timestamp, NEW b \in Timestamp, NEW c \in Timestamp
  PROVE  /\ GreaterOrEqual(a, a)
         /\ GreaterOrEqual(a, b) \/ GreaterOrEqual(b, a)
         /\ GreaterOrEqual(a, b) /\ GreaterOrEqual(b, c) => GreaterOrEqual(a, c)
         /\ GreaterOrEqual(a, b) /\ GreaterOrEqual(b, a) => a = b
         /\ After(a, b) => GreaterOrEqual(a, b)
         /\ GreaterOrEqual(a, b) /\ After(b, c) => After(a, c)
         /\ After(a, b) /\ GreaterOrEqual(b, c) => After(a, c)
BY DEF GreaterOrEqual, After, Timestamp

(***************************************************************************)
(* Type correctness                                                        *)
(***************************************************************************)

LEMMA WallType ==
  ASSUME TypeOK, NEW n \in Node
  PROVE  Wall(n) \in Nat
BY RegistersAssumption, SMTT(60) DEF TypeOK, Wall

(* What store.set or store.delete leaves in a register.                    *)
LEMMA PutType ==
  ASSUME TypeOK, NEW n \in Node, NEW e \in Entry
  PROVE  /\ Put(n, e) \in ValWithTS
         /\ Put(n, e) # Missing
         /\ [ts |-> e.ts, val |-> e.val] \in Stamp
<1>1. e.ts \in Timestamp /\ e.val \in Content /\ e.ttl \in Nat /\ e.ts.p \in Nat
  BY Zenon DEF Entry, Timestamp
<1>2. ExpiresAt(n, e) \in Nat
  BY <1>1, RegistersAssumption, SMTT(60) DEF ExpiresAt
<1>3. [ts |-> e.ts, val |-> e.val, expiresAt |-> ExpiresAt(n, e)] \in ValWithTS
  BY <1>1, <1>2, Zenon DEF ValWithTS
<1>4. reg[n] # Missing => reg[n] \in ValWithTS
  BY Zenon DEF TypeOK
<1>5. Put(n, e) \in ValWithTS
  BY <1>3, <1>4, Zenon DEF Put
<1>6. None \notin ValWithTS
  BY RegistersAssumption, Zenon 
<1> QED BY <1>1, <1>5, <1>6, Zenon DEF Missing, Stamp

(* What UnmarshalAny makes of a value that has an encoding.                *)
LEMMA DecodedAs ==
  ASSUME NEW x \in Data, NEW t \in Type \ {"nil", "chan"}
  PROVE  LET val == [type |-> t, data |-> x]
         IN  /\ val \in Value /\ val # Deleted /\ Supported(val)
             /\ t \in {"string", "definedString"} =>
                  Decodable(val) /\ Decoded(val) = [type |-> "string", data |-> x]
             /\ t \in {"bytes", "definedBytes"} =>
                  Decodable(val) /\ Decoded(val) = [type |-> "bytes", data |-> x]
             /\ t \in {"struct", "map"} =>
                  Decodable(val) /\ Decoded(val) = [type |-> "map", data |-> x]
             /\ t = "intMap" => ~Decodable(val) /\ Decoded(val) = Nil
<1> DEFINE val == [type |-> t, data |-> x]
<1>1. val \in Value
  BY DEF Value
<1>2. val # Deleted
  BY <1>1, RegistersAssumption, Zenon DEF Deleted
<1>3. val.type = t /\ val.data = x /\ t \in DOMAIN Format
  BY DEF Type
<1>4. Supported(val)
  BY <1>3, Zenon DEF Supported
<1>5. Decoded(val) = UnmarshalAny([format |-> Format[t], data |-> x])
  BY <1>2, <1>3, <1>4, Zenon DEF Decoded, Marshal
<1>6. Decodable(val) <=> Format[t] \in DOMAIN AnyType
  BY <1>3, <1>4, Zenon DEF Decodable
<1>7. \A fmt : UnmarshalAny([format |-> fmt, data |-> x]) =
        IF fmt \in DOMAIN AnyType THEN [type |-> AnyType[fmt], data |-> x] ELSE Nil
  BY Zenon DEF UnmarshalAny
<1>8. /\ DOMAIN AnyType = {"str", "bin", "map", "nil"}
      /\ AnyType["str"] = "string" /\ AnyType["bin"] = "bytes" /\ AnyType["map"] = "map"
  BY DEF AnyType
<1>9. /\ t \in {"string", "definedString"} => Format[t] = "str"
      /\ t \in {"bytes", "definedBytes"} => Format[t] = "bin"
      /\ t \in {"struct", "map"} => Format[t] = "map"
      /\ t = "intMap" => Format[t] = "intMap"
  BY DEF Format
<1> HIDE DEF val
<1>10. "intMap" \notin DOMAIN AnyType
  BY <1>8
<1>11. "str" \in DOMAIN AnyType /\ "bin" \in DOMAIN AnyType /\ "map" \in DOMAIN AnyType
  BY <1>8, Zenon
<1> QED BY <1>1, <1>2, <1>4, <1>5, <1>6, <1>7, <1>8, <1>9, <1>10, <1>11, Zenon DEF val

LEMMA DecodedNil == Nil \in Value /\ Nil # Deleted /\ Decodable(Nil) /\ Decoded(Nil) = Nil
<1>1. Nil \in Value /\ Nil # Deleted
  BY RegistersAssumption, Zenon DEF Value, Deleted
<1>2. /\ Nil.type = "nil" /\ Nil.data = None /\ "nil" \in DOMAIN Format
      /\ Format["nil"] = "nil" /\ "nil" \in DOMAIN AnyType /\ AnyType["nil"] = "nil"
  BY DEF Nil, Format, AnyType
<1>3. Supported(Nil) /\ Decodable(Nil)
  BY <1>2, Zenon DEF Supported, Decodable
<1>4. Decoded(Nil) = UnmarshalAny([format |-> "nil", data |-> None])
  BY <1>1, <1>2, <1>3, Zenon DEF Decoded, Marshal
<1>5. UnmarshalAny([format |-> "nil", data |-> None]) = Nil
  BY <1>2, Zenon DEF UnmarshalAny, Nil
<1> QED BY <1>1, <1>3, <1>4, <1>5, Zenon

(* A value: nil, a channel, or one of a type that has an encoding.         *)
LEMMA Values ==
  ASSUME NEW val \in Value
  PROVE  \/ val = Nil
         \/ val # Deleted /\ ~Supported(val)
         \/ \E x \in Data : \E t \in Type \ {"nil", "chan"} : val = [type |-> t, data |-> x]
<1>1. ASSUME val # Nil
      PROVE  /\ val.type \in Type \ {"nil"} /\ val.data \in Data
             /\ val = [type |-> val.type, data |-> val.data]
  BY <1>1 DEF Value
<1>2. val # Deleted
  BY RegistersAssumption, Zenon DEF Deleted
<1>3. "chan" \notin DOMAIN Format
  BY DEF Format
<1>4. CASE val = Nil
  BY <1>4, Zenon
<1>5. CASE val # Nil /\ val.type = "chan"
  BY <1>2, <1>3, <1>5, Zenon DEF Supported
<1>6. CASE val # Nil /\ val.type # "chan"
  <2>1. val.type \in Type \ {"nil", "chan"}
    BY <1>1, <1>6, Zenon
  <2> QED BY <1>1, <1>6, <2>1, Zenon
<1> QED BY <1>4, <1>5, <1>6, Zenon

(* What a log entry carries, and what a restart reads back: a value, that  *)
(* decoding again does not change.                                         *)
LEMMA DecodedValue ==
  ASSUME NEW val \in Value
  PROVE  /\ Decoded(val) \in Value /\ Decoded(val) # Deleted
         /\ Decoded(Decoded(val)) = Decoded(val)
         /\ Decodable(val) => Decodable(Decoded(val))
<1>1. CASE val = Nil
  BY <1>1, DecodedNil, Zenon
<1>2. CASE val # Deleted /\ ~Supported(val)
  BY <1>2, Zenon DEF Decoded, Decodable
<1>3. ASSUME NEW x \in Data, NEW t \in Type \ {"nil", "chan"},
             val = [type |-> t, data |-> x]
      PROVE  /\ Decoded(val) \in Value /\ Decoded(val) # Deleted
             /\ Decoded(Decoded(val)) = Decoded(val)
             /\ Decodable(val) => Decodable(Decoded(val))
  <2>1. {"string", "bytes", "map"} \subseteq Type \ {"nil", "chan"}
    BY DEF Type, Format
  <2>2. t \in {"string", "definedString", "bytes", "definedBytes", "struct", "map", "intMap"}
    BY DEF Type, Format
  <2>7. ASSUME NEW a \in {"string", "bytes", "map"}
        PROVE  LET v == [type |-> a, data |-> x]
               IN  v \in Value /\ v # Deleted /\ Decodable(v) /\ Decoded(v) = v
    <3>1. a \in Type \ {"nil", "chan"}
      BY <2>1, Zenon
    <3>2. CASE a = "string"
      BY <3>1, <3>2, DecodedAs, Zenon
    <3>3. CASE a = "bytes"
      BY <3>1, <3>3, DecodedAs, Zenon
    <3>4. CASE a = "map"
      BY <3>1, <3>4, DecodedAs, Zenon
    <3> QED BY <3>2, <3>3, <3>4, Zenon
  <2>3. CASE t \in {"string", "definedString"}
    <3>1. Decoded(val) = [type |-> "string", data |-> x]
      BY <1>3, <2>3, DecodedAs, Zenon
    <3> QED BY <2>7, <3>1, Zenon
  <2>4. CASE t \in {"bytes", "definedBytes"}
    <3>1. Decoded(val) = [type |-> "bytes", data |-> x]
      BY <1>3, <2>4, DecodedAs, Zenon
    <3> QED BY <2>7, <3>1, Zenon
  <2>5. CASE t \in {"struct", "map"}
    <3>1. Decoded(val) = [type |-> "map", data |-> x]
      BY <1>3, <2>5, DecodedAs, Zenon
    <3> QED BY <2>7, <3>1, Zenon
  <2>6. CASE t = "intMap"
    BY <1>3, <2>6, DecodedAs, DecodedNil, Zenon
  <2> QED BY <2>2, <2>3, <2>4, <2>5, <2>6, Zenon
<1> QED BY <1>1, <1>2, <1>3, Values, Zenon

LEMMA DecodedType ==
  ASSUME NEW val \in Content
  PROVE  Decoded(val) \in Content
BY DecodedValue, Zenon DEF Content, Decoded

LEMMA DecodedTwice ==
  ASSUME NEW val \in Content
  PROVE  Decoded(Decoded(val)) = Decoded(val)
BY DecodedValue, Zenon DEF Content, Decoded

(* Only a tombstone is decoded as one.                                     *)
LEMMA DecodedDeleted ==
  ASSUME NEW val \in Content, Decoded(val) = Deleted
  PROVE  val = Deleted
BY DecodedValue, Zenon DEF Content, Deleted

(* What is read back says the same.                                        *)
LEMMA MeaningDecoded ==
  ASSUME NEW v, NEW w, v.val \in Content, v.val = Deleted \/ Decodable(v.val),
         w.ts = v.ts, w.val = Decoded(v.val)
  PROVE  Meaning(w) = Meaning(v)
<1> DEFINE val == v.val
<1>1. CASE val = Deleted
  BY <1>1, Zenon DEF Meaning, Decoded
<1>2. CASE val # Deleted
  <2>1. val \in Value /\ Decodable(val)
    BY <1>2, Zenon DEF Content, Deleted
  <2>2. /\ Decoded(val) # Deleted /\ Decoded(Decoded(val)) = Decoded(val)
        /\ Decodable(Decoded(val))
    BY <2>1, DecodedValue, Zenon
  <2> QED BY <1>2, <2>1, <2>2, Zenon DEF Meaning
<1> QED BY <1>1, <1>2, Zenon

LEMMA LoggedType ==
  ASSUME NEW e \in Entry
  PROVE  Logged(e) \in Entry /\ Logged(e).ts = e.ts
<1>1. e.ts \in Timestamp /\ e.val \in Content /\ e.ttl \in Nat
  BY Zenon DEF Entry
<1>2. (e.ttl \div Milli) * Milli \in Nat
  BY <1>1, RegistersAssumption, SMTT(60) 
<1> QED BY <1>1, <1>2, DecodedType, Zenon DEF Logged, Entry

(* A call in progress.                                                     *)
LEMMA CallType ==
  ASSUME TypeOK, NEW c \in Client
  PROVE  /\ Home[c] \in Node
         /\ call[c] # Idle =>
              /\ call[c] \in Call
              /\ call[c].e \in Entry
              /\ call[c].base \in ValWithTS \cup {Missing}
<1>1. call[c] \in Call \cup {Idle}
  BY Zenon DEF TypeOK
<1> QED BY <1>1, RegistersAssumption, Zenon DEF Call

LEMMA TypeBegin ==
  ASSUME TypeOK, NEW c \in Client, NEW v \in Content, NEW ttl \in Nat,
         Begin(c, v, ttl)
  PROVE  TypeOK'
<1> DEFINE n == Home[c]
           e == [ts |-> Now(clock[n], Wall(n)), val |-> v, ttl |-> ttl]
           k == [pc |-> "set", e |-> e, base |-> reg[n]]
<1>1. n \in Node /\ clock[n] \in Timestamp
  BY CallType, Zenon DEF TypeOK
<1>2. e.ts \in Timestamp /\ e \in Entry
  BY <1>1, WallType, ClockTypes, Zenon DEF Entry
<1>3. k \in Call
  BY <1>1, <1>2, Zenon DEF Call, TypeOK
<1>4. /\ ticks < MaxTicks /\ ticks' = ticks + 1
      /\ clock' = [clock EXCEPT ![n] = e.ts]
      /\ call' = [call EXCEPT ![c] = k]
      /\ issued' = issued \cup {e}
      /\ UNCHANGED <<now, reg, log, incoming, written, dropped, restarted>>
  BY Zenon DEF Begin
<1> HIDE DEF n, e, k
<1>5. ticks' \in 0..MaxTicks
  BY <1>4, RegistersAssumption, SMTT(60) DEF TypeOK
<1> QED BY <1>1, <1>2, <1>3, <1>4, <1>5, Zenon DEF TypeOK

LEMMA TypeStorePut ==
  ASSUME TypeOK, NEW n \in Node, NEW e \in Entry, StorePut(n, e)
  PROVE  /\ reg' \in [Node -> ValWithTS \cup {Missing}]
         /\ written' \in [Node -> SUBSET Stamp]
BY PutType, Zenon DEF TypeOK, StorePut

(* The entry that is held, and what a restart makes of it.                 *)
LEMMA HeldType ==
  ASSUME TypeOK, NEW n \in Node, reg[n] # Missing, NEW wall
  PROVE  /\ reg[n] \in ValWithTS /\ Held(n) \in Stamp
         /\ ReadBack(n, wall) # Missing =>
              /\ ReadBack(n, wall) \in ValWithTS
              /\ ReadBack(n, wall).ts = reg[n].ts
              /\ ReadBack(n, wall).val = Decoded(reg[n].val)
              /\ ReadBack(n, wall).expiresAt = reg[n].expiresAt
              /\ reg[n].val = Deleted \/ Decodable(reg[n].val)
         /\ ReadBack(n, wall) = Missing =>
              Lapsed(reg[n].expiresAt, wall) \/ reg[n].val # Deleted
<1>1. reg[n] \in ValWithTS
  BY Zenon DEF TypeOK
<1>2. /\ reg[n].ts \in Timestamp /\ reg[n].val \in Content /\ reg[n].expiresAt \in Nat
      /\ reg[n] = [ts |-> reg[n].ts, val |-> reg[n].val, expiresAt |-> reg[n].expiresAt]
  BY <1>1, SMTT(60) DEF ValWithTS
<1>3. Held(n) \in Stamp
  BY <1>2, Zenon DEF Held, Stamp
<1> DEFINE r == [reg[n] EXCEPT !.val = Decoded(reg[n].val)]
<1>4. Decoded(reg[n].val) \in Content
  BY <1>2, DecodedType, Zenon
<1>5. r \in ValWithTS
  BY <1>1, <1>4, Zenon DEF ValWithTS
<1>6. r.ts = reg[n].ts /\ r.val = Decoded(reg[n].val) /\ r.expiresAt = reg[n].expiresAt
  BY <1>1, Zenon DEF ValWithTS
<1>7. r # Missing
  BY <1>5, RegistersAssumption, Zenon DEF Missing
<1>8. ReadBack(n, wall) = IF \/ Lapsed(reg[n].expiresAt, wall)
                             \/ reg[n].val # Deleted /\ ~Decodable(reg[n].val)
                          THEN Missing ELSE r
  BY Zenon DEF ReadBack
<1> HIDE DEF r
<1> QED BY <1>1, <1>3, <1>5, <1>6, <1>7, <1>8, Zenon

LEMMA TypeStep ==
  ASSUME TypeOK, [Next]_vars
  PROVE  TypeOK'
<1>1. CASE Tick
  <2>1. now' \in Nat
    BY <1>1, SMTT(60) DEF Tick, TypeOK
  <2> QED BY <1>1, <2>1, Zenon DEF Tick, TypeOK, history
<1>2. ASSUME NEW c \in Client, Set(c) \/ Delete(c) PROVE TypeOK'
  <2>1. ASSUME NEW a \in Calls[c], Begin(c, a.val, a.ttl) PROVE TypeOK'
    <3>1. a.val \in Content /\ a.ttl \in Nat
      BY RegistersAssumption, SMTT(60)
    <3> QED BY <2>1, <3>1, TypeBegin, Zenon 
  <2>2. ASSUME Begin(c, Deleted, 0) PROVE TypeOK'
    BY <2>2, TypeBegin, Zenon DEF Content
  <2> QED BY <1>2, <2>1, <2>2, Zenon DEF Set, Delete
<1>3. ASSUME NEW c \in Client, LocalWrite(c) PROVE TypeOK'
  <2>1. call[c] \in Call /\ call[c].e \in Entry /\ Home[c] \in Node
    BY <1>3, CallType, Zenon DEF LocalWrite
  <2>2. [call[c] EXCEPT !.pc = "append"] \in Call
    BY <2>1, Zenon DEF Call
  <2>3. call' \in [Client -> Call \cup {Idle}]
    BY <1>3, <2>2, Zenon DEF LocalWrite, TypeOK, history
  <2>4. /\ reg' \in [Node -> ValWithTS \cup {Missing}]
        /\ written' \in [Node -> SUBSET Stamp]
    BY <1>3, <2>1, TypeStorePut, Zenon DEF LocalWrite
  <2> QED BY <1>3, <2>3, <2>4, Zenon DEF LocalWrite, TypeOK, history
<1>4. ASSUME NEW c \in Client, LogAppend(c) PROVE TypeOK'
  <2>1. call[c].e \in Entry /\ Home[c] \in Node
    BY <1>4, CallType, Zenon DEF LogAppend
  <2>2. Logged(call[c].e) \in Entry
    BY <2>1, LoggedType, Zenon 
  <2> QED BY <1>4, <2>1, <2>2, Zenon DEF LogAppend, TypeOK, history
<1>5. ASSUME NEW c \in Client, MarshalError(c) PROVE TypeOK'
  BY <1>5, Zenon DEF MarshalError, TypeOK, history
<1>6. ASSUME NEW n \in Node, NEW p \in Node, NEW e \in log[n], UpdateClock(p, e)
      PROVE  TypeOK'
  <2>1. e \in Entry /\ e.ts \in Timestamp
    BY SMTT(60) DEF TypeOK, Entry
  <2>2. Update(clock[p], Wall(p), e.ts) \in Timestamp
    BY <2>1, WallType, ClockTypes, Zenon DEF TypeOK
  <2>3. ticks' \in 0..MaxTicks
    BY <1>6, RegistersAssumption, SMTT(60) DEF UpdateClock, TypeOK
  <2> QED BY <1>6, <2>1, <2>2, <2>3, Zenon DEF UpdateClock, TypeOK, history
<1>7. ASSUME NEW p \in Node, NEW e \in incoming[p], ApplyEntry(p, e)
      PROVE  TypeOK'
  <2>1. e \in Entry
    BY Zenon DEF TypeOK
  <2>2. /\ reg' \in [Node -> ValWithTS \cup {Missing}]
        /\ written' \in [Node -> SUBSET Stamp]
    BY <1>7, <2>1, TypeStorePut, Zenon DEF ApplyEntry
  <2> QED BY <1>7, <2>2, Zenon DEF ApplyEntry, TypeOK, history
<1>8. ASSUME NEW n \in Node, PruneExpiredKeys(n) PROVE TypeOK'
  <2>1. Held(n) \in Stamp
    BY <1>8, HeldType, Zenon DEF PruneExpiredKeys
  <2> QED BY <1>8, <2>1, Zenon DEF PruneExpiredKeys, TypeOK
<1>9. ASSUME NEW n \in Node, Restart(n) PROVE TypeOK'
  <2>1. now + 1 \in Nat /\ [p |-> now + 1 + Skew[n], l |-> 0] \in Timestamp
    BY RegistersAssumption, SMTT(60) DEF TypeOK, Timestamp
  <2>2. ticks' \in 0..MaxTicks
    BY <1>9, RegistersAssumption, SMTT(60) DEF Restart, TypeOK
  <2>3. reg' \in [Node -> ValWithTS \cup {Missing}]
    BY <1>9, HeldType, Zenon DEF Restart, TypeOK
  <2>4. dropped' \in [Node -> SUBSET Stamp] /\ restarted' \subseteq Node
    BY <1>9, HeldType, Zenon DEF Restart, TypeOK
  <2> QED BY <1>9, <2>1, <2>2, <2>3, <2>4, Zenon DEF Restart, TypeOK
<1>10. CASE UNCHANGED vars
  BY <1>10, Zenon DEF vars, history, TypeOK
<1> QED BY <1>1, <1>2, <1>3, <1>4, <1>5, <1>6, <1>7, <1>8, <1>9, <1>10, Zenon
        DEF Next

LEMMA TypeInit == Init => TypeOK
<1> SUFFICES ASSUME Init PROVE TypeOK
  BY Zenon
<1>1. \A n \in Node : [p |-> Skew[n], l |-> 0] \in Timestamp
  BY RegistersAssumption, SMTT(60) DEF Timestamp
<1> QED BY <1>1, RegistersAssumption, SMTT(60) DEF Init, TypeOK

(* The state stays well typed, through pruning and restarts.               *)
THEOREM TypeCorrect == Spec => []TypeOK
<1>1. TypeOK /\ [Next]_vars => TypeOK'
  BY TypeStep, Zenon 
<1> QED BY TypeInit, <1>1, PTL DEF Spec

(***************************************************************************)
(* Convergence, and deleted keys                                           *)
(***************************************************************************)

LEMMA StampType ==
  ASSUME TypeOK, NEW n \in Node
  PROVE  /\ \A w \in written[n] : w.ts \in Timestamp /\ w.val \in Content
         /\ \A d \in dropped[n] : d.ts \in Timestamp /\ d.val \in Content
         /\ reg[n] # Missing => reg[n].ts \in Timestamp /\ reg[n].val \in Content
<1>1. written[n] \subseteq Stamp /\ dropped[n] \subseteq Stamp
  BY Zenon DEF TypeOK
<1>2. reg[n] # Missing => reg[n] \in ValWithTS
  BY Zenon DEF TypeOK
<1> QED BY <1>1, <1>2, SMTT(60) DEF Stamp, ValWithTS

(* store.set and store.delete keep the latest of the writes they are given.*)
LEMMA PutKeepsLatest ==
  ASSUME TypeOK, LastWriteWins, NEW n \in Node, NEW e \in Entry, StorePut(n, e),
         UNCHANGED <<now, dropped, restarted>>
  PROVE  LastWriteWins'
<1> DEFINE w == [ts |-> e.ts, val |-> e.val]
<1>1. /\ reg' = [reg EXCEPT ![n] = Put(n, e)]
      /\ written' = [written EXCEPT ![n] = @ \cup {w}]
  BY Zenon DEF StorePut
<1>2. e.ts \in Timestamp /\ w \in Stamp /\ w.ts = e.ts /\ w.val = e.val
  BY Zenon DEF Entry, Stamp
<1>3. reg'[n] = Put(n, e) /\ written'[n] = written[n] \cup {w}
  BY <1>1, Zenon DEF TypeOK
<1>5. Put(n, e) # Missing
  BY PutType, Zenon 
<1>6. \A x \in written[n] : x.ts \in Timestamp
  BY StampType, Zenon
<1>7. Latest(n)
  BY Zenon DEF LastWriteWins
<1>t. \A d \in dropped'[n] : d.val = Deleted => Wall(n)' > d.ts.p + GraceOf(n)'
  BY <1>7, Zenon DEF Latest, Wall, GraceOf
<1>8. ASSUME reg[n] # Missing, GreaterOrEqual(reg[n].ts, e.ts)
      PROVE  Latest(n)'
  <2>1. Put(n, e) = reg[n]
    BY <1>8, Zenon DEF Put
  <2>2. reg'[n] = reg[n]
    BY <1>3, <2>1, Zenon
  <2>3. \E x \in written'[n] : Meaning(reg'[n]) = Meaning(x)
    BY <1>3, <1>7, <1>8, <2>2, Zenon DEF Latest
  <2>4. reg'[n].val = Deleted => reg'[n].expiresAt = reg'[n].ts.p + Grace
    BY <1>7, <1>8, <2>2, Zenon DEF Latest
  <2>5. ASSUME NEW x \in written'[n] PROVE Outlived(n, x)'
    <3>1. CASE x = w
      BY <1>2, <1>8, <2>2, <3>1, Zenon DEF Outlived
    <3>2. CASE x \in written[n]
      BY <1>7, <2>2, <3>2, Zenon DEF Latest, Outlived
    <3> QED BY <1>3, <3>1, <3>2, Zenon
  <2> QED BY <1>t, <2>3, <2>4, <2>5, Zenon DEF Latest
<1>9. ASSUME ~(reg[n] # Missing /\ GreaterOrEqual(reg[n].ts, e.ts))
      PROVE  Latest(n)'
  <2>1. Put(n, e) = [ts |-> e.ts, val |-> e.val, expiresAt |-> ExpiresAt(n, e)]
    BY <1>9, Zenon DEF Put
  <2>2. reg'[n].ts = e.ts /\ reg'[n].val = e.val /\ reg'[n].expiresAt = ExpiresAt(n, e)
    BY <1>3, <2>1, SMTT(60)
  <2>3. reg'[n].val = Deleted => reg'[n].expiresAt = reg'[n].ts.p + Grace
    BY <2>2, Zenon DEF ExpiresAt
  <2>4. \E x \in written'[n] : Meaning(reg'[n]) = Meaning(x)
    <3>1. Meaning(reg'[n]) = Meaning(w)
      BY <1>2, <2>2, Zenon DEF Meaning
    <3> QED BY <1>3, <3>1, Zenon
  <2>5. GreaterOrEqual(e.ts, e.ts)
    BY <1>2, Order, Zenon 
  <2>6. ASSUME NEW x \in written[n] PROVE Outlived(n, x)'
    <3>1. Outlived(n, x) /\ x.ts \in Timestamp
      BY <1>6, <1>7, Zenon DEF Latest
    <3>2. CASE reg[n] # Missing /\ GreaterOrEqual(reg[n].ts, x.ts)
      <4>1. reg[n].ts \in Timestamp
        BY <3>2, StampType, Zenon
      <4>2. GreaterOrEqual(e.ts, reg[n].ts)
        BY <1>2, <1>9, <3>2, <4>1, Order, Zenon 
      <4>3. GreaterOrEqual(e.ts, x.ts)
        BY <1>2, <3>1, <3>2, <4>1, <4>2, Order, Zenon
      <4> QED BY <1>3, <1>5, <2>2, <4>3, Zenon DEF Outlived
    <3>3. CASE \E d \in dropped[n] : GreaterOrEqual(d.ts, x.ts)
      BY <3>3, Zenon DEF Outlived
    <3> QED BY <3>1, <3>2, <3>3, Zenon DEF Outlived
  <2>7. Outlived(n, w)'
    BY <1>2, <1>3, <1>5, <2>2, <2>5, Zenon DEF Outlived
  <2>8. \A x \in written'[n] : Outlived(n, x)'
    BY <1>3, <2>6, <2>7, Zenon
  <2> QED BY <1>t, <2>3, <2>4, <2>8, Zenon DEF Latest
<1>10. ASSUME NEW m \in Node, m # n PROVE Latest(m)'
  <2>1. reg'[m] = reg[m] /\ written'[m] = written[m]
    BY <1>1, <1>10, Zenon DEF TypeOK
  <2> QED BY <2>1, Zenon DEF LastWriteWins, Latest, Outlived, Wall, GraceOf
<1> QED BY <1>8, <1>9, <1>10, Zenon DEF LastWriteWins

LEMMA GraceType ==
  ASSUME NEW n \in Node
  PROVE  GraceOf(n) \in Int /\ GraceOf(n) <= Grace
BY RegistersAssumption DEF GraceOf

(* The grace period of a tombstone that was dropped stays over.            *)
LEMMA StillOver ==
  ASSUME TypeOK, NEW n \in Node, NEW ts \in Timestamp, restarted \subseteq restarted',
         now' \in Nat, now <= now', Wall(n) > ts.p + GraceOf(n)
  PROVE  Wall(n)' > ts.p + GraceOf(n)'
<1>1. ts.p \in Nat /\ Skew[n] \in Nat /\ now \in Nat
  BY RegistersAssumption, Zenon DEF Timestamp, TypeOK
<1>2. GraceOf(n)' \in Int /\ GraceOf(n) \in Int /\ GraceOf(n)' <= GraceOf(n)
  <2>1. Grace \in Int /\ Grace - Second \in Int /\ Grace - Second <= Grace
    BY RegistersAssumption
  <2>2. Grace <= Grace /\ Grace - Second <= Grace - Second
    BY <2>1
  <2> QED BY <2>1, <2>2, Zenon DEF GraceOf
<1> QED BY <1>1, <1>2, SMTT(60) DEF Wall

(* The time of an entry that badger does not return is over but for less   *)
(* than a second.                                                          *)
LEMMA LapsedLate ==
  ASSUME NEW e \in Nat, NEW w \in Nat, Lapsed(e, w)
  PROVE  w > e - Second
<1> DEFINE q == e \div Second
           k == w \div Second
<1>1. Second \in Nat /\ Second > 0
  BY RegistersAssumption, SMTT(60)
<1>2. /\ q \in Int /\ e = Second * q + (e % Second) /\ e % Second \in 0..(Second - 1)
      /\ k \in Int /\ w = Second * k + (w % Second) /\ w % Second \in 0..(Second - 1)
  BY <1>1, SMTT(60)
<1>3. q <= k
  BY Zenon DEF Lapsed
<1> HIDE DEF q, k
<1>4. Second * q <= Second * k /\ Second * q \in Int /\ Second * k \in Int
  BY <1>1, <1>2, <1>3, SMTT(60)
<1> QED BY <1>1, <1>2, <1>4, SMTT(60)

(* A node whose register was only decoded, or not touched.                 *)
LEMMA LatestKept ==
  ASSUME TypeOK, NEW n \in Node, Latest(n), now' \in Nat, now <= now',
         restarted \subseteq restarted',
         reg'[n] = Missing <=> reg[n] = Missing,
         reg[n] # Missing =>
           /\ reg'[n].ts = reg[n].ts /\ reg'[n].expiresAt = reg[n].expiresAt
           /\ reg'[n].val = Deleted => reg[n].val = Deleted
           /\ Meaning(reg'[n]) = Meaning(reg[n]),
         written'[n] = written[n], dropped'[n] = dropped[n]
  PROVE  Latest(n)'
<1>2. reg'[n] # Missing =>
        /\ \E w \in written'[n] : Meaning(reg'[n]) = Meaning(w)
        /\ reg'[n].val = Deleted => reg'[n].expiresAt = reg'[n].ts.p + Grace
  BY Zenon DEF Latest
<1>3. \A w \in written'[n] : Outlived(n, w)'
  BY Zenon DEF Latest, Outlived
<1>4. \A d \in dropped'[n] : d.val = Deleted => Wall(n)' > d.ts.p + GraceOf(n)'
  BY StillOver, StampType, Zenon DEF Latest
<1> QED BY <1>2, <1>3, <1>4, Zenon DEF Latest

(* A node that drops its entry: a tombstone only when its time is over.    *)
LEMMA LatestDropped ==
  ASSUME TypeOK, NEW n \in Node, Latest(n), now' \in Nat, now <= now',
         restarted \subseteq restarted',
         reg[n] # Missing, reg'[n] = Missing,
         reg[n].val # Deleted \/ Wall(n)' > reg[n].ts.p + GraceOf(n)',
         written'[n] = written[n], dropped'[n] = dropped[n] \cup {Held(n)}
  PROVE  Latest(n)'
<1>1. Held(n).ts = reg[n].ts /\ Held(n).val = reg[n].val
  BY SMTT(60) DEF Held
<1>2. \A w \in written'[n] : Outlived(n, w)'
  BY <1>1, Zenon DEF Latest, Outlived
<1>5. \A d \in dropped'[n] : d.val = Deleted => Wall(n)' > d.ts.p + GraceOf(n)'
  BY <1>1, StillOver, StampType, Zenon DEF Latest
<1> QED BY <1>2, <1>5, Zenon DEF Latest

LEMMA LatestStep ==
  ASSUME TypeOK, LastWriteWins, [Next]_vars
  PROVE  LastWriteWins'
<1>0. TypeOK' /\ (\A n \in Node : Latest(n)) /\ now' \in Nat
  BY TypeStep, Zenon DEF LastWriteWins, TypeOK
<1>n. now <= now
  BY SMTT(60) DEF TypeOK
<1>1. ASSUME UNCHANGED <<reg, written, dropped, restarted>>, now <= now' PROVE LastWriteWins'
  BY <1>0, <1>1, LatestKept, Zenon DEF LastWriteWins
<1>2. ASSUME NEW c \in Client, LocalWrite(c) PROVE LastWriteWins'
  <2>1. call[c].e \in Entry /\ Home[c] \in Node
    BY <1>2, CallType, Zenon DEF LocalWrite
  <2> QED BY <1>2, <2>1, PutKeepsLatest, Zenon DEF LocalWrite, history
<1>3. ASSUME NEW p \in Node, NEW e \in incoming[p], ApplyEntry(p, e)
      PROVE  LastWriteWins'
  <2>1. e \in Entry
    BY Zenon DEF TypeOK
  <2> QED BY <1>3, <2>1, PutKeepsLatest, Zenon DEF ApplyEntry, history
<1>4. ASSUME NEW n \in Node, PruneExpiredKeys(n) PROVE LastWriteWins'
  <2>1. /\ reg[n] # Missing /\ Expired(n) /\ reg'[n] = Missing
        /\ dropped'[n] = dropped[n] \cup {Held(n)}
        /\ UNCHANGED <<now, written, restarted>>
    BY <1>4, Zenon DEF PruneExpiredKeys, TypeOK
  <2>2. \A m \in Node : m # n => reg'[m] = reg[m] /\ dropped'[m] = dropped[m]
    BY <1>4, Zenon DEF PruneExpiredKeys, TypeOK
  <2>5. reg[n].val = Deleted => Wall(n)' > reg[n].ts.p + GraceOf(n)'
    <3>1. /\ reg[n].val = Deleted => reg[n].expiresAt = reg[n].ts.p + Grace
          /\ Wall(n)' = Wall(n) /\ GraceOf(n)' = GraceOf(n) /\ Wall(n) > reg[n].expiresAt
      BY <1>0, <2>1, Zenon DEF Latest, Wall, GraceOf, Expired
    <3>2. Wall(n) \in Nat /\ reg[n].ts.p \in Nat
      BY <2>1, WallType, StampType, Zenon DEF Timestamp
    <3> QED BY <3>1, <3>2, GraceType, RegistersAssumption, SMTT(60)
  <2>3. Latest(n)'
    BY <1>0, <1>n, <2>1, <2>5, LatestDropped, Zenon
  <2>4. \A m \in Node : m # n => Latest(m)'
    BY <1>0, <1>n, <2>1, <2>2, LatestKept, Zenon
  <2> QED BY <2>3, <2>4, Zenon DEF LastWriteWins
<1>5. ASSUME NEW n \in Node, Restart(n) PROVE LastWriteWins'
  <2> DEFINE wall == now + 1 + Skew[n]
             read == ReadBack(n, wall)
  <2>0. now <= now' /\ wall \in Nat /\ Wall(n)' = wall
    <3>1. now' = now + 1 /\ now \in Nat /\ Skew[n] \in Nat
      BY <1>5, RegistersAssumption, Zenon DEF Restart, TypeOK
    <3>2. now <= now' /\ wall \in Nat
      BY <3>1, SMTT(60)
    <3>3. Wall(n)' = now' + Skew[n]
      BY Zenon DEF Wall
    <3>4. wall = now' + Skew[n]
      BY <3>1, SMTT(60)
    <3> QED BY <3>2, <3>3, <3>4, Zenon
  <2>1. /\ reg'[n] = IF reg[n] = Missing THEN Missing ELSE read
        /\ dropped'[n] = IF reg[n] # Missing /\ read = Missing
                         THEN dropped[n] \cup {Held(n)} ELSE dropped[n]
        /\ written' = written /\ restarted \subseteq restarted' /\ n \in restarted'
    BY <1>5, Zenon DEF Restart, TypeOK
  <2>2. \A m \in Node : m # n => reg'[m] = reg[m] /\ dropped'[m] = dropped[m]
    BY <1>5, Zenon DEF Restart, TypeOK
  <2> HIDE DEF wall, read
  <2>5. \A m \in Node : m # n => Latest(m)'
    BY <1>0, <2>0, <2>1, <2>2, LatestKept, Zenon
  <2>6. Latest(n)
    BY <1>0, Zenon
  <2>3. CASE reg[n] # Missing /\ read = Missing
    <3>1. reg[n].val = Deleted => Lapsed(reg[n].expiresAt, wall)
      BY <2>3, HeldType, Zenon DEF read
    <3>2. reg[n].val = Deleted => reg[n].expiresAt = reg[n].ts.p + Grace
      BY <2>3, <2>6, Zenon DEF Latest
    <3>3. reg[n].ts.p \in Nat /\ reg[n].expiresAt \in Nat
      BY <2>3, HeldType, Zenon DEF ValWithTS, Timestamp
    <3>4. reg[n].val = Deleted => wall > reg[n].expiresAt - Second
      BY <2>0, <3>1, <3>3, LapsedLate, Zenon
    <3>5. GraceOf(n)' = Grace - Second
      BY <2>1, Zenon DEF GraceOf
    <3>6. reg[n].val = Deleted => Wall(n)' > reg[n].ts.p + GraceOf(n)'
      BY <2>0, <3>2, <3>3, <3>4, <3>5, RegistersAssumption, SMTT(60)
    <3>7. Latest(n)'
      BY <1>0, <2>0, <2>1, <2>3, <2>6, <3>6, LatestDropped, Zenon
    <3> QED BY <2>5, <3>7, Zenon DEF LastWriteWins
  <2>4. CASE ~(reg[n] # Missing /\ read = Missing)
    <3>1. ASSUME reg[n] # Missing
          PROVE  /\ reg'[n] # Missing
                 /\ reg'[n].ts = reg[n].ts /\ reg'[n].expiresAt = reg[n].expiresAt
                 /\ reg'[n].val = Deleted => reg[n].val = Deleted
                 /\ Meaning(reg'[n]) = Meaning(reg[n])
      <4>1. /\ reg'[n] # Missing /\ reg'[n].ts = reg[n].ts
            /\ reg'[n].val = Decoded(reg[n].val) /\ reg'[n].expiresAt = reg[n].expiresAt
            /\ reg[n].val = Deleted \/ Decodable(reg[n].val)
        BY <2>1, <2>4, <3>1, HeldType, Zenon DEF read
      <4>2. reg[n].val \in Content
        BY <3>1, HeldType, Zenon DEF ValWithTS
      <4>3. reg'[n].val = Deleted => reg[n].val = Deleted
        BY <4>1, <4>2, DecodedDeleted, Zenon
      <4>4. Meaning(reg'[n]) = Meaning(reg[n])
        BY <4>1, <4>2, MeaningDecoded, Zenon
      <4> QED BY <4>1, <4>3, <4>4, Zenon
    <3>2. reg'[n] = Missing <=> reg[n] = Missing
      BY <2>1, <3>1, Zenon
    <3>3. dropped'[n] = dropped[n] /\ written'[n] = written[n]
      BY <2>1, <2>4, Zenon
    <3>4. Latest(n)'
      BY <1>0, <2>0, <2>1, <2>6, <3>1, <3>2, <3>3, LatestKept, Zenon
    <3> QED BY <2>5, <3>4, Zenon DEF LastWriteWins
  <2> QED BY <2>3, <2>4, Zenon
<1>6. CASE Tick
  <2>1. now <= now' /\ UNCHANGED <<reg, written, dropped, restarted>>
    BY <1>6, SMTT(60) DEF Tick, history, TypeOK
  <2> QED BY <1>1, <2>1, Zenon
<1>7. ASSUME UNCHANGED <<now, reg, written, dropped, restarted>> PROVE LastWriteWins'
  BY <1>1, <1>7, <1>n, Zenon
<1> QED BY <1>2, <1>3, <1>4, <1>5, <1>6, <1>7, Zenon
        DEF Next, Set, Delete, Begin, LogAppend, MarshalError, UpdateClock, vars, history

(* Two nodes that were given the same writes and dropped none hold the     *)
(* same one.                                                               *)
LEMMA LatestAgree ==
  ASSUME TypeOK, LastWriteWins
  PROVE  ConvergesWithoutTies
<1> SUFFICES ASSUME NEW n \in Node, NEW p \in Node, SameWrites(n, p), NoTies(n),
                    dropped[n] = {}, dropped[p] = {}
             PROVE  Agree(n, p)
  BY Zenon DEF ConvergesWithoutTies
<1>1. Latest(n) /\ Latest(p)
  BY Zenon DEF LastWriteWins
<1>2. /\ \A v \in written[n] : \E w \in written[p] : Meaning(w) = Meaning(v)
      /\ \A w \in written[p] : \E v \in written[n] : Meaning(v) = Meaning(w)
  BY SMTT(60) DEF SameWrites
<1>3. CASE reg[n] = Missing \/ reg[p] = Missing
  <2>1. written[n] = {} /\ written[p] = {}
    BY <1>1, <1>2, <1>3, Zenon DEF Latest, Outlived
  <2>2. reg[n] = Missing /\ reg[p] = Missing
    BY <1>1, <2>1, Zenon DEF Latest
  <2> QED BY <2>2, Zenon DEF Agree
<1>4. CASE reg[n] # Missing /\ reg[p] # Missing
  <2>1. PICK a \in written[n] : Meaning(reg[n]) = Meaning(a)
    BY <1>1, <1>4, Zenon DEF Latest
  <2>2. PICK b \in written[p] : Meaning(reg[p]) = Meaning(b)
    BY <1>1, <1>4, Zenon DEF Latest
  <2>4. PICK w \in written[p] : Meaning(w) = Meaning(a)
    BY <1>2, Zenon
  <2>5. PICK v \in written[n] : Meaning(v) = Meaning(b)
    BY <1>2, Zenon
  <2>3. \A x, y : Meaning(x) = Meaning(y) => x.ts = y.ts
    BY Zenon DEF Meaning
  <2>6. w.ts = reg[n].ts /\ v.ts = reg[p].ts /\ a.ts = reg[n].ts
    BY <2>1, <2>2, <2>3, <2>4, <2>5, Zenon
  <2>7. reg[n].ts \in Timestamp /\ reg[p].ts \in Timestamp
    BY <1>4, StampType, Zenon
  <2>8. GreaterOrEqual(reg[p].ts, reg[n].ts) /\ GreaterOrEqual(reg[n].ts, reg[p].ts)
    BY <1>1, <1>4, <2>6, Zenon DEF Latest, Outlived
  <2>9. reg[n].ts = reg[p].ts
    BY <2>7, <2>8, Order, SMTT(60)
  <2>10. Meaning(v) = Meaning(a)
    BY <2>6, <2>9, Zenon DEF NoTies
  <2> QED BY <1>4, <2>1, <2>2, <2>5, <2>10, Zenon DEF Agree
<1> QED BY <1>3, <1>4, Zenon 

(* A tombstone outlives what it deleted until it may be dropped.           *)
LEMMA LatestDeleted ==
  ASSUME TypeOK, LastWriteWins
  PROVE  DeletedStaysDeleted
<1> SUFFICES ASSUME NEW n \in Node, NEW w \in written[n], Protected(n, w), Exists(n)
             PROVE  GreaterOrEqual(reg[n].ts, w.ts)
  BY Zenon DEF DeletedStaysDeleted
<1>1. Latest(n)
  BY Zenon DEF LastWriteWins
<1>2. w.ts \in Timestamp
  BY StampType, Zenon
<1>3. ASSUME NEW d \in dropped[n], GreaterOrEqual(d.ts, w.ts)
      PROVE  FALSE
  <2>1. d.ts \in Timestamp
    BY StampType, Zenon
  <2>2. d.val = Deleted
    <3>1. ~After(w.ts, d.ts)
      BY <1>2, <1>3, <2>1, SMTT(60) DEF GreaterOrEqual, After, Timestamp
    <3> QED BY <3>1, Zenon DEF Protected
  <2>3. Wall(n) > d.ts.p + GraceOf(n) /\ Wall(n) <= w.ts.p + GraceOf(n)
    BY <1>1, <2>2, Zenon DEF Latest, Protected
  <2>4. w.ts.p <= d.ts.p
    BY <1>2, <1>3, <2>1, SMTT(60) DEF GreaterOrEqual, After, Timestamp
  <2>5. w.ts.p \in Nat /\ d.ts.p \in Nat /\ Wall(n) \in Nat
    BY <1>2, <2>1, WallType, Zenon DEF Timestamp
  <2> QED BY <2>3, <2>4, <2>5, GraceType, SMTT(60)
<1> QED BY <1>1, <1>3, Zenon DEF Latest, Outlived

LEMMA LatestInit == Init => LastWriteWins
<1> SUFFICES ASSUME Init, NEW n \in Node PROVE Latest(n)
  BY Zenon DEF LastWriteWins
<1>1. reg[n] = Missing /\ written[n] = {} /\ dropped[n] = {}
  BY Zenon DEF Init
<1> QED BY <1>1, Zenon DEF Latest

(* Two nodes whose stores were given the same writes, no two of them with  *)
(* the same timestamp, and have dropped none of them, hold the same value, *)
(* for any number of nodes and concurrent calls, through restarts and      *)
(* however entries are delayed, repeated and reordered.                    *)
THEOREM RegistersConverge == Spec => []ConvergesWithoutTies
<1>1. Init => TypeOK /\ LastWriteWins
  BY TypeInit, LatestInit, Zenon
<1>2. TypeOK /\ LastWriteWins /\ [Next]_vars => TypeOK' /\ LastWriteWins'
  BY TypeStep, LatestStep, Zenon 
<1>3. TypeOK /\ LastWriteWins => ConvergesWithoutTies
  BY LatestAgree, Zenon 
<1> QED BY <1>1, <1>2, <1>3, PTL DEF Spec

(* A deleted key does not come back within the grace period of its         *)
(* tombstone (which a restart may shorten by a second), for any number of  *)
(* nodes and calls, unless a later value of it has been dropped.           *)
THEOREM TombstonesProtect == Spec => []DeletedStaysDeleted
<1>1. Init => TypeOK /\ LastWriteWins
  BY TypeInit, LatestInit, Zenon
<1>2. TypeOK /\ LastWriteWins /\ [Next]_vars => TypeOK' /\ LastWriteWins'
  BY TypeStep, LatestStep, Zenon 
<1>3. TypeOK /\ LastWriteWins => DeletedStaysDeleted
  BY LatestDeleted, Zenon 
<1> QED BY <1>1, <1>2, <1>3, PTL DEF Spec

(***************************************************************************)
(* A call overrides what was there before it                               *)
(***************************************************************************)

(* What the invariant says of the stores, the entries and the calls holds   *)
(* of clocks that have moved forward.                                      *)
LEMMA ClocksForward ==
  ASSUME ClockInv, TypeOK', ticks' \in {ticks, ticks + 1},
         \A m \in Node : GreaterOrEqual(clock'[m], clock[m])
  PROVE  /\ \A m \in Node \ restarted :
              /\ reg[m] # Missing => GreaterOrEqual(clock'[m], reg[m].ts)
              /\ \A e \in incoming[m] : GreaterOrEqual(clock'[m], e.ts)
         /\ \A m \in Node :
              /\ \A e \in log[m] : e.ts.l \in 0..ticks'
              /\ clock[m].l \in 0..ticks'
         /\ \A d \in Client : call[d] # Idle =>
              /\ Home[d] \notin restarted => GreaterOrEqual(clock'[Home[d]], call[d].e.ts)
              /\ call[d].e.ts.l \in 0..ticks'
<1>1. TypeOK
  BY Zenon DEF ClockInv
<1>2. ASSUME NEW ts \in Timestamp, Bounded(ts) PROVE ts.l \in 0..ticks'
  BY <1>1, <1>2, SMTT(60) DEF TypeOK, Bounded
<1>3. ASSUME NEW m \in Node, NEW ts \in Timestamp, GreaterOrEqual(clock[m], ts)
      PROVE  GreaterOrEqual(clock'[m], ts)
  <2>1. clock[m] \in Timestamp /\ clock'[m] \in Timestamp
    BY <1>1, Zenon DEF TypeOK
  <2> QED BY <1>3, <2>1, Order, Zenon 
<1>4. ASSUME NEW m \in Node \ restarted, reg[m] # Missing
      PROVE  GreaterOrEqual(clock'[m], reg[m].ts)
  <2>1. reg[m].ts \in Timestamp
    BY <1>1, <1>4, Zenon DEF TypeOK, ValWithTS
  <2> QED BY <1>3, <1>4, <2>1, Zenon DEF ClockInv, ClockCovers
<1>5. ASSUME NEW m \in Node \ restarted, NEW e \in incoming[m]
      PROVE  GreaterOrEqual(clock'[m], e.ts)
  <2>1. e.ts \in Timestamp
    BY <1>1, SMTT(60) DEF TypeOK, Entry
  <2> QED BY <1>3, <1>5, <2>1, Zenon DEF ClockInv, ClockCovers
<1>6. ASSUME NEW m \in Node, NEW e \in log[m] PROVE e.ts.l \in 0..ticks'
  <2>1. e.ts \in Timestamp
    BY <1>1, SMTT(60) DEF TypeOK, Entry
  <2> QED BY <1>2, <1>6, <2>1, Zenon DEF ClockInv, LogicalBounded
<1>7. ASSUME NEW m \in Node PROVE clock[m].l \in 0..ticks'
  BY <1>1, <1>2, <1>7, Zenon DEF ClockInv, LogicalBounded, TypeOK
<1>8. ASSUME NEW d \in Client, call[d] # Idle
      PROVE  /\ Home[d] \notin restarted => GreaterOrEqual(clock'[Home[d]], call[d].e.ts)
             /\ call[d].e.ts.l \in 0..ticks'
  <2>1. call[d].e.ts \in Timestamp /\ Home[d] \in Node
    BY <1>1, <1>8, CallType, Zenon DEF Entry
  <2>2. /\ Home[d] \notin restarted => GreaterOrEqual(clock[Home[d]], call[d].e.ts)
        /\ Bounded(call[d].e.ts)
    BY <1>8, Zenon DEF ClockInv, ClockCovers
  <2> QED BY <1>2, <1>3, <2>1, <2>2, Zenon 
<1> QED BY <1>4, <1>5, <1>6, <1>7, <1>8, Zenon 

(* A call begins: its timestamp is after everything in the node's store.   *)
LEMMA BeginStep ==
  ASSUME MaxTicks <= Int32Max, ClockInv, TypeOK',
         NEW c \in Client, NEW v, NEW ttl, Begin(c, v, ttl)
  PROVE  ClockInv'
<1> DEFINE n == Home[c]
           t == Now(clock[n], Wall(n))
           e == [ts |-> t, val |-> v, ttl |-> ttl]
<1>1. /\ ticks < MaxTicks /\ ticks' = ticks + 1
      /\ clock' = [clock EXCEPT ![n] = t]
      /\ call' = [call EXCEPT ![c] = [pc |-> "set", e |-> e, base |-> reg[n]]]
      /\ UNCHANGED <<now, reg, log, incoming, written, restarted>>
  BY Zenon DEF Begin
<1>2. TypeOK /\ n \in Node /\ Wall(n) \in Nat /\ clock[n] \in Timestamp
  BY CallType, WallType, Zenon DEF ClockInv, TypeOK
<1>3. clock[n].l \in 0..ticks /\ ticks \in 0..MaxTicks /\ MaxTicks \in Nat
  BY <1>2, RegistersAssumption, Zenon DEF ClockInv, LogicalBounded, Bounded, TypeOK
<1>4. clock[n].l \in 0..Int32Max - 1
  BY <1>1, <1>3, Int32MaxAssumption, SMTT(60) 
<1>5. t \in Timestamp /\ After(t, clock[n]) /\ t.l \in 0..clock[n].l + 1
  BY <1>2, <1>4, NowAdvances, Zenon 
<1>6. t.l \in 0..ticks'
  BY <1>1, <1>3, <1>5, SMTT(60) 
<1> HIDE DEF t
<1>7. clock'[n] = t /\ \A m \in Node : m # n => clock'[m] = clock[m]
  BY <1>1, <1>2, Zenon DEF TypeOK
<1>8. \A m \in Node : GreaterOrEqual(clock'[m], clock[m])
  <2>1. \A m \in Node : clock[m] \in Timestamp
    BY <1>2, Zenon DEF TypeOK
  <2> QED BY <1>5, <1>7, <2>1, Order, Zenon 
<1>9. /\ call'[c] = [pc |-> "set", e |-> e, base |-> reg[n]]
      /\ \A d \in Client : d # c => call'[d] = call[d]
  BY <1>1, <1>2, Zenon DEF TypeOK
<1>10. GreaterOrEqual(clock'[n], call'[c].e.ts) /\ call'[c].e.ts.l \in 0..ticks'
  BY <1>5, <1>6, <1>7, <1>9, Order, SMTT(60) 
<1>11. LogicalBounded' /\ ClockCovers'
  BY <1>1, <1>6, <1>7, <1>8, <1>9, <1>10, ClocksForward, Zenon
     DEF LogicalBounded, ClockCovers, Bounded
<1>12. LaterCallWins'
  <2>1. ASSUME reg[n] # Missing, n \notin restarted PROVE After(t, reg[n].ts)
    <3>1. reg[n].ts \in Timestamp /\ GreaterOrEqual(clock[n], reg[n].ts)
      BY <1>2, <2>1, Zenon DEF TypeOK, ValWithTS, ClockInv, ClockCovers
    <3> QED BY <1>2, <1>5, <3>1, Order, ZenonT(40) 
  <2>2. ASSUME NEW d \in Client, call'[d] # Idle, call'[d].base # Missing,
               Home[d] \notin restarted'
        PROVE  After(call'[d].e.ts, call'[d].base.ts)
    <3>1. CASE d = c
      <4>1. call'[d].base = reg[n] /\ call'[d].e.ts = t /\ n \notin restarted
        BY <1>1, <1>9, <2>2, <3>1, SMTT(60)
      <4> QED BY <2>1, <2>2, <4>1, Zenon
    <3>2. CASE d # c
      BY <1>1, <1>9, <2>2, <3>2, Zenon DEF LaterCallWins, ClockInv
    <3> QED BY <3>1, <3>2, Zenon 
  <2> QED BY <2>2, Zenon DEF LaterCallWins
<1> QED BY <1>11, <1>12, Zenon DEF ClockInv

(* hlc.Update moves the clock past the entry before the store sees it.     *)
LEMMA UpdateClockStep ==
  ASSUME MaxTicks <= Int32Max, ClockInv, TypeOK',
         NEW m \in Node, NEW n \in Node, NEW e \in log[m], UpdateClock(n, e)
  PROVE  ClockInv'
<1> DEFINE t == Update(clock[n], Wall(n), e.ts)
<1>1. /\ ticks < MaxTicks /\ ticks' = ticks + 1
      /\ clock' = [clock EXCEPT ![n] = t]
      /\ incoming' = [incoming EXCEPT ![n] = @ \cup {e}]
      /\ UNCHANGED <<now, reg, call, log, written, restarted>>
  BY Zenon DEF UpdateClock, history
<1>2. /\ TypeOK /\ Wall(n) \in Nat /\ clock[n] \in Timestamp
      /\ e.ts \in Timestamp
  BY WallType, SMTT(60) DEF ClockInv, TypeOK, Entry
<1>3. /\ clock[n].l \in 0..ticks /\ e.ts.l \in 0..ticks
      /\ ticks \in 0..MaxTicks /\ MaxTicks \in Nat
  BY <1>2, RegistersAssumption, Zenon DEF ClockInv, LogicalBounded, Bounded, TypeOK
<1>4. clock[n].l \in 0..Int32Max - 1 /\ e.ts.l \in 0..Int32Max - 1
  BY <1>1, <1>3, Int32MaxAssumption, SMTT(60) 
<1>5. /\ t \in Timestamp /\ After(t, clock[n]) /\ After(t, e.ts)
      /\ t.l \in 0..Larger(clock[n].l, e.ts.l) + 1
  BY <1>2, <1>4, UpdateAdvances, Zenon 
<1>6. t.l \in 0..ticks'
  BY <1>1, <1>3, <1>5, SMTT(60) DEF Larger
<1> HIDE DEF t
<1>7. clock'[n] = t /\ \A p \in Node : p # n => clock'[p] = clock[p]
  BY <1>1, <1>2, Zenon DEF TypeOK
<1>8. \A p \in Node : GreaterOrEqual(clock'[p], clock[p])
  <2>1. \A p \in Node : clock[p] \in Timestamp
    BY <1>2, Zenon DEF TypeOK
  <2> QED BY <1>5, <1>7, <2>1, Order, Zenon 
<1>9. \A p \in Node : \A x \in incoming'[p] : x \in incoming[p] \/ (p = n /\ x = e)
  BY <1>1, <1>2, Zenon DEF TypeOK
<1>10. GreaterOrEqual(clock'[n], e.ts)
  BY <1>2, <1>5, <1>7, Order, SMTT(60) 
<1>11. LogicalBounded' /\ ClockCovers'
  BY <1>1, <1>6, <1>7, <1>8, <1>9, <1>10, ClocksForward, Zenon
     DEF LogicalBounded, ClockCovers, Bounded
<1> QED BY <1>1, <1>11, Zenon DEF ClockInv, LaterCallWins

(* The store takes an entry that the clock has already passed.             *)
LEMMA StorePutCovered ==
  ASSUME ClockInv, NEW n \in Node, NEW e \in Entry, StorePut(n, e),
         n \notin restarted => GreaterOrEqual(clock[n], e.ts)
  PROVE  \A m \in Node \ restarted :
           reg'[m] # Missing => GreaterOrEqual(clock[m], reg'[m].ts)
<1>1. /\ reg'[n] = Put(n, e)
      /\ \A m \in Node : m # n => reg'[m] = reg[m]
  BY Zenon DEF StorePut, ClockInv, TypeOK
<1>2. Put(n, e) = reg[n] \/ Put(n, e).ts = e.ts
  BY Zenon DEF Put
<1> QED BY <1>1, <1>2, Zenon DEF ClockInv, ClockCovers

LEMMA ClockStep ==
  ASSUME MaxTicks <= Int32Max, ClockInv, [Next]_vars
  PROVE  ClockInv'
<1> USE DEF ClockInv
<1>0. TypeOK'
  BY TypeStep, Zenon 
<1>1. CASE Tick
  BY <1>0, <1>1, Zenon DEF Tick, history, LogicalBounded, Bounded, ClockCovers, LaterCallWins
<1>2. ASSUME NEW c \in Client, Set(c) \/ Delete(c) PROVE ClockInv'
  BY <1>0, <1>2, BeginStep, Zenon DEF Set, Delete
<1>3. ASSUME NEW c \in Client, LocalWrite(c) PROVE ClockInv'
  <2>1. /\ call[c] \in Call /\ call[c].e \in Entry /\ Home[c] \in Node
        /\ Home[c] \notin restarted => GreaterOrEqual(clock[Home[c]], call[c].e.ts)
    BY <1>3, CallType, Zenon DEF LocalWrite, ClockCovers
  <2>2. \A m \in Node \ restarted : reg'[m] # Missing => GreaterOrEqual(clock[m], reg'[m].ts)
    BY <1>3, <2>1, StorePutCovered, Zenon DEF LocalWrite
  <2>3. \A d \in Client : call'[d] # Idle =>
          /\ call[d] # Idle
          /\ call'[d].e = call[d].e /\ call'[d].base = call[d].base
    BY <1>3, <2>1, Zenon DEF LocalWrite, TypeOK, Call
  <2>4. UNCHANGED <<clock, log, incoming, ticks, restarted>>
    BY <1>3, Zenon DEF LocalWrite, history
  <2> QED BY <1>0, <2>2, <2>3, <2>4, Zenon
          DEF LogicalBounded, Bounded, ClockCovers, LaterCallWins
<1>4. ASSUME NEW c \in Client, LogAppend(c) PROVE ClockInv'
  <2>1. Home[c] \in Node /\ Logged(call[c].e).ts = call[c].e.ts
    BY <1>4, CallType, Zenon DEF LogAppend, Logged
  <2>2. Bounded(call[c].e.ts)
    BY <1>4, Zenon DEF LogAppend, ClockCovers
  <2>3. \A m \in Node : \A e \in log'[m] :
          e \in log[m] \/ e = Logged(call[c].e)
    BY <1>4, <2>1, Zenon DEF LogAppend, TypeOK, history
  <2>4. \A d \in Client : call'[d] # Idle => call'[d] = call[d]
    BY <1>4, Zenon DEF LogAppend, TypeOK, history
  <2>5. UNCHANGED <<clock, reg, incoming, ticks, restarted>>
    BY <1>4, Zenon DEF LogAppend, history
  <2> QED BY <1>0, <2>1, <2>2, <2>3, <2>4, <2>5, Zenon
          DEF LogicalBounded, Bounded, ClockCovers, LaterCallWins
<1>5. ASSUME NEW c \in Client, MarshalError(c) PROVE ClockInv'
  <2>1. \A d \in Client : call'[d] # Idle => call'[d] = call[d]
    BY <1>5, Zenon DEF MarshalError, TypeOK, history
  <2>2. UNCHANGED <<clock, reg, log, incoming, ticks, restarted>>
    BY <1>5, Zenon DEF MarshalError, history
  <2> QED BY <1>0, <2>1, <2>2, Zenon
          DEF LogicalBounded, Bounded, ClockCovers, LaterCallWins
<1>6. ASSUME NEW n \in Node, NEW p \in Node, NEW e \in log[n], UpdateClock(p, e)
      PROVE  ClockInv'
  BY <1>0, <1>6, UpdateClockStep, Zenon 
<1>7. ASSUME NEW p \in Node, NEW e \in incoming[p], ApplyEntry(p, e)
      PROVE  ClockInv'
  <2>1. e \in Entry /\ (p \notin restarted => GreaterOrEqual(clock[p], e.ts))
    BY Zenon DEF TypeOK, ClockCovers
  <2>2. \A m \in Node \ restarted : reg'[m] # Missing => GreaterOrEqual(clock[m], reg'[m].ts)
    BY <1>7, <2>1, StorePutCovered, Zenon DEF ApplyEntry
  <2>3. \A m \in Node : incoming'[m] \subseteq incoming[m]
    BY <1>7, Zenon DEF ApplyEntry, TypeOK, history
  <2>4. UNCHANGED <<clock, call, log, ticks, restarted>>
    BY <1>7, Zenon DEF ApplyEntry, history
  <2> QED BY <1>0, <2>2, <2>3, <2>4, Zenon
          DEF LogicalBounded, Bounded, ClockCovers, LaterCallWins
<1>8. ASSUME NEW n \in Node, PruneExpiredKeys(n) PROVE ClockInv'
  <2>1. \A m \in Node : reg'[m] # Missing => reg'[m] = reg[m]
    BY <1>8, Zenon DEF PruneExpiredKeys, TypeOK
  <2>2. UNCHANGED <<clock, call, log, incoming, ticks, restarted>>
    BY <1>8, Zenon DEF PruneExpiredKeys
  <2> QED BY <1>0, <2>1, <2>2, Zenon
          DEF LogicalBounded, Bounded, ClockCovers, LaterCallWins
<1>9. ASSUME NEW n \in Node, Restart(n) PROVE ClockInv'
  <2>1. /\ clock' = [clock EXCEPT ![n] = [p |-> now + 1 + Skew[n], l |-> 0]]
        /\ restarted' = restarted \cup {n}
        /\ ticks' = ticks + 1
    BY <1>9, Zenon DEF Restart
  <2>2. \A m \in Node \ restarted' :
          /\ m \notin restarted /\ clock'[m] = clock[m] /\ reg'[m] = reg[m]
          /\ incoming'[m] = incoming[m]
    BY <1>9, <2>1, Zenon DEF Restart, TypeOK
  <2>3. \A d \in Client : call'[d] # Idle => Home[d] # n /\ call'[d] = call[d]
    BY <1>9, Zenon DEF Restart, TypeOK
  <2>4. log' = log
    BY <1>9, Zenon DEF Restart
  <2>5. \A ts \in Timestamp : Bounded(ts) => ts.l \in 0..ticks'
    BY <2>1, SMTT(60) DEF TypeOK, Bounded
  <2>6. clock'[n].l = 0 /\ 0 \in 0..ticks'
    BY <2>1, SMTT(60) DEF TypeOK
  <2>7. \A m \in Node : \A e \in log[m] : e.ts \in Timestamp
    BY SMTT(60) DEF TypeOK, Entry
  <2>8. LogicalBounded'
    <3>1. \A m \in Node : clock'[m].l \in 0..ticks'
      <4>1. \A m \in Node : m # n => clock'[m] = clock[m]
        BY <2>1, Zenon DEF TypeOK
      <4> QED BY <2>5, <2>6, <4>1, Zenon DEF LogicalBounded, TypeOK
    <3> QED BY <2>4, <2>5, <2>7, <3>1, Zenon DEF LogicalBounded, Bounded
  <2>9. \A d \in Client : call'[d] # Idle =>
          /\ call[d] # Idle /\ Home[d] \in Node /\ call[d].e.ts \in Timestamp
    BY <2>3, CallType, Zenon DEF Entry
  <2>10. ClockCovers'
    <3>1. \A d \in Client : call'[d] # Idle => Bounded(call[d].e.ts)'
      BY <2>3, <2>5, <2>9, Zenon DEF ClockCovers, Bounded
    <3> QED BY <2>2, <2>3, <2>9, <3>1, Zenon DEF ClockCovers, Bounded
  <2>11. LaterCallWins'
    BY <2>1, <2>3, Zenon DEF LaterCallWins
  <2> QED BY <1>0, <2>8, <2>10, <2>11, Zenon
<1>10. CASE UNCHANGED vars
  BY <1>0, <1>10, Zenon DEF vars, history, LogicalBounded, Bounded, ClockCovers, LaterCallWins
<1> QED BY <1>1, <1>2, <1>3, <1>4, <1>5, <1>6, <1>7, <1>8, <1>9, <1>10, Zenon DEF Next

(* While the int32 logical part cannot overflow, a Set or Delete on a node *)
(* that was not restarted is later than whatever the node held when it was *)
(* called, so store.set and store.delete do not discard it.                *)
THEOREM LaterCallsWin ==
  ASSUME MaxTicks <= Int32Max
  PROVE  Spec => []LaterCallWins
<1>1. Init => ClockInv
  <2> SUFFICES ASSUME Init PROVE ClockInv
    BY Zenon
  <2>1. TypeOK
    BY TypeInit, Zenon 
  <2> QED BY <2>1, SMTT(60) DEF Init, ClockInv, LogicalBounded, Bounded, ClockCovers,
                      LaterCallWins
<1>2. ClockInv /\ [Next]_vars => ClockInv'
  BY ClockStep, Zenon 
<1>3. ClockInv => LaterCallWins
  BY Zenon DEF ClockInv
<1> QED BY <1>1, <1>2, <1>3, PTL DEF Spec

(***************************************************************************)
(* Types, and expiry: where a value comes from                             *)
(***************************************************************************)

(* A ttl of a millisecond or more stays positive when it is logged, and    *)
(* does not grow.                                                          *)
LEMMA MillisecondsLeft ==
  ASSUME NEW t \in Nat, t >= Milli
  PROVE  (t \div Milli) * Milli \in 1..t
<1> DEFINE q == t \div Milli
<1>1. Milli \in Nat /\ Milli > 0
  BY RegistersAssumption, SMTT(60)
<1>2. q \in Int /\ t = Milli * q + (t % Milli) /\ t % Milli \in 0..(Milli - 1)
  BY <1>1, SMTT(60)
<1> HIDE DEF q
<1>3. Milli * q > 0 /\ Milli * q <= t
  BY <1>1, <1>2, SMTT(60)
<1>4. q * Milli = Milli * q /\ q * Milli \in Int
  BY <1>1, <1>2, SMTT(60)
<1>5. q * Milli \in 1..t
  BY <1>3, <1>4, SMTT(60)
<1> QED BY <1>5, Zenon DEF q

(* GetScan into the type of a value yields the value, from the value as it *)
(* is and from what it was decoded as.                                     *)
LEMMA ScanDecoded ==
  ASSUME NEW val \in Value, val.type \in Scannable
  PROVE  GetScan(val, val.type) = val /\ GetScan(Decoded(val), val.type) = val
<1>0. val # Nil /\ Supported(val)
  BY DEF Nil, Scannable, Supported, Format
<1>1. GetScan(val, val.type) = val
  BY <1>0, Zenon DEF GetScan
<1>2. PICK x \in Data, t \in Type \ {"nil", "chan"} : val = [type |-> t, data |-> x]
  BY <1>0, Values, Zenon
<1>3. val.type = t /\ t \in {"string", "bytes", "struct", "map"}
  BY <1>2, Zenon DEF Scannable
<1>4. CASE t # "struct"
  <2>1. CASE t = "string"
    BY <1>1, <1>2, <2>1, DecodedAs, Zenon
  <2>2. CASE t = "bytes"
    BY <1>1, <1>2, <2>2, DecodedAs, Zenon
  <2>3. CASE t = "map"
    BY <1>1, <1>2, <2>3, DecodedAs, Zenon
  <2> QED BY <1>3, <1>4, <2>1, <2>2, <2>3, Zenon
<1>5. CASE t = "struct"
  <2> DEFINE d == [type |-> "map", data |-> x]
  <2>1. Decoded(val) = d
    BY <1>2, <1>5, DecodedAs, Zenon
  <2>2. d.type = "map" /\ d.data = x /\ Supported(d) /\ d # Nil /\ "map" # "struct"
    BY DEF Format, Supported, Nil
  <2>3. Marshal(d) = [format |-> "map", data |-> x]
    BY <2>2 DEF Marshal, Format
  <2> HIDE DEF d
  <2>4. GetScan(d, "struct") = Unmarshal(Marshal(d), "struct")
    BY <2>2 DEF GetScan
  <2>5. Marshal(d) \in Encoding
    BY <2>3 DEF Encoding
  <2>6. Unmarshal(Marshal(d), "struct") = [type |-> "struct", data |-> x]
    BY <2>3, <2>5 DEF Unmarshal, Format
  <2> QED BY <1>1, <1>2, <1>3, <1>5, <2>1, <2>4, <2>6, Zenon
<1> QED BY <1>4, <1>5, Zenon

(* What a call logs comes from it.                                         *)
LEMMA LoggedFrom ==
  ASSUME NEW e \in Entry
  PROVE  EntryOf(Logged(e), e) /\ EntryOf(e, e)
<1>1. e.ttl \in Nat /\ (e.ttl >= Milli => e.ttl \in 1..e.ttl)
  BY RegistersAssumption, SMTT(60) DEF Entry
<1>2. e.ttl >= Milli => (e.ttl \div Milli) * Milli \in 1..e.ttl
  BY <1>1, MillisecondsLeft, Zenon
<1>3. /\ Logged(e).ts = e.ts /\ Logged(e).val = Decoded(e.val)
      /\ Logged(e).ttl = (e.ttl \div Milli) * Milli
  BY Zenon DEF Logged
<1> QED BY <1>1, <1>2, <1>3, Zenon DEF EntryOf, CameFrom

(* What store.set or store.delete leaves comes from the entry's call, or   *)
(* was there before.                                                       *)
LEMMA PutFrom ==
  ASSUME TypeOK, NEW n \in Node, NEW w \in Entry, NEW e \in Entry, EntryOf(w, e)
  PROVE  (reg[n] # Missing /\ Put(n, w) = reg[n]) \/ RegisterOf(Put(n, w), e)
<1> DEFINE r == [ts |-> w.ts, val |-> w.val, expiresAt |-> ExpiresAt(n, w)]
<1>1. r.ts = w.ts /\ r.val = w.val /\ r.expiresAt = ExpiresAt(n, w)
  BY Zenon
<1>2. CameFrom(r, e)
  BY <1>1, Zenon DEF EntryOf, CameFrom
<1>3. ASSUME e.val # Deleted, e.ttl >= Milli
      PROVE  r.expiresAt \in 1..(e.ts.p + e.ttl)
  <2>1. w.ts = e.ts /\ w.val \in {e.val, Decoded(e.val)} /\ w.ttl \in 1..e.ttl
    BY <1>3, Zenon DEF EntryOf, CameFrom
  <2>2. w.val # Deleted
    BY <1>3, <2>1, DecodedDeleted, Zenon DEF Entry
  <2>3. e.ttl \in Nat /\ e.ts.p \in Nat
    BY Zenon DEF Entry, Timestamp
  <2>4. w.ttl \in Nat /\ w.ttl > 0 /\ w.ttl <= e.ttl
    BY <2>1, <2>3, SMTT(60)
  <2>5. ExpiresAt(n, w) = e.ts.p + w.ttl
    BY <2>1, <2>2, <2>4, Zenon DEF ExpiresAt
  <2> QED BY <1>1, <2>3, <2>4, <2>5, SMTT(60)
<1>4. RegisterOf(r, e)
  BY <1>2, <1>3, Zenon DEF RegisterOf
<1> QED BY <1>4, Zenon DEF Put

LEMMA TracedStorePut ==
  ASSUME TypeOK, Traced, NEW n \in Node, NEW w \in Entry, NEW e \in issued,
         EntryOf(w, e), StorePut(n, w), issued' = issued
  PROVE  \A m \in Node : reg'[m] # Missing => \E i \in issued' : RegisterOf(reg'[m], i)
<1>1. reg' = [reg EXCEPT ![n] = Put(n, w)]
  BY Zenon DEF StorePut
<1>2. reg'[n] = Put(n, w) /\ \A m \in Node : m # n => reg'[m] = reg[m]
  BY <1>1, Zenon DEF TypeOK
<1>3. (reg[n] # Missing /\ Put(n, w) = reg[n]) \/ RegisterOf(Put(n, w), e)
  BY PutFrom, Zenon DEF TypeOK
<1> QED BY <1>2, <1>3, Zenon DEF Traced

LEMMA TracedBegin ==
  ASSUME TypeOK, Traced, NEW c \in Client, NEW v \in Content, NEW ttl \in Nat,
         Begin(c, v, ttl)
  PROVE  Traced'
<1> DEFINE e == [ts |-> Now(clock[Home[c]], Wall(Home[c])), val |-> v, ttl |-> ttl]
           k == [pc |-> "set", e |-> e, base |-> reg[Home[c]]]
<1>1. /\ issued' = issued \cup {e} /\ call' = [call EXCEPT ![c] = k]
      /\ reg' = reg /\ log' = log /\ incoming' = incoming
  BY Zenon DEF Begin
<1>2. e.ttl = ttl /\ k.e = e
  BY Zenon
<1> HIDE DEF e, k
<1>3. \A d \in Client : call'[d] # Idle => call'[d].e \in issued'
  <2>1. call'[c] = k /\ \A d \in Client : d # c => call'[d] = call[d]
    BY <1>1, Zenon DEF TypeOK
  <2>2. \A d \in Client : call[d] # Idle => call[d].e \in issued
    BY Zenon DEF Traced
  <2>3. call'[c].e = e /\ e \in issued' /\ issued \subseteq issued'
    BY <1>1, <1>2, <2>1, Zenon
  <2>4. ASSUME NEW d \in Client, call'[d] # Idle PROVE call'[d].e \in issued'
    <3>1. CASE d = c
      BY <2>3, <3>1, Zenon
    <3>2. CASE d # c
      BY <2>1, <2>2, <2>3, <2>4, <3>2, Zenon
    <3> QED BY <3>1, <3>2, Zenon
  <2> QED BY <2>4, Zenon
<1> QED BY <1>1, <1>3, Zenon DEF Traced

LEMMA TracedStep ==
  ASSUME TypeOK, Traced, [Next]_vars
  PROVE  Traced'
<1>1. CASE Tick
  BY <1>1, Zenon DEF Tick, Traced, history
<1>2. ASSUME NEW c \in Client, Set(c) \/ Delete(c) PROVE Traced'
  <2>1. ASSUME NEW a \in Calls[c], Begin(c, a.val, a.ttl) PROVE Traced'
    <3>1. a.val \in Content /\ a.ttl \in Nat
      BY RegistersAssumption, SMTT(60)
    <3> QED BY <2>1, <3>1, TracedBegin, Zenon
  <2>2. ASSUME Begin(c, Deleted, 0) PROVE Traced'
    BY <2>2, TracedBegin, Zenon DEF Content
  <2> QED BY <1>2, <2>1, <2>2, Zenon DEF Set, Delete
<1>3. ASSUME NEW c \in Client, LocalWrite(c) PROVE Traced'
  <2>1. call[c].e \in Entry /\ Home[c] \in Node /\ call[c] \in Call
    BY <1>3, CallType, Zenon DEF LocalWrite
  <2>2. call[c].e \in issued /\ EntryOf(call[c].e, call[c].e)
    BY <1>3, <2>1, LoggedFrom, Zenon DEF LocalWrite, Traced
  <2>3. issued' = issued /\ log' = log /\ incoming' = incoming
    BY <1>3, Zenon DEF LocalWrite, history
  <2>4. \A m \in Node : reg'[m] # Missing => \E i \in issued' : RegisterOf(reg'[m], i)
    BY <1>3, <2>1, <2>2, <2>3, TracedStorePut, Zenon DEF LocalWrite
  <2>5. call' = [call EXCEPT ![c] = [call[c] EXCEPT !.pc = "append"]]
    BY <1>3, Zenon DEF LocalWrite
  <2>6. [call[c] EXCEPT !.pc = "append"].e = call[c].e
    BY <2>1, Zenon DEF Call
  <2>7. \A d \in Client : call'[d] # Idle => call'[d].e \in issued'
    <3>1. \A d \in Client : d # c => call'[d] = call[d]
      BY <2>5, Zenon DEF TypeOK
    <3>2. call'[c] = [call[c] EXCEPT !.pc = "append"]
      BY <2>5, Zenon DEF TypeOK
    <3> QED BY <2>2, <2>3, <2>6, <3>1, <3>2, Zenon DEF Traced
  <2> QED BY <2>3, <2>4, <2>7, Zenon DEF Traced
<1>4. ASSUME NEW c \in Client, LogAppend(c) PROVE Traced'
  <2>1. call[c].e \in Entry /\ Home[c] \in Node /\ call[c].e \in issued
    BY <1>4, CallType, Zenon DEF LogAppend, Traced
  <2>2. EntryOf(Logged(call[c].e), call[c].e)
    BY <2>1, LoggedFrom, Zenon
  <2>3. issued' = issued /\ reg' = reg /\ incoming' = incoming
    BY <1>4, Zenon DEF LogAppend, history
  <2>4. \A n \in Node : log'[n] \subseteq log[n] \cup {Logged(call[c].e)}
    BY <1>4, Zenon DEF LogAppend, TypeOK
  <2>5. \A d \in Client : call'[d] # Idle => call'[d] = call[d]
    BY <1>4, Zenon DEF LogAppend, TypeOK
  <2> QED BY <2>1, <2>2, <2>3, <2>4, <2>5, Zenon DEF Traced
<1>5. ASSUME NEW c \in Client, MarshalError(c) PROVE Traced'
  <2>1. issued' = issued /\ reg' = reg /\ incoming' = incoming /\ log' = log
    BY <1>5, Zenon DEF MarshalError, history
  <2>2. \A d \in Client : call'[d] # Idle => call'[d] = call[d]
    BY <1>5, Zenon DEF MarshalError, TypeOK
  <2> QED BY <2>1, <2>2, Zenon DEF Traced
<1>6. ASSUME NEW n \in Node, NEW p \in Node, NEW e \in log[n], UpdateClock(p, e)
      PROVE  Traced'
  <2>1. issued' = issued /\ reg' = reg /\ call' = call /\ log' = log
    BY <1>6, Zenon DEF UpdateClock, history
  <2>2. \A m \in Node : incoming'[m] \subseteq incoming[m] \cup {e}
    BY <1>6, Zenon DEF UpdateClock, TypeOK
  <2> QED BY <2>1, <2>2, Zenon DEF Traced
<1>7. ASSUME NEW p \in Node, NEW e \in incoming[p], ApplyEntry(p, e)
      PROVE  Traced'
  <2>1. e \in Entry
    BY Zenon DEF TypeOK
  <2>2. PICK i \in issued : EntryOf(e, i)
    BY Zenon DEF Traced
  <2>3. issued' = issued /\ call' = call /\ log' = log
    BY <1>7, Zenon DEF ApplyEntry, history
  <2>4. \A m \in Node : reg'[m] # Missing => \E j \in issued' : RegisterOf(reg'[m], j)
    BY <1>7, <2>1, <2>2, <2>3, TracedStorePut, Zenon DEF ApplyEntry
  <2>5. \A m \in Node : incoming'[m] \subseteq incoming[m]
    BY <1>7, Zenon DEF ApplyEntry, TypeOK
  <2> QED BY <2>3, <2>4, <2>5, Zenon DEF Traced
<1>8. ASSUME NEW n \in Node, PruneExpiredKeys(n) PROVE Traced'
  <2>1. issued' = issued /\ call' = call /\ log' = log /\ incoming' = incoming
    BY <1>8, Zenon DEF PruneExpiredKeys
  <2>2. \A m \in Node : reg'[m] # Missing => reg'[m] = reg[m]
    BY <1>8, Zenon DEF PruneExpiredKeys, TypeOK
  <2> QED BY <2>1, <2>2, Zenon DEF Traced
<1>9. ASSUME NEW n \in Node, Restart(n) PROVE Traced'
  <2>1. issued' = issued
    BY <1>9, Zenon DEF Restart
  <2>2. \A m \in Node : log'[m] \subseteq log[m] /\ incoming'[m] \subseteq incoming[m]
    BY <1>9, Zenon DEF Restart, TypeOK
  <2>3. \A d \in Client : call'[d] # Idle => call'[d] = call[d]
    BY <1>9, Zenon DEF Restart
  <2>4. ASSUME NEW m \in Node, reg'[m] # Missing
        PROVE  \E i \in issued' : RegisterOf(reg'[m], i)
    <3>1. CASE m # n
      <4>1. reg'[m] = reg[m]
        BY <1>9, <3>1, Zenon DEF Restart, TypeOK
      <4> QED BY <2>1, <2>4, <4>1, Zenon DEF Traced
    <3>2. CASE m = n
      <4> DEFINE read == ReadBack(n, now + 1 + Skew[n])
      <4>1. reg[n] # Missing /\ read # Missing /\ reg'[m] = read
        BY <1>9, <2>4, <3>2, Zenon DEF Restart, TypeOK
      <4> HIDE DEF read
      <4>2. PICK i \in issued : RegisterOf(reg[n], i)
        BY <4>1, Zenon DEF Traced
      <4>3. /\ read.ts = reg[n].ts /\ read.val = Decoded(reg[n].val)
            /\ read.expiresAt = reg[n].expiresAt
        BY <4>1, HeldType, Zenon DEF read
      <4>4. i.val \in Content
        BY Zenon DEF TypeOK, Entry
      <4>5. read.val \in {i.val, Decoded(i.val)}
        BY <4>2, <4>3, <4>4, DecodedTwice, Zenon DEF RegisterOf, CameFrom
      <4>6. RegisterOf(read, i)
        BY <4>2, <4>3, <4>5, Zenon DEF RegisterOf, CameFrom
      <4> QED BY <2>1, <4>1, <4>6, Zenon
    <3> QED BY <3>1, <3>2, Zenon
  <2> QED BY <2>1, <2>2, <2>3, <2>4, Zenon DEF Traced
<1>10. CASE UNCHANGED vars
  BY <1>10, Zenon DEF vars, history, Traced
<1> QED BY <1>1, <1>2, <1>3, <1>4, <1>5, <1>6, <1>7, <1>8, <1>9, <1>10, Zenon DEF Next

LEMMA TracedInit == Init => Traced
BY Zenon DEF Init, Traced

(* Every value that a node shows is what some Set was given, or decoded    *)
(* from it, and if it was a string, a byte slice, a struct or a map with   *)
(* strings as keys then it can be scanned into the type that Set was       *)
(* called with, and yields what Set was given, at peers and after restarts *)
(* too.                                                                    *)
THEOREM ValuesScanAsSet == Spec => []ScansAsSet
<1>1. TypeOK /\ Traced => ScansAsSet
  <2> SUFFICES ASSUME TypeOK, Traced, NEW n \in Node, Exists(n)
               PROVE  \E e \in issued :
                        /\ e.val # Deleted /\ CameFrom(reg[n], e)
                        /\ e.val.type \in Scannable => GetScan(Get(n), e.val.type) = e.val
    BY Zenon DEF ScansAsSet
  <2>1. reg[n] # Missing /\ Get(n) = reg[n].val /\ reg[n].val # Deleted
    BY Zenon DEF Exists, Get
  <2>2. PICK e \in issued : RegisterOf(reg[n], e)
    BY <2>1, Zenon DEF Traced
  <2>3. CameFrom(reg[n], e) /\ reg[n].val \in {e.val, Decoded(e.val)}
    BY <2>2, Zenon DEF RegisterOf, CameFrom
  <2>4. e.val # Deleted
    BY <2>1, <2>3, Zenon DEF Decoded
  <2>5. e.val \in Value
    BY <2>4, Zenon DEF TypeOK, Entry, Content
  <2> QED BY <2>1, <2>3, <2>4, <2>5, ScanDecoded, Zenon
<1>2. TypeOK /\ Traced /\ [Next]_vars => Traced'
  BY TracedStep, Zenon
<1> QED BY <1>1, <1>2, TracedInit, TypeCorrect, PTL DEF Spec

(* No node shows a value once the ttl that its Set was given has run out   *)
(* on that node's clock, however the value got there, if the ttl was a     *)
(* millisecond or more.                                                    *)
THEOREM ValuesExpire == Spec => []ExpiresEverywhere
<1>1. TypeOK /\ Traced => ExpiresEverywhere
  <2> SUFFICES ASSUME TypeOK, Traced, NEW n \in Node, Exists(n)
               PROVE  \E e \in issued : /\ CameFrom(reg[n], e)
                                        /\ e.ttl < Milli \/ Wall(n) <= e.ts.p + e.ttl
    BY Zenon DEF ExpiresEverywhere
  <2>1. reg[n] # Missing /\ ~Expired(n) /\ reg[n].val # Deleted
    BY Zenon DEF Exists
  <2>2. PICK e \in issued : RegisterOf(reg[n], e)
    BY <2>1, Zenon DEF Traced
  <2>3. CameFrom(reg[n], e) /\ reg[n].val \in {e.val, Decoded(e.val)}
    BY <2>2, Zenon DEF RegisterOf, CameFrom
  <2>4. e.val # Deleted
    BY <2>1, <2>3, Zenon DEF Decoded
  <2>5. e.val \in Content /\ e.ttl \in Nat /\ e.ts.p \in Nat
    BY Zenon DEF TypeOK, Entry, Timestamp
  <2>7. e.ttl < Milli \/ e.ttl >= Milli
    BY <2>5, RegistersAssumption, SMTT(60)
  <2>8. ASSUME e.ttl >= Milli PROVE Wall(n) <= e.ts.p + e.ttl
    <3>1. reg[n].expiresAt \in 1..(e.ts.p + e.ttl)
      BY <2>2, <2>4, <2>8, Zenon DEF RegisterOf
    <3>2. reg[n].expiresAt \in Int /\ reg[n].expiresAt > 0
          /\ reg[n].expiresAt <= e.ts.p + e.ttl
      BY <2>5, <3>1, SMTT(60)
    <3>3. Wall(n) \in Nat
      BY WallType, Zenon
    <3> QED BY <2>1, <2>5, <3>2, <3>3, SMTT(60) DEF Expired
  <2> QED BY <2>3, <2>7, <2>8, Zenon
<1>2. TypeOK /\ Traced /\ [Next]_vars => Traced'
  BY TracedStep, Zenon
<1> QED BY <1>1, <1>2, TracedInit, TypeCorrect, PTL DEF Spec
=============================================================================
