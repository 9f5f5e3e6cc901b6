----------------------------- MODULE Registers -----------------------------
(***************************************************************************)
(* Last-write-wins registers: what Set, Delete and Get of capacitor.go,    *)
(* applyRemoteEntry, and the store's set, delete, get and janitor do to    *)
(* one key on every node.  Keys do not interact, so one is enough.  The    *)
(* clock is read, the store written and the log appended to under three    *)
(* different locks, so a call is three steps, and calls at one node        *)
(* interleave with each other and with entries received from peers.        *)
(*                                                                         *)
(* An entry in a log may reach a peer at any time, in any order and any    *)
(* number of times, also after the node that logged it was restarted: that *)
(* is what Replication allows.                                             *)
(***************************************************************************)
EXTENDS HLC

CONSTANTS None,        \* nil: no value, no register, no call
          Node,
          Client,      \* the goroutines that call Set and Delete
          Home,        \* [Client -> the node it calls]
          Data,        \* what a value is about, whatever its Go type
          Calls,       \* [Client -> the arguments of its Sets and Deletes]
          Milli,       \* nanoseconds in a millisecond
          Second,      \* nanoseconds in a second
          Grace,       \* nanoseconds that a tombstone is kept; an hour
          Skew,        \* [Node -> how far its wall clock is ahead]
          MaxOffset,   \* HLC.maxOffset
          MaxNow,      \* bound: time
          MaxTicks     \* bound: clock operations in a behaviour

VARIABLES now,       \* real time
          clock,     \* [Node -> Timestamp]
          reg,       \* [Node -> the key's entry in shard.cache, or Missing]
          call,      \* [Client -> where its call is]
          log,       \* [Node -> the entries it has put in its DeltaLog]
          incoming,  \* [Node -> entries between hlc.Update and the store]
          written,   \* [Node -> writes its store was given]
          issued,    \* the calls made so far
          dropped,   \* [Node -> entries its store has lost without a later one]
          restarted, \* the nodes that have been restarted
          ticks      \* number of clock operations so far

history == <<issued, dropped, restarted>>
vars == <<now, clock, reg, call, log, incoming, written, history, ticks>>

Wall(n) == now + Skew[n]

(* Go values, and the msgpack format of each type: a type that is defined  *)
(* as a string or a struct has the format of a string or a map, a map with *)
(* keys that are no strings has one of its own, and a channel has none.    *)
Format == [string |-> "str", bytes |-> "bin", struct |-> "map", map |-> "map",
           definedString |-> "str", definedBytes |-> "bin", intMap |-> "intMap",
           nil |-> "nil"]
Type == DOMAIN Format \cup {"chan"}
Nil == [type |-> "nil", data |-> None]
Value == [type : Type \ {"nil"}, data : Data] \cup {Nil}
Supported(v) == v.type \in DOMAIN Format

(* A Delete is an entry without a value: the tombstone.                    *)
Deleted == None
Content == Value \cup {Deleted}
Entry == [ts : Timestamp, val : Content, ttl : Nat]
Stamp == [ts : Timestamp, val : Content]

(* valWithTS, and the absence of one.                                      *)
ValWithTS == [ts : Timestamp, val : Content, expiresAt : Nat]
Missing == None

(* A call; base is what the register held when it began.                   *)
Call == [pc : {"set", "append"}, e : Entry, base : ValWithTS \cup {Missing}]
Idle == None

(* Arguments are ttls in nanoseconds, 0 for none.                          *)
ASSUME RegistersAssumption ==
  /\ None \notin Value /\ None \notin ValWithTS /\ None \notin Call
  /\ Home \in [Client -> Node]
  /\ Calls \in [Client -> SUBSET [val : Content, ttl : Nat]]
  /\ Milli \in Nat \ {0} /\ Second \in Nat \ {0} /\ Grace \in Nat
  /\ Skew \in [Node -> Nat] /\ MaxOffset \in Nat
  /\ MaxNow \in Nat /\ MaxTicks \in Nat

TypeOK ==
  /\ now \in Nat
  /\ clock \in [Node -> Timestamp]
  /\ reg \in [Node -> ValWithTS \cup {Missing}]
  /\ call \in [Client -> Call \cup {Idle}]
  /\ log \in [Node -> SUBSET Entry]
  /\ incoming \in [Node -> SUBSET Entry]
  /\ written \in [Node -> SUBSET Stamp]
  /\ issued \subseteq Entry
  /\ dropped \in [Node -> SUBSET Stamp]
  /\ restarted \subseteq Node
  /\ ticks \in 0..MaxTicks

Init ==
  /\ now = 0
  /\ clock = [n \in Node |-> [p |-> Skew[n], l |-> 0]]
  /\ reg = [n \in Node |-> Missing]
  /\ call = [c \in Client |-> Idle]
  /\ log = [n \in Node |-> {}]
  /\ incoming = [n \in Node |-> {}]
  /\ written = [n \in Node |-> {}]
  /\ issued = {}
  /\ dropped = [n \in Node |-> {}]
  /\ restarted = {}
  /\ ticks = 0

(***************************************************************************)
(* store.set, store.delete, store.get                                      *)
(***************************************************************************)

(* Mutations of ExpiresAt: a ttl runs from the store's clock; the time     *)
(* that remains is kept, as flush computes it, instead of its end.         *)
ExpiresAtLate(n, e) ==
  IF e.val = Deleted THEN e.ts.p + Grace
  ELSE IF e.ttl > 0 THEN Wall(n) + e.ttl ELSE 0
ExpiresAtRemaining(n, e) ==
  IF e.val = Deleted THEN e.ts.p + Grace - Wall(n)
  ELSE IF e.ttl > 0 THEN e.ts.p + e.ttl - Wall(n) ELSE 0

ExpiresAt(n, e) ==
  IF e.val = Deleted THEN e.ts.p + Grace
  ELSE IF e.ttl > 0 THEN e.ts.p + e.ttl ELSE 0

(* A mutation of Put: what has already expired is discarded on arrival.    *)
PutUnlessExpired(n, e) ==
  LET expiresAt == ExpiresAt(n, e)
  IN  IF \/ reg[n] # Missing /\ GreaterOrEqual(reg[n].ts, e.ts)
         \/ expiresAt > 0 /\ Wall(n) > expiresAt
      THEN reg[n]
      ELSE [ts |-> e.ts, val |-> e.val, expiresAt |-> expiresAt]

(* The register of n after store.set or store.delete.                      *)
Put(n, e) ==
  IF reg[n] # Missing /\ GreaterOrEqual(reg[n].ts, e.ts)
  THEN reg[n]
  ELSE [ts |-> e.ts, val |-> e.val, expiresAt |-> ExpiresAt(n, e)]

StorePut(n, e) ==
  /\ reg' = [reg EXCEPT ![n] = Put(n, e)]
  /\ written' = [written EXCEPT ![n] = @ \cup {[ts |-> e.ts, val |-> e.val]}]

Expired(n) == reg[n].expiresAt > 0 /\ Wall(n) > reg[n].expiresAt

(* The write that a register holds.                                        *)
Held(n) == [ts |-> reg[n].ts, val |-> reg[n].val]

(* store.exists, and store.get, which Get and GetScan read.                *)
Exists(n) == reg[n] # Missing /\ reg[n].val # Deleted /\ ~Expired(n)
Get(n) == IF Exists(n) THEN reg[n].val ELSE Nil

(***************************************************************************)
(* Marshalling                                                             *)
(***************************************************************************)

(* msgpack.Marshal, and msgpack.Unmarshal into an any: a struct comes back *)
(* as a map, a defined type as the one it is defined as, and a map whose   *)
(* keys are no strings is an error that leaves the any nil.                *)
Marshal(v) == [format |-> Format[v.type], data |-> v.data]
AnyType == [str |-> "string", bin |-> "bytes", map |-> "map", nil |-> "nil"]
UnmarshalAny(b) ==
  IF b.format \in DOMAIN AnyType
  THEN [type |-> AnyType[b.format], data |-> b.data] ELSE Nil

(* Unmarshal of its encoding does not fail.                                *)
Decodable(v) == Supported(v) /\ Format[v.type] \in DOMAIN AnyType

(* What becomes of a value in the log; applyRemoteEntry ignores the error. *)
Decoded(val) ==
  IF val = Deleted \/ ~Supported(val) THEN val ELSE UnmarshalAny(Marshal(val))

(* msgpack.Unmarshal into a destination of a given type.                   *)
Encoding == [format : {"str", "bin", "map", "intMap"}, data : Data]
Unmarshal(b, type) ==
  IF b \in Encoding /\ type \in DOMAIN Format /\ Format[type] = b.format
  THEN [type |-> type, data |-> b.data] ELSE None

(* A mutation of GetScan: only the fast path is left.                      *)
GetScanDirect(val, type) == IF val.type = type THEN val ELSE None

(* GetScan of a value into a destination, or None for an error: none for   *)
(* nil; by assignment if the types are equal; a string or a byte slice     *)
(* takes the bytes of a string, of a byte slice or of the encoding;        *)
(* otherwise the bytes, or the encoding, are decoded as the destination's  *)
(* type.                                                                   *)
GetScan(val, type) ==
  LET text  == {"string", "bytes"}
      bytes == IF val.type \in text THEN val.data
               ELSE IF Supported(val) THEN Marshal(val) ELSE None
  IN  IF val = Nil THEN None
      ELSE IF val.type = type THEN val
      ELSE IF type \in text THEN [type |-> type, data |-> bytes]
      ELSE Unmarshal(bytes, type)

(***************************************************************************)
(* Set and Delete                                                          *)
(***************************************************************************)
Tick ==
  /\ now < MaxNow
  /\ now' = now + 1
  /\ UNCHANGED <<clock, reg, call, log, incoming, written, history, ticks>>

(* hlc.Now() at the start of a call by client c.                           *)
Begin(c, val, ttl) ==
  LET n == Home[c]
      e == [ts |-> Now(clock[n], Wall(n)), val |-> val, ttl |-> ttl]
  IN  /\ call[c] = Idle
      /\ ticks < MaxTicks
      /\ ticks' = ticks + 1
      /\ clock' = [clock EXCEPT ![n] = e.ts]
      /\ call' = [call EXCEPT ![c] = [pc |-> "set", e |-> e, base |-> reg[n]]]
      /\ issued' = issued \cup {e}
      /\ UNCHANGED <<now, reg, log, incoming, written, dropped, restarted>>

Set(c) ==
  \E a \in Calls[c] : a.val # Deleted /\ Begin(c, a.val, a.ttl)
Delete(c) ==
  \E a \in Calls[c] : a.val = Deleted /\ Begin(c, Deleted, 0)

(* "Local Write": store.set or store.delete.                               *)
LocalWrite(c) ==
  /\ call[c] # Idle /\ call[c].pc = "set"
  /\ StorePut(Home[c], call[c].e)
  /\ call' = [call EXCEPT ![c] = [@ EXCEPT !.pc = "append"]]
  /\ UNCHANGED <<now, clock, log, incoming, history, ticks>>

(* ttl.Milliseconds() in the entry, and back to nanoseconds at the peer;   *)
(* the value is marshalled here and unmarshalled there.                    *)
Logged(e) ==
  [ts |-> e.ts,
   val |-> Decoded(e.val),
   ttl |-> (e.ttl \div Milli) * Milli]

(* "Log Append".                                                           *)
LogAppend(c) ==
  /\ call[c] # Idle /\ call[c].pc = "append"
  /\ (call[c].e.val # Deleted => Supported(call[c].e.val))
  /\ log' = [log EXCEPT ![Home[c]] = @ \cup {Logged(call[c].e)}]
  /\ call' = [call EXCEPT ![c] = Idle]
  /\ UNCHANGED <<now, clock, reg, incoming, written, history, ticks>>

(* msgpack.Marshal fails: Set returns the error, the store keeps the value.*)
MarshalError(c) ==
  /\ call[c] # Idle /\ call[c].pc = "append"
  /\ call[c].e.val # Deleted /\ ~Supported(call[c].e.val)
  /\ call' = [call EXCEPT ![c] = Idle]
  /\ UNCHANGED <<now, clock, reg, log, incoming, written, history, ticks>>

(***************************************************************************)
(* applyRemoteEntry                                                        *)
(***************************************************************************)

(* A mutation of UpdateClock: the clock is not moved by what is received.  *)
UpdateClockNot(p, e) ==
  /\ ticks < MaxTicks
  /\ ticks' = ticks + 1
  /\ ~ClockSmash(Wall(p), MaxOffset, e.ts)
  /\ incoming' = [incoming EXCEPT ![p] = @ \cup {e}]
  /\ UNCHANGED <<now, clock, reg, call, log, written, history>>

(* hlc.Update at p for an entry of a peer's log.  An entry that Update     *)
(* refuses is dropped, which changes nothing.                              *)
UpdateClock(p, e) ==
  /\ ticks < MaxTicks
  /\ ticks' = ticks + 1
  /\ ~ClockSmash(Wall(p), MaxOffset, e.ts)
  /\ clock' = [clock EXCEPT ![p] = Update(@, Wall(p), e.ts)]
  /\ incoming' = [incoming EXCEPT ![p] = @ \cup {e}]
  /\ UNCHANGED <<now, reg, call, log, written, history>>

ApplyEntry(p, e) ==
  /\ e \in incoming[p]
  /\ incoming' = [incoming EXCEPT ![p] = @ \ {e}]
  /\ StorePut(p, e)
  /\ UNCHANGED <<now, clock, call, log, history, ticks>>

(***************************************************************************)
(* The janitor, and a restart                                              *)
(***************************************************************************)
PruneExpiredKeys(n) ==
  /\ reg[n] # Missing /\ Expired(n)
  /\ reg' = [reg EXCEPT ![n] = Missing]
  /\ dropped' = [dropped EXCEPT ![n] = @ \cup {Held(n)}]
  /\ UNCHANGED <<now, clock, call, log, incoming, written, issued, restarted, ticks>>

(* badger's WithTTL keeps the second in which an entry ends, and does not  *)
(* return the entry from the beginning of that second.                     *)
Lapsed(expiresAt, wall) ==
  expiresAt > 0 /\ expiresAt \div Second <= wall \div Second

(* A mutation of ReadBack: the tombstones are not read.                    *)
ReadBackValues(n, wall) ==
  IF reg[n].val = Deleted \/ Lapsed(reg[n].expiresAt, wall) THEN Missing
  ELSE [reg[n] EXCEPT !.val = Decoded(reg[n].val)]

(* What flush writes of the register and load reads back: nothing of one   *)
(* that has expired, and none of a value that cannot be marshalled or      *)
(* whose encoding cannot be decoded.                                       *)
ReadBack(n, wall) ==
  IF \/ Lapsed(reg[n].expiresAt, wall)
     \/ reg[n].val # Deleted /\ ~Decodable(reg[n].val)
  THEN Missing
  ELSE [reg[n] EXCEPT !.val = Decoded(reg[n].val)]

(* Close, which flushes the store, and New on the same DataPath; the clock *)
(* starts from the wall clock, which has moved on.  The new log is empty,  *)
(* but what was in the old one may still be on its way and stays in log.   *)
Restart(n) ==
  LET wall == now + 1 + Skew[n]
      read == IF reg[n] = Missing THEN Missing ELSE ReadBack(n, wall)
  IN  /\ now < MaxNow /\ ticks < MaxTicks
      /\ now' = now + 1
      /\ ticks' = ticks + 1
      /\ clock' = [clock EXCEPT ![n] = [p |-> wall, l |-> 0]]
      /\ reg' = [reg EXCEPT ![n] = read]
      /\ dropped' = [dropped EXCEPT ![n] =
                       IF reg[n] # Missing /\ read = Missing
                       THEN @ \cup {Held(n)} ELSE @]
      /\ restarted' = restarted \cup {n}
      /\ call' = [c \in Client |-> IF Home[c] = n THEN Idle ELSE call[c]]
      /\ incoming' = [incoming EXCEPT ![n] = {}]
      /\ UNCHANGED <<log, written, issued>>

(***************************************************************************)
(* Specifications                                                          *)
(***************************************************************************)
Next ==
  \/ Tick
  \/ \E c \in Client : Set(c)
  \/ \E c \in Client : Delete(c)
  \/ \E c \in Client : LocalWrite(c)
  \/ \E c \in Client : LogAppend(c)
  \/ \E c \in Client : MarshalError(c)
  \/ \E n, p \in Node : n # p /\ \E e \in log[n] : UpdateClock(p, e)
  \/ \E p \in Node : \E e \in incoming[p] : ApplyEntry(p, e)
  \/ \E n \in Node : PruneExpiredKeys(n)
  \/ \E n \in Node : Restart(n)

Spec == Init /\ [][Next]_vars

(***************************************************************************)
(* Properties                                                              *)
(***************************************************************************)

(* What a write says, whether or not it has been decoded.  (A value that   *)
(* cannot be stays what it is: the nil that a peer stores for it is        *)
(* another.)                                                               *)
Meaning(w) ==
  [ts |-> w.ts,
   val |-> IF w.val = Deleted \/ ~Decodable(w.val) THEN w.val ELSE Decoded(w.val)]

(* Two nodes have been given the same writes.                              *)
SameWrites(n, p) ==
  {Meaning(w) : w \in written[n]} = {Meaning(w) : w \in written[p]}

Agree(n, p) ==
  IF reg[n] = Missing \/ reg[p] = Missing
  THEN reg[n] = reg[p]
  ELSE Meaning(reg[n]) = Meaning(reg[p])

NoTies(n) == \A v, w \in written[n] : v.ts = w.ts => Meaning(v) = Meaning(w)

(* "the cluster eventually converges on the same value": two nodes whose   *)
(* stores were given the same writes hold the same value, in whatever      *)
(* order the writes came and however often and with restarts in between,   *)
(* if no two of the writes carry the same timestamp (timestamps have no    *)
(* node in them, so writes of two nodes may, and then each keeps its own)  *)
(* and neither has dropped an entry (which forgets its timestamp, so that  *)
(* older writes are accepted again).                                       *)
ConvergesWithoutTies ==
  \A n, p \in Node :
    SameWrites(n, p) /\ NoTies(n) /\ dropped[n] = {} /\ dropped[p] = {}
      => Agree(n, p)

(* A Set or Delete overrides whatever the node held when it was called,    *)
(* wherever that came from and however far ahead its writer's clock was:   *)
(* the timestamp it takes is later, so store.set does not discard it.  (A  *)
(* node that was restarted has forgotten its clock, and does not set it    *)
(* from what it loads.)                                                    *)
LaterCallWins ==
  \A c \in Client :
    call[c] # Idle /\ call[c].base # Missing /\ Home[c] \notin restarted
      => After(call[c].e.ts, call[c].base.ts)

(* A restart may cut the last second off the time of a tombstone.          *)
GraceOf(n) == IF n \in restarted THEN Grace - Second ELSE Grace

Protected(n, w) ==
  /\ w.val = Deleted /\ Wall(n) <= w.ts.p + GraceOf(n)
  /\ \A d \in dropped[n] : d.val = Deleted \/ After(w.ts, d.ts)

(* A key that was deleted does not come back for "a 1 hour GC grace        *)
(* period": a node that was given a tombstone shows no older value until   *)
(* the period is over on its clock, or a second before that if it was      *)
(* restarted, whatever arrives late, unless a later value of the key has   *)
(* expired in the meantime (or could not be stored) and taken the memory   *)
(* of the tombstone with it.                                               *)
DeletedStaysDeleted ==
  \A n \in Node : \A w \in written[n] :
    Protected(n, w) /\ Exists(n) => GreaterOrEqual(reg[n].ts, w.ts)

(* w is the write of a call, with its value as it was or decoded.          *)
CameFrom(w, e) == w.ts = e.ts /\ w.val \in {e.val, Decoded(e.val)}

(* The types for which GetScan finds its way back: not those that are      *)
(* defined as a string or a byte slice, since GetScan takes the text that  *)
(* a peer holds for an encoding, nor those that peers hold as nil.         *)
Scannable == {"string", "bytes", "struct", "map"}

(* What a node shows is what some Set was given, as it was or decoded; and *)
(* GetScan into a variable of the type that was passed to Set yields the   *)
(* value that was passed to it, although the node may hold another type    *)
(* (decoded from a peer's entry or from the database, a struct is a map),  *)
(* if the type is none of those that GetScan cannot bring back.            *)
ScansAsSet ==
  \A n \in Node : Exists(n) =>
    \E e \in issued :
      /\ e.val # Deleted /\ CameFrom(reg[n], e)
      /\ e.val.type \in Scannable => GetScan(Get(n), e.val.type) = e.val

(* "If a positive TTL is specified, the key-value pair will automatically  *)
(* expire": no node shows a value after the time that its Set gave it has  *)
(* run out on that node's clock, if it was a millisecond or more.  (A      *)
(* shorter one is logged as 0, and the peers keep the value.)              *)
ExpiresEverywhere ==
  \A n \in Node : Exists(n) =>
    \E e \in issued :
      /\ CameFrom(reg[n], e)
      /\ e.ttl < Milli \/ Wall(n) <= e.ts.p + e.ttl

(***************************************************************************)
(* The inductive invariants: behind the first two properties, that the     *)
(* register of a node holds one of the writes that its store was given,    *)
(* none of them later unless a later entry was dropped, and drops a        *)
(* tombstone only when its time is over; behind LaterCallWins, that the    *)
(* clock of a node that was not restarted is not behind its store.         *)
(***************************************************************************)
Outlived(n, w) ==
  \/ reg[n] # Missing /\ GreaterOrEqual(reg[n].ts, w.ts)
  \/ \E d \in dropped[n] : GreaterOrEqual(d.ts, w.ts)

Latest(n) ==
  /\ reg[n] # Missing =>
       /\ \E w \in written[n] : Meaning(reg[n]) = Meaning(w)
       /\ reg[n].val = Deleted => reg[n].expiresAt = reg[n].ts.p + Grace
  /\ \A w \in written[n] : Outlived(n, w)
  /\ \A d \in dropped[n] : d.val = Deleted => Wall(n) > d.ts.p + GraceOf(n)

LastWriteWins == \A n \in Node : Latest(n)

(* No logical part exceeds the number of clock operations so far.          *)
Bounded(ts) == ts.l \in 0..ticks

LogicalBounded ==
  \A n \in Node : Bounded(clock[n]) /\ \A e \in log[n] : Bounded(e.ts)

ClockCovers ==
  /\ \A n \in Node \ restarted :
       /\ reg[n] # Missing => GreaterOrEqual(clock[n], reg[n].ts)
       /\ \A e \in incoming[n] : GreaterOrEqual(clock[n], e.ts)
  /\ \A c \in Client : call[c] # Idle =>
       /\ Home[c] \notin restarted => GreaterOrEqual(clock[Home[c]], call[c].e.ts)
       /\ Bounded(call[c].e.ts)

ClockInv == TypeOK /\ LogicalBounded /\ ClockCovers /\ LaterCallWins

(***************************************************************************)
(* The inductive invariant behind ScansAsSet and ExpiresEverywhere: what a *)
(* node holds, or is about to, was issued by a call, with its value as it  *)
(* was or decoded, and with no more of its ttl, if it was a millisecond.   *)
(***************************************************************************)
EntryOf(w, e) == CameFrom(w, e) /\ (e.ttl >= Milli => w.ttl \in 1..e.ttl)

RegisterOf(w, e) ==
  /\ CameFrom(w, e)
  /\ e.val # Deleted /\ e.ttl >= Milli => w.expiresAt \in 1..(e.ts.p + e.ttl)

Traced ==
  /\ \A c \in Client : call[c] # Idle => call[c].e \in issued
  /\ \A n \in Node : \A w \in log[n] \cup incoming[n] : \E e \in issued : EntryOf(w, e)
  /\ \A n \in Node : reg[n] # Missing => \E e \in issued : RegisterOf(reg[n], e)
=============================================================================
