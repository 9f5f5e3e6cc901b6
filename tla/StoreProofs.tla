---------------------------- MODULE StoreProofs -----------------------------
(***************************************************************************)
(* Proofs about Store: its state keeps its types, no change to a register  *)
(* or counter is forgotten while the store is open, and close persists     *)
(* what it finds when no other flush is under way.                         *)
(*                                                                         *)
(* All three rest on StoreInv: a flush takes a key at most once, because   *)
(* it visits each shard once, so the commit writes the item it took; that  *)
(* item is what memory holds, or the key is dirty again; and until close's *)
(* flush has come to the shard of a key, the key is dirty, after that it   *)
(* is in close's batch, and after that in the database.                    *)
(***************************************************************************)
EXTENDS Store, TLAPS

(***************************************************************************)
(* Keys                                                                    *)
(***************************************************************************)

LEMMA NameType ==
  ASSUME NEW k \in Key
  PROVE  /\ Name[k] \in Seq(DOMAIN Hash) /\ Len(Name[k]) \in Nat /\ Len(Name[k]) >= 1
         /\ \A i \in 1..Len(Name[k]) : Name[k][i] \in DOMAIN Hash
         /\ Kind[k] \in Kinds
<1>1. Name[k] \in Seq(DOMAIN Hash) /\ Name[k] # <<>> /\ Kind[k] \in Kinds
  BY StoreAssumption, Zenon
<1> QED BY <1>1

(* The paths of the kinds of keys.                                         *)
LEMMA Paths ==
  ASSUME NEW k \in Key
  PROVE  /\ Kind[k] = "register" => Path(k) = Name[k]
         /\ Kind[k] = "counter" => /\ Path(k)[1] = "c" /\ Path(k)[2] = Name[k][1]
                                   /\ Len(Path(k)) >= 3
         /\ Kind[k] = "window" => Path(k)[1] = "sw" /\ Len(Path(k)) >= 3
         /\ Kind[k] = "seq" => /\ Path(k)[1] = "meta" /\ Path(k)[2] = "seq"
                               /\ Len(Path(k)) >= 3
<1>1. Name[k] \in Seq(DOMAIN Hash) /\ Len(Name[k]) \in Nat /\ Len(Name[k]) >= 1
  BY NameType, Zenon
<1>2. CASE Kind[k] = "register"
  BY <1>2, Zenon DEF Path
<1>3. CASE Kind[k] = "counter"
  <2>1. Path(k) = <<"c">> \o Name[k] \o <<"node">>
    BY <1>3, Zenon DEF Path
  <2> QED BY <1>1, <1>3, <2>1
<1>4. CASE Kind[k] = "window"
  <2>1. Path(k) = <<"sw">> \o Name[k] \o <<"time">>
    BY <1>4, Zenon DEF Path
  <2> QED BY <1>1, <1>4, <2>1
<1>5. CASE Kind[k] = "seq"
  <2>1. Path(k) = <<"meta", "seq">> \o Name[k]
    BY <1>5, Zenon DEF Path
  <2> QED BY <1>1, <1>5, <2>1
<1> QED BY <1>2, <1>3, <1>4, <1>5, NameType, Zenon DEF Kinds

LEMMA ShardType ==
  ASSUME NEW k \in Key
  PROVE  ShardOf(k) \in 1..Shards
<1>1. CASE Kind[k] = "seq"
  <2>1. ShardKey(Path(k)) = "seq"
    BY <1>1, Paths DEF ShardKey
  <2> QED BY <1>1, <2>1, StoreAssumption, Zenon DEF ShardOf, Shard
<1>2. CASE Kind[k] # "seq"
  <2>1. ShardKey(Name[k]) \in DOMAIN Hash
    <3>1. 1 \in 1..Len(Name[k]) /\ (Len(Name[k]) # 1 => 2 \in 1..Len(Name[k]))
      <4>1. Len(Name[k]) \in Nat /\ Len(Name[k]) >= 1
        BY NameType, Zenon
      <4>2. \A n \in Nat : n >= 1 => 1 \in 1..n /\ (n # 1 => 2 \in 1..n)
        OBVIOUS
      <4> QED BY <4>1, <4>2, Zenon
    <3>2. \A i \in 1..Len(Name[k]) : Name[k][i] \in DOMAIN Hash
      BY NameType, Zenon
    <3> QED BY <3>1, <3>2, Zenon DEF ShardKey
  <2> QED BY <1>2, <2>1, StoreAssumption, Zenon DEF ShardOf, Shard
<1> QED BY <1>1, <1>2, Zenon

(* What load takes the keys that flush writes for.                         *)
LEMMA KindsRead ==
  ASSUME NEW k \in Key
  PROVE  /\ Kind[k] = "counter" => /\ KindIn(Path(k)) = "counter"
                                   /\ NameIn(Path(k)) = <<Path(k)[2]>>
         /\ Kind[k] = "window" => KindIn(Path(k)) = "window"
         /\ Kind[k] = "seq" => KindIn(Path(k)) = "seq"
<1>1. ASSUME Kind[k] = "counter"
      PROVE  KindIn(Path(k)) = "counter" /\ NameIn(Path(k)) = <<Path(k)[2]>>
  <2>1. KindIn(Path(k)) = "counter" /\ Len(Path(k)) >= 3
    BY <1>1, Paths DEF KindIn
  <2> QED BY <2>1, Zenon DEF NameIn
<1>2. ASSUME Kind[k] = "window" PROVE KindIn(Path(k)) = "window"
  BY <1>2, Paths DEF KindIn
<1>3. ASSUME Kind[k] = "seq" PROVE KindIn(Path(k)) = "seq"
  BY <1>3, Paths DEF KindIn
<1> QED BY <1>1, <1>2, <1>3, Zenon

(* A counter with a plain name comes back under it, in its shard.          *)
LEMMA PlainCounter ==
  ASSUME NEW k \in Key, Kind[k] = "counter", Plain(k)
  PROVE  NameIn(Path(k)) = Name[k] /\ Shard(Path(k)) = ShardOf(k)
<1>1. Path(k)[2] = Name[k][1] /\ Len(Path(k)) >= 3 /\ NameIn(Path(k)) = <<Path(k)[2]>>
  BY Paths, KindsRead, Zenon
<1>2. Len(Name[k]) = 1 /\ Kind[k] # "seq"
  BY DEF Plain
<1>3. Name[k] = <<Name[k][1]>>
  BY <1>2, NameType
<1>4. ShardKey(Path(k)) = Path(k)[2] /\ ShardKey(Name[k]) = Name[k][1]
  BY <1>1, <1>2 DEF ShardKey
<1> QED BY <1>1, <1>2, <1>3, <1>4, Zenon DEF Shard, ShardOf

(* So does a register; one whose name is not plain may be taken for a      *)
(* counter, of the second segment.                                         *)
LEMMA RegisterRead ==
  ASSUME NEW k \in Key, Kind[k] = "register"
  PROVE  /\ Path(k) = Name[k] /\ Shard(Path(k)) = ShardOf(k)
         /\ Plain(k) => KindIn(Path(k)) = "register"
         /\ KindIn(Path(k)) = "register" => NameIn(Path(k)) = Name[k]
         /\ KindIn(Path(k)) = "counter" => NameIn(Path(k)) \in {<<Path(k)[2]>>, <<>>}
<1>1. Path(k) = Name[k] /\ Shard(Path(k)) = ShardOf(k)
  BY Paths DEF ShardOf
<1>2. ASSUME Plain(k) PROVE KindIn(Name[k]) = "register"
  <2>1. \/ Len(Name[k]) = 1
        \/ /\ Name[k][1] \notin {"c", "mc", "ms", "sw"}
           /\ Name[k][1] = "meta" => Name[k][2] # "seq"
    BY <1>2, Zenon DEF Plain
  <2>2. CASE Len(Name[k]) = 1
    BY <2>2, Zenon DEF KindIn
  <2>3. CASE Len(Name[k]) # 1
    <3>1. Name[k][1] # "c" /\ Name[k][1] \notin {"mc", "ms"} /\ Name[k][1] # "sw"
          /\ ~(Name[k][1] = "meta" /\ Name[k][2] = "seq")
      BY <2>1, <2>3, Zenon
    <3> QED BY <2>3, <3>1 DEF KindIn
  <2> QED BY <2>2, <2>3, Zenon
<1>3. KindIn(Path(k)) = "register" => NameIn(Path(k)) = Path(k)
  BY DEF NameIn
<1>4. KindIn(Path(k)) = "counter" => NameIn(Path(k)) \in {<<Path(k)[2]>>, <<>>}
  BY Zenon DEF NameIn
<1> QED BY <1>1, <1>2, <1>3, <1>4, Zenon

LEMMA LoadedDurable ==
  ASSUME NEW k \in Durable
  PROVE  Loaded(k) = db[k]
<1>1. /\ k \in Key /\ Kind[k] \in {"register", "counter"} /\ Plain(k)
      /\ \A j \in Key : Plain(j) \/ Name[k] # <<Path(j)[2]>>
  BY Zenon DEF Durable, Keys
<1>0. Name[k] # <<>>
  BY <1>1, NameType
<1> DEFINE From(j) == /\ KindIn(Path(j)) = Kind[k] /\ NameIn(Path(j)) = Name[k]
                      /\ Shard(Path(j)) = ShardOf(k)
<1>2. From(k)
  BY <1>1, KindsRead, PlainCounter, RegisterRead, Zenon
<1>3. ASSUME NEW j \in Key, From(j) PROVE j = k
  <2>0. Name[j] = Name[k] => j = k
    BY <1>1, StoreAssumption, Zenon
  <2>1. CASE Kind[j] = "register"
    <3>1. CASE Kind[k] = "register"
      BY <1>3, <2>0, <2>1, <3>1, RegisterRead, Zenon
    <3>2. CASE Kind[k] = "counter"
      <4>1. KindIn(Path(j)) = "counter" /\ "counter" # "register"
        BY <1>3, <3>2
      <4>2. ~Plain(j) /\ Name[k] = <<Path(j)[2]>>
        BY <1>0, <1>3, <2>1, <4>1, RegisterRead, Zenon
      <4> QED BY <1>1, <4>2, Zenon
    <3> QED BY <1>1, <3>1, <3>2, Zenon
  <2>2. CASE Kind[j] = "counter"
    <3>1. NameIn(Path(j)) = <<Path(j)[2]>>
      BY <2>2, KindsRead, Zenon
    <3>2. Plain(j)
      BY <1>1, <1>3, <3>1, Zenon
    <3> QED BY <1>3, <2>0, <2>2, <3>2, PlainCounter, Zenon
  <2>3. CASE Kind[j] = "window" \/ Kind[j] = "seq"
    BY <1>1, <1>3, <2>3, KindsRead, Zenon
  <2> QED BY <2>1, <2>2, <2>3, NameType, Zenon DEF Kinds
<1>4. {j \in Key : From(j)} = {k}
  <2> HIDE DEF From
  <2> QED BY <1>1, <1>2, <1>3, Zenon
<1>5. Loaded(k) = UNION {db[j] : j \in {j \in Key : From(j)}}
  BY Zenon DEF Loaded
<1>6. {db[j] : j \in {k}} = {db[k]} /\ UNION {db[k]} = db[k]
  BY Zenon
<1> QED BY <1>4, <1>5, <1>6, Zenon

(***************************************************************************)
(* Types, and that every version was written                               *)
(***************************************************************************)

(* The steps of Next, those of the flushes by their flusher.               *)
LEMMA Actions ==
  ASSUME [Next]_vars
  PROVE  \/ \E k \in Key : Write(k)
         \/ \E k \in Key : \E v \in mem[k] : Expire(k, v)
         \/ \E i \in 1..Shards : PruneExpiredKeys(i) \/ PruneStaleWindows(i)
         \/ StartFlush
         \/ \E f \in Flusher : Snapshot(f) \/ Commit(f) \/ CommitError(f)
         \/ Close \/ LoopExits \/ CloseDB
         \/ Restart
         \/ UNCHANGED vars
<1>1. "loop" \in Flusher /\ "close" \in Flusher
  BY Zenon DEF Flusher
<1> QED BY <1>1, ZenonT(40) DEF Next, LoopFlush, Closing

LEMMA NewFacts ==
  ASSUME NEW k \in Key, NEW v, NEW new \in NewContents(k, v)
  PROVE  new \subseteq mem[k] \cup {v} /\ (Kind[k] # "window" => new = {v})
BY Zenon DEF NewContents

LEMMA FoundFacts ==
  ASSUME NEW k \in Key
  PROVE  /\ Found(k) \subseteq mem[k]
         /\ k \in Durable => Found(k) \ expired = mem[k] \ expired
<1>1. Kind[k] \in Kinds
  BY NameType, Zenon
<1>2. CASE Kind[k] = "seq"
  BY <1>2, Zenon DEF Found, Durable, Keys
<1>3. CASE Kind[k] = "register"
  BY <1>3, Zenon DEF Found, Durable, Keys
<1>4. CASE Kind[k] # "seq" /\ Kind[k] # "register"
  BY <1>4, Zenon DEF Found, Durable, Keys
<1> QED BY <1>2, <1>3, <1>4, Zenon

LEMMA CommittedFunction ==
  ASSUME NEW f \in Flusher
  PROVE  Committed(f) = [j \in Key |-> Committed(f)[j]]
<1> DEFINE Left(j) ==
      IF j \notin Taken(f) THEN db[j]
      ELSE LET item == CHOOSE x \in batch[f] : x.key = j
           IN  IF Kind[j] = "window" THEN db[j] \cup item.val ELSE item.val
<1>1. Committed(f) = [j \in Key |-> Left(j)]
  BY Zenon DEF Committed
<1> HIDE DEF Left
<1> QED BY <1>1, Zenon

(* What the commit of f leaves under a key.                                *)
LEMMA CommittedFacts ==
  ASSUME NEW f \in Flusher, NEW k \in Key
  PROVE  /\ k \notin Taken(f) => Committed(f)[k] = db[k]
         /\ k \in Taken(f) =>
              \E x \in batch[f] :
                /\ x.key = k
                /\ Committed(f)[k] = IF Kind[k] = "window" THEN db[k] \cup x.val
                                     ELSE x.val
<1>1. ASSUME k \notin Taken(f) PROVE Committed(f)[k] = db[k]
  BY <1>1, Zenon DEF Committed
<1>2. ASSUME k \in Taken(f)
      PROVE  \E x \in batch[f] :
                /\ x.key = k
                /\ Committed(f)[k] = IF Kind[k] = "window" THEN db[k] \cup x.val
                                     ELSE x.val
  <2> DEFINE item == CHOOSE x \in batch[f] : x.key = k
  <2>1. item \in batch[f] /\ item.key = k
    <3>1. \E x \in batch[f] : x.key = k
      BY <1>2, Zenon DEF Taken
    <3> QED BY <3>1, Zenon
  <2>2. Committed(f)[k] = IF Kind[k] = "window" THEN db[k] \cup item.val ELSE item.val
    BY <1>2, Zenon DEF Committed
  <2> HIDE DEF item
  <2> QED BY <2>1, <2>2, Zenon
<1> QED BY <1>1, <1>2, Zenon

(* The versions that were written are versions.                            *)
LEMMA VersionsWritten ==
  ASSUME writes \in 0..MaxWrites
  PROVE  1..writes \subseteq Version
BY StoreAssumption DEF Version

TypesWritten == TypeOK /\ Written

LEMMA TypesWrittenInit ==
  ASSUME Init
  PROVE  TypesWritten
<1>1. TypeOK
  <2>1. pc \in [Flusher -> Exited..Commits]
    BY StoreAssumption DEF Init, Exited, Idle, Commits
  <2>2. writes \in 0..MaxWrites /\ expired \subseteq 1..writes
        /\ restarts \in 0..MaxRestarts /\ errors \in 0..MaxErrors
    BY StoreAssumption DEF Init
  <2>3. Nothing \in [Key -> SUBSET Version]
    BY Zenon DEF Nothing
  <2>4. batch \in [Flusher -> SUBSET Item]
    BY Zenon DEF Init
  <2> QED BY <2>1, <2>2, <2>3, <2>4, ZenonT(40) DEF Init, TypeOK
<1>2. Written
  BY Zenon DEF Init, Written, Nothing
<1> QED BY <1>1, <1>2, Zenon DEF TypesWritten

LEMMA TypesWrite ==
  ASSUME TypesWritten, NEW k \in Key, Write(k)
  PROVE  TypesWritten'
<1> USE DEF TypesWritten
<1>1. PICK new \in NewContents(k, writes + 1) : mem' = [mem EXCEPT ![k] = new]
  BY Zenon DEF Write
<1>2. new \subseteq mem[k] \cup {writes + 1}
  BY NewFacts, Zenon
<1>3. writes' \in 0..MaxWrites /\ 1..writes \subseteq 1..writes' /\ writes + 1 \in 1..writes'
  BY StoreAssumption DEF TypeOK, Write
<1>4. 1..writes' \subseteq Version
  BY <1>3, StoreAssumption DEF Version
<1>5. \A j \in Key : mem'[j] \subseteq 1..writes'
  <2> SUFFICES ASSUME NEW j \in Key PROVE mem'[j] \subseteq 1..writes'
    BY Zenon
  <2>1. mem \in [Key -> SUBSET Version] /\ mem[j] \subseteq 1..writes /\ mem[k] \subseteq 1..writes
    BY Zenon DEF TypeOK, Written
  <2>2. CASE j = k
    BY <1>1, <1>2, <1>3, <2>1, <2>2, Zenon
  <2>3. CASE j # k
    BY <1>1, <1>3, <2>1, <2>3, Zenon
  <2> QED BY <2>2, <2>3, Zenon
<1>6. mem' = [j \in Key |-> mem'[j]]
  BY <1>1, Zenon DEF TypeOK
<1>7. mem' \in [Key -> SUBSET Version]
  <2>1. \A j \in Key : mem'[j] \in SUBSET Version
    BY <1>4, <1>5, Zenon
  <2> QED BY <1>6, <2>1, Zenon
<1>8. TypeOK'
  BY <1>3, <1>7, ZenonT(40) DEF TypeOK, Write, process, bounds
<1>9. Written'
  <2>1. db' = db /\ atClose' = atClose /\ batch' = batch
    BY Zenon DEF Write, process
  <2> QED BY <1>3, <1>5, <2>1, ZenonT(40) DEF Written
<1> QED BY <1>8, <1>9, Zenon

LEMMA TypesMemory ==
  ASSUME TypesWritten,
         \/ \E k \in Key : \E v \in mem[k] : Expire(k, v)
         \/ \E i \in 1..Shards : PruneExpiredKeys(i) \/ PruneStaleWindows(i)
  PROVE  TypesWritten'
<1> USE DEF TypesWritten
<1>1. UNCHANGED <<db, pc, batch, process, writes, lost, bounds>>
  BY Zenon DEF Expire, PruneExpiredKeys, PruneStaleWindows
<1>2. expired' \subseteq 1..writes' /\ dirty' \subseteq Key
      /\ mem' \in [Key -> SUBSET Version] /\ \A k \in Key : mem'[k] \subseteq mem[k]
  <2>1. ASSUME NEW k \in Key, NEW v \in mem[k], Expire(k, v) PROVE <1>2
    BY <2>1, ZenonT(40) DEF Expire, TypeOK, Written
  <2>2. ASSUME NEW ks \in SUBSET Key PROVE /\ Emptied(ks) \in [Key -> SUBSET Version]
                                          /\ \A k \in Key : Emptied(ks)[k] \subseteq mem[k]
    BY Zenon DEF Emptied, TypeOK
  <2>3. ASSUME NEW i \in 1..Shards, PruneExpiredKeys(i) PROVE <1>2
    <3> DEFINE ks == {k \in InShard(i) \cap Keys({"register"}) : Outdated(k)}
    <3>1. ks \in SUBSET Key
      BY Zenon DEF InShard
    <3>2. mem' = Emptied(ks) /\ dirty' = dirty \cup ks /\ expired' = expired /\ writes' = writes
      BY <2>3, Zenon DEF PruneExpiredKeys
    <3> HIDE DEF ks
    <3> QED BY <2>2, <3>1, <3>2, ZenonT(40) DEF TypeOK
  <2>4. ASSUME NEW i \in 1..Shards, PruneStaleWindows(i) PROVE <1>2
    <3> DEFINE ks == {k \in InShard(i) \cap Keys({"window"}) : Outdated(k)}
    <3>1. ks \in SUBSET Key
      BY Zenon DEF InShard
    <3>2. mem' = Emptied(ks) /\ dirty' = dirty /\ expired' = expired /\ writes' = writes
      BY <2>4, Zenon DEF PruneStaleWindows
    <3> HIDE DEF ks
    <3> QED BY <2>2, <3>1, <3>2, ZenonT(40) DEF TypeOK
  <2> QED BY <2>1, <2>3, <2>4, Zenon
<1>3. TypeOK'
  BY <1>1, <1>2, ZenonT(40) DEF TypeOK, process, bounds
<1>4. Written'
  BY <1>1, <1>2, ZenonT(40) DEF Written, process, TypeOK
<1> QED BY <1>3, <1>4, Zenon

(* The places a flush can be at.                                           *)
LEMMA Places ==
  /\ Exited \in Exited..Commits /\ Idle \in Exited..Commits /\ 1 \in Exited..Commits
  /\ \A i \in 1..Shards : i + 1 \in Exited..Commits
  /\ Exited # Idle /\ Exited # 1 /\ Idle # 1
  /\ Exited \notin 1..Shards /\ Idle \notin 1..Shards
  /\ Exited # Commits /\ Idle # Commits
BY StoreAssumption DEF Exited, Idle, Commits

LEMMA TypesSnapshot ==
  ASSUME TypesWritten, NEW f \in Flusher, Snapshot(f)
  PROVE  TypesWritten'
<1> USE DEF TypesWritten
<1> DEFINE ks == dirty \cap InShard(pc[f])
           new == {[key |-> k, val |-> Found(k)] : k \in ks}
<1>1. /\ pc[f] \in 1..Shards
      /\ batch' = [batch EXCEPT ![f] = @ \cup new]
      /\ dirty' = dirty \ ks
      /\ pc' = [pc EXCEPT ![f] = @ + 1]
      /\ UNCHANGED <<mem, db, process, writes, expired, lost, bounds>>
  BY Zenon DEF Snapshot
<1>2. \A x \in new : x \in Item /\ x.val \subseteq 1..writes
  <2> SUFFICES ASSUME NEW k \in ks
               PROVE  /\ [key |-> k, val |-> Found(k)] \in Item
                      /\ [key |-> k, val |-> Found(k)].val \subseteq 1..writes
    BY Zenon
  <2>1. k \in Key
    BY Zenon DEF InShard
  <2>2. Found(k) \subseteq 1..writes /\ Found(k) \in SUBSET Version
    BY <2>1, FoundFacts, ZenonT(40) DEF TypeOK, Written
  <2> HIDE DEF ks, new
  <2> QED BY <2>1, <2>2, Zenon DEF Item
<1>3. pc' \in [Flusher -> Exited..Commits]
  <2>1. pc[f] + 1 \in Exited..Commits
    BY <1>1, Places, Zenon
  <2> QED BY <1>1, <2>1, Zenon DEF TypeOK
<1> HIDE DEF new
<1>4. batch' \in [Flusher -> SUBSET Item]
  <2>1. batch[f] \cup new \in SUBSET Item
    BY <1>2, Zenon DEF TypeOK
  <2> QED BY <1>1, <2>1, Zenon DEF TypeOK
<1>5. \A g \in Flusher : \A x \in batch'[g] : x.val \subseteq 1..writes
  <2> SUFFICES ASSUME NEW g \in Flusher, NEW x \in batch'[g] PROVE x.val \subseteq 1..writes
    BY Zenon
  <2>1. x \in batch[g] \/ x \in new
    <3>1. CASE g = f
      BY <1>1, <3>1, Zenon DEF TypeOK
    <3>2. CASE g # f
      BY <1>1, <3>2, Zenon DEF TypeOK
    <3> QED BY <3>1, <3>2, Zenon
  <2>2. Key # {} => (x \in batch[g] => x.val \subseteq 1..writes)
    BY Zenon DEF Written
  <2>3. x \in batch[g] => x.key \in Key
    BY DEF TypeOK, Item
  <2> QED BY <1>2, <2>1, <2>2, <2>3, Zenon
<1>6. TypeOK'
  BY <1>1, <1>3, <1>4, ZenonT(40) DEF TypeOK, process, bounds
<1>7. Written'
  BY <1>1, <1>5, ZenonT(40) DEF Written, process
<1> QED BY <1>6, <1>7, Zenon

LEMMA TypesCommit ==
  ASSUME TypesWritten, NEW f \in Flusher, Commit(f) \/ CommitError(f)
  PROVE  TypesWritten'
<1> USE DEF TypesWritten
<1>1. AfterCommit(f) \in Exited..Commits
  BY Places, Zenon DEF AfterCommit
<1>2. /\ batch' = [batch EXCEPT ![f] = {}]
      /\ pc' = [pc EXCEPT ![f] = AfterCommit(f)]
      /\ UNCHANGED <<mem, dirty, process, writes, expired, restarts>>
  BY Zenon DEF Commit, CommitError, bounds
<1>3. \A k \in Key : db'[k] \subseteq 1..writes
  <2>1. CASE db' = db
    BY <2>1, Zenon DEF Written
  <2>2. CASE db' = Committed(f)
    <3> SUFFICES ASSUME NEW k \in Key PROVE Committed(f)[k] \subseteq 1..writes
      BY <2>2, Zenon
    <3>1. CASE k \notin Taken(f)
      BY <3>1, CommittedFacts, Zenon DEF Written
    <3>2. CASE k \in Taken(f)
      <4>1. PICK x \in batch[f] :
              Committed(f)[k] = IF Kind[k] = "window" THEN db[k] \cup x.val ELSE x.val
        BY <3>2, CommittedFacts, Zenon
      <4> QED BY <4>1, Zenon DEF Written
    <3> QED BY <3>1, <3>2, Zenon
  <2> QED BY <2>1, <2>2, Zenon DEF Commit, CommitError
<1>4. db' = [k \in Key |-> db'[k]]
  <2>1. db = [k \in Key |-> db[k]]
    BY Zenon DEF TypeOK
  <2> QED BY <2>1, CommittedFunction, Zenon DEF Commit, CommitError
<1>5. db' \in [Key -> SUBSET Version]
  <2>1. 1..writes \subseteq Version
    BY VersionsWritten, Zenon DEF TypeOK
  <2>2. \A k \in Key : db'[k] \in SUBSET Version
    BY <1>3, <2>1, Zenon
  <2> QED BY <1>4, <2>2, Zenon
<1>6. errors' \in 0..MaxErrors
  <2>1. CASE Commit(f)
    BY <2>1, Zenon DEF Commit, bounds, TypeOK
  <2>2. CASE CommitError(f)
    BY <2>2, StoreAssumption DEF CommitError, TypeOK
  <2> QED BY <2>1, <2>2, Zenon
<1>7. lost' \subseteq Key
  <2>1. Taken(f) \subseteq Key
    BY DEF Taken, TypeOK, Item
  <2> QED BY <2>1, Zenon DEF Commit, CommitError, TypeOK
<1>8. pc' \in [Flusher -> Exited..Commits] /\ batch' \in [Flusher -> SUBSET Item]
  BY <1>1, <1>2, Zenon DEF TypeOK
<1>9. \A g \in Flusher : batch'[g] \subseteq batch[g]
  BY <1>2, Zenon DEF TypeOK
<1>10. TypeOK'
  BY <1>2, <1>5, <1>6, <1>7, <1>8, ZenonT(40) DEF TypeOK, process
<1>11. Written'
  BY <1>2, <1>3, <1>9, ZenonT(40) DEF Written, process
<1> QED BY <1>10, <1>11, Zenon

LEMMA TypesOther ==
  ASSUME TypesWritten, StartFlush \/ Close \/ LoopExits \/ CloseDB \/ UNCHANGED vars
  PROVE  TypesWritten'
<1> USE DEF TypesWritten
<1>1. UNCHANGED <<mem, db, dirty, batch, writes, expired, lost, bounds>>
  BY Zenon DEF StartFlush, Close, LoopExits, CloseDB, vars, process
<1>2. "loop" \in Flusher /\ "close" \in Flusher
  BY Zenon DEF Flusher
<1>3. pc' \in [Flusher -> Exited..Commits]
  BY <1>2, Places, ZenonT(40) DEF StartFlush, Close, LoopExits, CloseDB, vars, process, TypeOK
<1>4. /\ phase' \in {"open", "closing", "closed"} /\ overlap' \in BOOLEAN
      /\ atClose' = atClose \/ atClose' = mem
  BY ZenonT(40) DEF StartFlush, Close, LoopExits, CloseDB, vars, process, TypeOK
<1>5. TypeOK'
  BY <1>1, <1>3, <1>4, ZenonT(40) DEF TypeOK, bounds
<1>6. Written'
  BY <1>1, <1>4, ZenonT(40) DEF Written
<1> QED BY <1>5, <1>6, Zenon

LEMMA TypesRestart ==
  ASSUME TypesWritten, Restart
  PROVE  TypesWritten'
<1> USE DEF TypesWritten
<1>1. \A k \in Key : Loaded(k) \subseteq 1..writes
  BY ZenonT(40) DEF Loaded, Written
<1>2. 1..writes \subseteq Version
  BY VersionsWritten, Zenon DEF TypeOK
<1>3. mem' \in [Key -> SUBSET Version] /\ \A k \in Key : mem'[k] \subseteq 1..writes
  BY <1>1, <1>2, ZenonT(40) DEF Restart
<1>4. restarts' \in 0..MaxRestarts
  BY StoreAssumption DEF TypeOK, Restart
<1>5. pc' \in [Flusher -> Exited..Commits] /\ batch' \in [Flusher -> SUBSET Item]
      /\ atClose' \in [Key -> SUBSET Version] /\ \A k \in Key : atClose'[k] = {}
      /\ \A f \in Flusher : batch'[f] = {}
  BY Places, ZenonT(40) DEF Restart, Nothing
<1>6. TypeOK'
  BY <1>3, <1>4, <1>5, ZenonT(40) DEF TypeOK, Restart
<1>7. Written'
  <2>1. writes' = writes /\ db' = db
    BY Zenon DEF Restart
  <2> QED BY <1>3, <1>5, <2>1, ZenonT(40) DEF Written
<1> QED BY <1>6, <1>7, Zenon

LEMMA TypesWrittenStep ==
  ASSUME TypesWritten, [Next]_vars
  PROVE  TypesWritten'
BY Actions, TypesWrite, TypesMemory, TypesSnapshot, TypesCommit, TypesOther, TypesRestart,
   ZenonT(40)

(* Types are correct: batches hold items of keys with versions that were   *)
(* written, and flushes are at a place of the flush loop.                  *)
THEOREM TypeCorrect == Spec => []TypeOK
<1>1. Init => TypesWritten
  BY TypesWrittenInit, Zenon
<1>2. TypesWritten /\ [Next]_vars => TypesWritten'
  BY TypesWrittenStep, Zenon
<1>3. Steps => []TypesWritten
  BY <1>1, <1>2, PTL DEF Steps
<1>4. Spec => Steps
  BY PTL DEF Spec
<1>5. TypesWritten => TypeOK
  BY Zenon DEF TypesWritten
<1> QED BY <1>3, <1>4, <1>5, PTL

(***************************************************************************)
(* The flushes                                                             *)
(***************************************************************************)
LEMMA Flushers ==
  /\ "loop" \in Flusher /\ "close" \in Flusher /\ "loop" # "close"
  /\ \A f \in Flusher : f = "loop" \/ f = "close"
BY Zenon DEF Flusher

(* What Snapshot takes, item by item.                                      *)
LEMMA SnapshotFacts ==
  ASSUME TypeOK, TakenOnce, NEW f \in Flusher, Snapshot(f)
  PROVE  /\ pc[f] \in 1..Shards /\ pc'[f] = pc[f] + 1
         /\ batch[f] \subseteq batch'[f]
         /\ \A x \in batch[f] : x.key \in Key /\ ShardOf(x.key) \in 1..Shards
                                /\ ShardOf(x.key) < pc[f]
         /\ \A x \in batch'[f] \ batch[f] :
              /\ x.key \in Key /\ x.key \in dirty /\ ShardOf(x.key) = pc[f]
              /\ x = [key |-> x.key, val |-> Found(x.key)]
         /\ \A k \in dirty : ShardOf(k) = pc[f] =>
              [key |-> k, val |-> Found(k)] \in batch'[f]
         /\ dirty' = {k \in dirty : ShardOf(k) # pc[f]}
         /\ \A g \in Flusher : g # f => pc'[g] = pc[g] /\ batch'[g] = batch[g]
<1> DEFINE ks == dirty \cap InShard(pc[f])
           new == {[key |-> k, val |-> Found(k)] : k \in ks}
<1>1. /\ pc[f] \in 1..Shards
      /\ batch' = [batch EXCEPT ![f] = @ \cup new]
      /\ dirty' = dirty \ ks
      /\ pc' = [pc EXCEPT ![f] = @ + 1]
  BY Zenon DEF Snapshot
<1>2. \A k : k \in ks <=> k \in dirty /\ ShardOf(k) = pc[f]
  BY Zenon DEF InShard, TypeOK
<1>3. ks \subseteq Key
  BY Zenon DEF InShard
<1> HIDE DEF ks
<1>4. \A x \in new : x.key \in ks /\ x = [key |-> x.key, val |-> Found(x.key)]
  <2> SUFFICES ASSUME NEW k \in ks, NEW x, x = [key |-> k, val |-> Found(k)]
               PROVE  x.key \in ks /\ x = [key |-> x.key, val |-> Found(x.key)]
    BY Zenon
  <2>1. x.key = k
    BY Zenon
  <2> QED BY <2>1, Zenon
<1>5. \A k \in ks : [key |-> k, val |-> Found(k)] \in new
  BY Zenon
<1> HIDE DEF new
<1>6. pc'[f] = pc[f] + 1 /\ batch'[f] = batch[f] \cup new
  BY <1>1, Zenon DEF TypeOK
<1>7. \A g \in Flusher : g # f => pc'[g] = pc[g] /\ batch'[g] = batch[g]
  BY <1>1, Zenon DEF TypeOK
<1>8. \A x \in batch[f] : x.key \in Key /\ ShardOf(x.key) \in 1..Shards
                          /\ ShardOf(x.key) < pc[f]
  <2>1. \A x \in batch[f] : x.key \in Key
    BY DEF TypeOK, Item
  <2>2. \A x \in batch[f] : ShardOf(x.key) < pc[f]
    BY Zenon DEF TakenOnce
  <2> QED BY <2>1, <2>2, ShardType, Zenon
<1>9. dirty' = {k \in dirty : ShardOf(k) # pc[f]}
  BY <1>1, <1>2, Zenon
<1>10. \A x \in batch'[f] \ batch[f] :
          /\ x.key \in Key /\ x.key \in dirty /\ ShardOf(x.key) = pc[f]
          /\ x = [key |-> x.key, val |-> Found(x.key)]
  BY <1>2, <1>3, <1>4, <1>6, Zenon
<1>11. \A k \in dirty : ShardOf(k) = pc[f] =>
              [key |-> k, val |-> Found(k)] \in batch'[f]
  BY <1>2, <1>5, <1>6, Zenon
<1>12. batch[f] \subseteq batch'[f]
  BY <1>6, Zenon
<1> QED BY <1>1, <1>6, <1>7, <1>8, <1>9, <1>10, <1>11, <1>12, Zenon

LEMMA OnceSnapshot ==
  ASSUME TypeOK, TakenOnce, NEW f \in Flusher, Snapshot(f)
  PROVE  TakenOnce'
<1>1. pc[f] \in 1..Shards /\ pc'[f] = pc[f] + 1
  BY SnapshotFacts, Zenon
<1>2. /\ \A x \in batch[f] : x.key \in Key /\ ShardOf(x.key) \in 1..Shards
                                /\ ShardOf(x.key) < pc[f]
      /\ \A x \in batch'[f] \ batch[f] :
           ShardOf(x.key) = pc[f] /\ x = [key |-> x.key, val |-> Found(x.key)]
      /\ \A g \in Flusher : g # f => pc'[g] = pc[g] /\ batch'[g] = batch[g]
  BY SnapshotFacts, Zenon
<1>3. \A i \in 1..Shards : (i < pc[f] \/ i = pc[f] => i < pc[f] + 1) /\ (i < pc[f] => i # pc[f])
  BY <1>1, StoreAssumption
<1>4. pc[f] + 1 # Exited /\ pc[f] + 1 # Idle
  BY <1>1, StoreAssumption DEF Exited, Idle
<1>5. \A x \in batch'[f] : ShardOf(x.key) < pc'[f]
  <2> SUFFICES ASSUME NEW x \in batch'[f] PROVE ShardOf(x.key) < pc[f] + 1
    BY <1>1, Zenon
  <2>1. CASE x \in batch[f]
    BY <1>2, <1>3, <2>1, Zenon
  <2>2. CASE x \notin batch[f]
    BY <1>1, <1>2, <1>3, <2>2, Zenon
  <2> QED BY <2>1, <2>2, Zenon
<1>6. \A x, y \in batch'[f] : x.key = y.key => x = y
  <2> SUFFICES ASSUME NEW x \in batch'[f], NEW y \in batch'[f], x.key = y.key PROVE x = y
    BY Zenon
  <2>1. CASE x \in batch[f] /\ y \in batch[f]
    BY <2>1, Zenon DEF TakenOnce
  <2>2. CASE x \in batch[f] /\ y \notin batch[f]
    BY <1>2, <1>3, <2>2, Zenon
  <2>3. CASE x \notin batch[f] /\ y \in batch[f]
    BY <1>2, <1>3, <2>3, Zenon
  <2>4. CASE x \notin batch[f] /\ y \notin batch[f]
    <3>1. x = [key |-> x.key, val |-> Found(x.key)]
      BY <1>2, <2>4, Zenon
    <3>2. y = [key |-> y.key, val |-> Found(y.key)]
      BY <1>2, <2>4, Zenon
    <3>3. [key |-> x.key, val |-> Found(x.key)] = [key |-> y.key, val |-> Found(y.key)]
      BY Zenon
    <3> QED BY <3>1, <3>2, <3>3, Zenon
  <2> QED BY <2>1, <2>2, <2>3, <2>4, Zenon
<1>7. ASSUME NEW g \in Flusher
      PROVE  /\ pc'[g] \in {Exited, Idle} => batch'[g] = {}
             /\ \A x \in batch'[g] : ShardOf(x.key) < pc'[g]
             /\ \A x, y \in batch'[g] : x.key = y.key => x = y
  <2>1. CASE g = f
    BY <1>1, <1>4, <1>5, <1>6, <2>1, Zenon
  <2>2. CASE g # f
    BY <1>2, <2>2, Zenon DEF TakenOnce
  <2> QED BY <2>1, <2>2, Zenon
<1> QED BY <1>7, Zenon DEF TakenOnce

(* The batch of a flush is empty when its place changes otherwise.         *)
LEMMA OnceEmpty ==
  ASSUME TakenOnce, NEW f \in Flusher, batch'[f] = {},
         \A g \in Flusher : g # f => pc'[g] = pc[g] /\ batch'[g] = batch[g]
  PROVE  TakenOnce'
BY ZenonT(40) DEF TakenOnce

LEMMA OncePhasesStep ==
  ASSUME TypesWritten, TakenOnce, Phases, [Next]_vars
  PROVE  TakenOnce' /\ Phases'
<1> USE DEF TypesWritten
<1>1. TypeOK /\ pc \in [Flusher -> Exited..Commits] /\ batch \in [Flusher -> SUBSET Item]
  BY Zenon DEF TypeOK
<1>2. ASSUME UNCHANGED <<pc, batch, process>> PROVE TakenOnce' /\ Phases'
  BY <1>2, Zenon DEF TakenOnce, Phases, process
<1>3. CASE \/ \E k \in Key : Write(k)
           \/ \E k \in Key : \E v \in mem[k] : Expire(k, v)
           \/ \E i \in 1..Shards : PruneExpiredKeys(i) \/ PruneStaleWindows(i)
           \/ UNCHANGED vars
  <2>1. UNCHANGED <<pc, batch, process>>
    BY <1>3, Zenon DEF Write, Expire, PruneExpiredKeys, PruneStaleWindows, vars
  <2> QED BY <1>2, <2>1, Zenon
<1>4. CASE StartFlush
  <2>1. /\ pc["loop"] = Idle /\ batch' = batch /\ phase' = phase
        /\ overlap' = (overlap \/ phase = "closing")
        /\ pc' = [pc EXCEPT !["loop"] = 1]
    BY <1>4, Zenon DEF StartFlush
  <2>2. pc'["close"] = pc["close"]
    BY <1>1, <2>1, Flushers, Zenon
  <2>3. batch'["loop"] = {}
    BY <2>1, Flushers, Zenon DEF TakenOnce
  <2>4. TakenOnce'
    BY <1>1, <2>1, <2>3, OnceEmpty, Flushers, Zenon
  <2>5. Phases'
    BY <2>1, <2>2, Zenon DEF Phases
  <2> QED BY <2>4, <2>5, Zenon
<1>5. ASSUME NEW f \in Flusher, Snapshot(f) PROVE TakenOnce' /\ Phases'
  <2>1. TakenOnce'
    BY <1>1, <1>5, OnceSnapshot, Zenon
  <2>2. pc[f] \in 1..Shards /\ \A g \in Flusher : g # f => pc'[g] = pc[g]
    BY <1>1, <1>5, SnapshotFacts, Zenon
  <2>3. phase' = phase /\ overlap' = overlap
    BY <1>5, Zenon DEF Snapshot, process
  <2>4. pc[f] # Exited /\ pc[f] # Idle
    BY <2>2, Places, Zenon
  <2>5. CASE f = "loop"
    BY <2>1, <2>2, <2>3, <2>4, <2>5, Flushers, Zenon DEF Phases
  <2>6. CASE f = "close"
    BY <1>1, <2>1, <2>2, <2>3, <2>4, <2>6, Flushers, Zenon DEF Phases, TypeOK
  <2> QED BY <2>1, <2>5, <2>6, Flushers, Zenon
<1>6. ASSUME NEW f \in Flusher, Commit(f) \/ CommitError(f) PROVE TakenOnce' /\ Phases'
  <2>1. /\ pc[f] = Commits
        /\ batch' = [batch EXCEPT ![f] = {}]
        /\ pc' = [pc EXCEPT ![f] = AfterCommit(f)]
        /\ phase' = phase /\ overlap' = overlap
    BY <1>6, Zenon DEF Commit, CommitError, process
  <2>2. pc'[f] = AfterCommit(f) /\ batch'[f] = {}
        /\ \A g \in Flusher : g # f => pc'[g] = pc[g] /\ batch'[g] = batch[g]
    BY <1>1, <2>1, Zenon
  <2>3. TakenOnce'
    BY <2>2, OnceEmpty, Zenon
  <2>4. pc[f] # Exited /\ pc[f] # Idle
    BY <2>1, Places, Zenon
  <2>5. CASE f = "loop"
    BY <2>1, <2>2, <2>3, <2>4, <2>5, Flushers, Zenon DEF Phases, AfterCommit
  <2>6. CASE f = "close"
    BY <2>1, <2>2, <2>3, <2>4, <2>6, Flushers, Zenon DEF Phases, AfterCommit
  <2> QED BY <2>3, <2>5, <2>6, Flushers, Zenon
<1>7. CASE Close
  <2>1. /\ phase = "open" /\ phase' = "closing" /\ batch' = batch
        /\ overlap' = (pc["loop"] # Idle) /\ pc' = [pc EXCEPT !["close"] = 1]
    BY <1>7, Zenon DEF Close
  <2>2. batch'["close"] = {}
    BY <2>1, Flushers, Zenon DEF Phases, TakenOnce
  <2>3. \A g \in Flusher : g # "close" => pc'[g] = pc[g] /\ batch'[g] = batch[g]
    BY <1>1, <2>1, Zenon
  <2>4. TakenOnce'
    BY <2>2, <2>3, OnceEmpty, Flushers, Zenon
  <2>5. Phases'
    BY <2>1, <2>3, Flushers, Zenon DEF Phases
  <2> QED BY <2>4, <2>5, Zenon
<1>8. CASE LoopExits
  <2>1. /\ phase' = phase /\ overlap' = overlap /\ batch' = batch
        /\ pc["loop"] = Idle /\ pc' = [pc EXCEPT !["loop"] = Exited]
    BY <1>8, Zenon DEF LoopExits, process
  <2>2. pc'["loop"] = Exited /\ pc'["close"] = pc["close"]
    BY <1>1, <2>1, Flushers, Zenon
  <2>3. batch'["loop"] = {}
    BY <2>1, Flushers, Zenon DEF TakenOnce
  <2>4. TakenOnce'
    BY <1>1, <2>1, <2>3, OnceEmpty, Flushers, Zenon
  <2>5. Phases'
    BY <2>1, <2>2, Zenon DEF Phases
  <2> QED BY <2>4, <2>5, Zenon
<1>9. CASE CloseDB
  <2>1. UNCHANGED <<pc, batch>> /\ phase' = "closed" /\ pc["close"] = Exited
    BY <1>9, Zenon DEF CloseDB
  <2> QED BY <2>1, Zenon DEF TakenOnce, Phases
<1>10. CASE Restart
  <2>1. phase' = "open" /\ \A f \in Flusher : pc'[f] = Idle /\ batch'[f] = {}
    BY <1>10, Zenon DEF Restart
  <2> QED BY <2>1, Flushers, Zenon DEF TakenOnce, Phases
<1> QED BY <1>3, <1>4, <1>5, <1>6, <1>7, <1>8, <1>9, <1>10, Actions, ZenonT(40)

(***************************************************************************)
(* ChangesTracked                                                          *)
(***************************************************************************)

MemoryStep ==
  \/ \E k \in Key : Write(k)
  \/ \E k \in Key : \E v \in mem[k] : Expire(k, v)
  \/ \E i \in 1..Shards : PruneExpiredKeys(i) \/ PruneStaleWindows(i)

(* A write, or the janitor, leaves a register or counter alone or makes it *)
(* dirty, and then it holds no version that was written before.            *)
LEMMA MemoryFacts ==
  ASSUME TypesWritten, MemoryStep
  PROVE  /\ UNCHANGED <<db, pc, batch, process>>
         /\ expired \subseteq expired' /\ dirty \subseteq dirty'
         /\ \A k \in Durable :
              \/ mem'[k] = mem[k] /\ (k \in lost' <=> k \in lost)
              \/ k \in dirty' /\ \A v \in mem'[k] : v \notin 1..writes
<1> USE DEF TypesWritten
<1>1. UNCHANGED <<db, pc, batch, process>>
  BY Zenon DEF MemoryStep, Write, Expire, PruneExpiredKeys, PruneStaleWindows
<1>2. expired \subseteq expired' /\ dirty \subseteq dirty'
  BY Zenon DEF MemoryStep, Write, Expire, PruneExpiredKeys, PruneStaleWindows
<1> SUFFICES ASSUME NEW k \in Durable
             PROVE  \/ mem'[k] = mem[k] /\ (k \in lost' <=> k \in lost)
                    \/ k \in dirty' /\ \A v \in mem'[k] : v \notin 1..writes
  BY <1>1, <1>2, Zenon
<1>3. k \in Key /\ Kind[k] # "window" /\ mem \in [Key -> SUBSET Version]
  BY Zenon DEF Durable, Keys, TypeOK
<1>4. ASSUME NEW j \in Key, Write(j)
      PROVE  \/ mem'[k] = mem[k] /\ (k \in lost' <=> k \in lost)
             \/ k \in dirty' /\ \A v \in mem'[k] : v \notin 1..writes
  <2>1. PICK new \in NewContents(j, writes + 1) : mem' = [mem EXCEPT ![j] = new]
    BY <1>4, Zenon DEF Write
  <2>2. writes + 1 \notin 1..writes
    BY DEF TypeOK
  <2>3. dirty' = dirty \cup {j} /\ lost' = lost \ {j}
    BY <1>4, Zenon DEF Write
  <2>4. CASE j = k
    <3>1. new = {writes + 1}
      BY <1>3, <2>4, NewFacts, Zenon
    <3> QED BY <1>3, <2>1, <2>2, <2>3, <2>4, <3>1, Zenon
  <2>5. CASE j # k
    BY <1>3, <2>1, <2>3, <2>5, Zenon
  <2> QED BY <2>4, <2>5, Zenon
<1>5. ASSUME NEW j \in Key, NEW v \in mem[j], Expire(j, v)
      PROVE  mem'[k] = mem[k] /\ (k \in lost' <=> k \in lost)
  BY <1>5, Zenon DEF Expire
<1>6. ASSUME NEW i \in 1..Shards, PruneExpiredKeys(i)
      PROVE  \/ mem'[k] = mem[k] /\ (k \in lost' <=> k \in lost)
             \/ k \in dirty' /\ \A v \in mem'[k] : v \notin 1..writes
  <2> DEFINE ks == {j \in InShard(i) \cap Keys({"register"}) : Outdated(j)}
  <2>1. mem' = Emptied(ks) /\ dirty' = dirty \cup ks /\ lost' = lost
    BY <1>6, Zenon DEF PruneExpiredKeys
  <2> HIDE DEF ks
  <2> QED BY <1>3, <2>1, Zenon DEF Emptied
<1>7. ASSUME NEW i \in 1..Shards, PruneStaleWindows(i)
      PROVE  mem'[k] = mem[k] /\ (k \in lost' <=> k \in lost)
  <2> DEFINE ks == {j \in InShard(i) \cap Keys({"window"}) : Outdated(j)}
  <2>1. mem' = Emptied(ks) /\ lost' = lost
    BY <1>7, Zenon DEF PruneStaleWindows
  <2>2. k \notin ks
    BY <1>3, Zenon DEF Keys
  <2> HIDE DEF ks
  <2> QED BY <1>3, <2>1, <2>2, Zenon DEF Emptied
<1> QED BY <1>4, <1>5, <1>6, <1>7, Zenon DEF MemoryStep

LEMMA CurrentStep ==
  ASSUME TypesWritten, TakenOnce, Phases, TakenCurrent, [Next]_vars
  PROVE  TakenCurrent'
<1> USE DEF TypesWritten
<1>1. TypeOK /\ pc \in [Flusher -> Exited..Commits] /\ batch \in [Flusher -> SUBSET Item]
  BY Zenon DEF TypeOK
<1> SUFFICES ASSUME phase' = "open", NEW x \in batch'["loop"],
                    x.key \in Durable, x.key \notin dirty'
             PROVE  x.val \ expired' = mem'[x.key] \ expired'
  BY Zenon DEF TakenCurrent, Durable, Keys
<1>2. ASSUME phase = "open", x \in batch["loop"], x.key \notin dirty,
             expired \subseteq expired', mem'[x.key] = mem[x.key]
      PROVE  x.val \ expired' = mem'[x.key] \ expired'
  <2>1. x.val \ expired = mem[x.key] \ expired
    BY <1>2, Zenon DEF TakenCurrent
  <2> QED BY <1>2, <2>1, Zenon
<1>3. CASE MemoryStep
  <2>1. /\ phase = "open" /\ x \in batch["loop"] /\ x.key \notin dirty
        /\ expired \subseteq expired' /\ mem'[x.key] = mem[x.key]
    BY <1>3, MemoryFacts, Zenon DEF process
  <2> QED BY <1>2, <2>1, Zenon
<1>4. CASE StartFlush \/ LoopExits \/ UNCHANGED vars
  <2>1. UNCHANGED <<phase, batch, dirty, expired, mem>>
    BY <1>4, Zenon DEF StartFlush, LoopExits, vars, process
  <2> QED BY <1>2, <2>1, Zenon
<1>5. ASSUME NEW f \in Flusher, Snapshot(f)
      PROVE  x.val \ expired' = mem'[x.key] \ expired'
  <2>1. UNCHANGED <<phase, expired, mem>>
    BY <1>5, Zenon DEF Snapshot, process
  <2>2. f = "loop"
    <3>1. pc[f] \in 1..Shards
      BY <1>1, <1>5, SnapshotFacts, Zenon
    <3> QED BY <2>1, <3>1, Flushers, Places, Zenon DEF Phases
  <2>3. CASE x \in batch["loop"]
    <3>1. ShardOf(x.key) \in 1..Shards /\ ShardOf(x.key) < pc[f] /\ pc[f] \in 1..Shards
      BY <1>1, <1>5, <2>2, <2>3, SnapshotFacts, Zenon
    <3>2. ShardOf(x.key) # pc[f]
      BY <3>1
    <3>3. dirty' = {k \in dirty : ShardOf(k) # pc[f]}
      BY <1>1, <1>5, SnapshotFacts, Zenon
    <3>4. x.key \notin dirty
      BY <3>2, <3>3, Zenon
    <3> QED BY <1>2, <2>1, <2>3, <3>4, Zenon
  <2>4. CASE x \notin batch["loop"]
    <3>1. x = [key |-> x.key, val |-> Found(x.key)]
      BY <1>1, <1>5, <2>2, <2>4, SnapshotFacts, Zenon
    <3>2. x.val = Found(x.key)
      BY <3>1
    <3>3. x.key \in Key /\ Found(x.key) \ expired = mem[x.key] \ expired
      BY FoundFacts, Zenon DEF Durable, Keys
    <3> QED BY <2>1, <3>2, <3>3, Zenon
  <2> QED BY <2>3, <2>4, Zenon
<1>6. ASSUME NEW f \in Flusher, Commit(f) \/ CommitError(f)
      PROVE  x.val \ expired' = mem'[x.key] \ expired'
  <2>1. UNCHANGED <<phase, expired, mem, dirty>> /\ batch' = [batch EXCEPT ![f] = {}]
    BY <1>6, Zenon DEF Commit, CommitError, process
  <2>2. x \in batch["loop"]
    BY <1>1, <2>1, Flushers, Zenon
  <2> QED BY <1>2, <2>1, <2>2, Zenon
<1>7. CASE Close \/ CloseDB
  BY <1>7, Zenon DEF Close, CloseDB
<1>8. CASE Restart
  <2>1. batch'["loop"] = {}
    BY <1>8, Flushers, Zenon DEF Restart
  <2> QED BY <2>1, Zenon
<1> QED BY <1>3, <1>4, <1>5, <1>6, <1>7, <1>8, Actions, ZenonT(40) DEF MemoryStep

Tracked(k) == mem[k] \ expired = db[k] \ expired \/ k \in dirty \cup Taken("loop") \cup lost

LEMMA TrackedStep ==
  ASSUME TypesWritten, TakenOnce, Phases, TakenCurrent, ChangesTracked,
         [Next]_vars
  PROVE  ChangesTracked'
<1> USE DEF TypesWritten
<1>1. TypeOK /\ pc \in [Flusher -> Exited..Commits] /\ batch \in [Flusher -> SUBSET Item]
  BY Zenon DEF TypeOK
<1> SUFFICES ASSUME phase' = "open", NEW k \in Durable
             PROVE  Tracked(k)'
  BY Zenon DEF ChangesTracked, Durable, Keys, Tracked
<1>2. k \in Key /\ Kind[k] # "window"
  BY Zenon DEF Durable, Keys
<1>3. phase = "open" => Tracked(k)
  BY Zenon DEF ChangesTracked, Tracked
<1>4. CASE MemoryStep
  <2>1. UNCHANGED <<db, batch, phase>> /\ expired \subseteq expired' /\ dirty \subseteq dirty'
    BY <1>4, MemoryFacts, Zenon DEF process
  <2>2. CASE mem'[k] = mem[k] /\ (k \in lost' <=> k \in lost)
    BY <1>3, <2>1, <2>2, ZenonT(40) DEF Tracked, Taken
  <2>3. CASE k \in dirty'
    BY <2>3, Zenon DEF Tracked
  <2> QED BY <1>4, <2>2, <2>3, MemoryFacts, Zenon
<1>5. CASE StartFlush \/ LoopExits \/ UNCHANGED vars
  <2>1. UNCHANGED <<phase, batch, dirty, expired, mem, db, lost>>
    BY <1>5, Zenon DEF StartFlush, LoopExits, vars, process
  <2> QED BY <1>3, <2>1, ZenonT(40) DEF Tracked, Taken
<1>6. ASSUME NEW f \in Flusher, Snapshot(f) PROVE Tracked(k)'
  <2>1. UNCHANGED <<phase, expired, mem, db, lost>>
    BY <1>6, Zenon DEF Snapshot, process
  <2>2. f = "loop"
    <3>1. pc[f] \in 1..Shards
      BY <1>1, <1>6, SnapshotFacts, Zenon
    <3> QED BY <2>1, <3>1, Flushers, Places, Zenon DEF Phases
  <2>3. batch["loop"] \subseteq batch'["loop"]
    BY <1>1, <1>6, <2>2, SnapshotFacts, Zenon
  <2>4. Taken("loop") \subseteq Taken("loop")'
    BY <2>3, Zenon DEF Taken
  <2>5. CASE k \in dirty
    <3>1. CASE ShardOf(k) = pc[f]
      <4>1. [key |-> k, val |-> Found(k)] \in batch'["loop"]
        BY <1>1, <1>6, <2>2, <2>5, <3>1, SnapshotFacts, Zenon
      <4>2. [key |-> k, val |-> Found(k)].key = k
        BY Zenon
      <4>3. k \in Taken("loop")'
        BY <4>1, <4>2, Zenon DEF Taken
      <4> QED BY <4>3, Zenon DEF Tracked
    <3>2. CASE ShardOf(k) # pc[f]
      <4>1. dirty' = {j \in dirty : ShardOf(j) # pc[f]}
        BY <1>1, <1>6, SnapshotFacts, Zenon
      <4>2. k \in dirty'
        BY <2>5, <3>2, <4>1, Zenon
      <4> QED BY <4>2, Zenon DEF Tracked
    <3> QED BY <3>1, <3>2, Zenon
  <2>6. CASE k \notin dirty
    BY <1>3, <2>1, <2>4, <2>6, Zenon DEF Tracked
  <2> QED BY <2>5, <2>6, Zenon
<1>7. ASSUME NEW f \in Flusher, Commit(f) \/ CommitError(f) PROVE Tracked(k)'
  <2>1. UNCHANGED <<phase, expired, mem, dirty>> /\ pc[f] = Commits
    BY <1>7, Zenon DEF Commit, CommitError, process
  <2>2. f = "loop"
    BY <2>1, Flushers, Places, Zenon DEF Phases
  <2>3. CASE k \in dirty
    BY <2>1, <2>3, Zenon DEF Tracked
  <2>4. CASE k \notin dirty /\ CommitError(f)
    <3>1. db' = db /\ lost' = lost \cup Taken("loop")
      BY <2>2, <2>4, Zenon DEF CommitError
    <3> QED BY <1>3, <2>1, <3>1, Zenon DEF Tracked
  <2>5. CASE k \notin dirty /\ Commit(f)
    <3>1. db' = Committed("loop") /\ lost' = lost
      BY <2>1, <2>2, <2>5, Zenon DEF Commit
    <3>2. CASE k \in Taken("loop")
      <4>1. \E x \in batch["loop"] :
              /\ x.key = k
              /\ Committed("loop")[k] = IF Kind[k] = "window" THEN db[k] \cup x.val
                                        ELSE x.val
        BY <1>2, <3>2, CommittedFacts, Flushers, Zenon
      <4>2. PICK x \in batch["loop"] : x.key = k /\ db'[k] = x.val
        BY <1>2, <3>1, <4>1, Zenon
      <4>3. x.val \ expired = mem[k] \ expired
        BY <2>1, <2>5, <4>2, Zenon DEF TakenCurrent
      <4> QED BY <2>1, <4>2, <4>3, Zenon DEF Tracked
    <3>3. CASE k \notin Taken("loop")
      <4>1. db'[k] = db[k]
        BY <1>2, <3>1, <3>3, CommittedFacts, Flushers, Zenon
      <4> QED BY <1>3, <2>1, <2>5, <3>1, <3>3, <4>1, Zenon DEF Tracked
    <3> QED BY <3>2, <3>3, Zenon
  <2> QED BY <1>7, <2>3, <2>4, <2>5, Zenon
<1>8. CASE Close \/ CloseDB
  BY <1>8, Zenon DEF Close, CloseDB
<1>9. CASE Restart
  <2>1. Loaded(k) = db[k]
    BY LoadedDurable, Zenon
  <2>2. mem'[k] = db[k] \/ mem'[k] = db[k] \ expired
    BY <1>2, <1>9, <2>1, Zenon DEF Restart
  <2>3. db' = db /\ expired' = expired
    BY <1>9, Zenon DEF Restart
  <2> QED BY <2>2, <2>3, Zenon DEF Tracked
<1> QED BY <1>4, <1>5, <1>6, <1>7, <1>8, <1>9, Actions, ZenonT(40) DEF MemoryStep

(***************************************************************************)
(* CloseKeepsIfAlone                                                       *)
(***************************************************************************)
LEMMA SecuredStill ==
  ASSUME NEW k, Secured(k), Held(k)' \subseteq Held(k), db'[k] = db[k],
         batch'["close"] = batch["close"], pc'["close"] = pc["close"],
         k \in dirty => k \in dirty'
  PROVE  Secured(k)'
<1>1. Taken("close")' = Taken("close")
  BY Zenon DEF Taken
<1> QED BY <1>1, ZenonT(40) DEF Secured

LEMMA SecuredNothing ==
  ASSUME NEW k, Held(k)' = {}
  PROVE  Secured(k)'
BY Zenon DEF Secured

(* When close's flush is not between two shards, it has no items, and what *)
(* is secured is in the database.                                          *)
LEMMA SecuredAfter ==
  ASSUME TakenOnce, NEW k, Secured(k), pc["close"] \in {Exited, Idle}
  PROVE  k \notin Taken("close") /\ Held(k) \subseteq db[k]
<1>1. batch["close"] = {}
  BY Flushers, Zenon DEF TakenOnce
<1>2. k \notin Taken("close")
  BY <1>1, Zenon DEF Taken
<1>3. pc["close"] \notin 1..ShardOf(k)
  BY DEF Exited, Idle
<1> QED BY <1>2, <1>3, Zenon DEF Secured

LEMMA SecuredSnapshot ==
  ASSUME TypeOK, TakenOnce, NEW k \in Durable, Secured(k), Snapshot("close")
  PROVE  Secured(k)'
<1>1. k \in Key /\ "close" \in Flusher
  BY Flushers, Zenon DEF Durable, Keys
<1>2. UNCHANGED <<mem, db, expired, atClose>>
  BY Zenon DEF Snapshot, process
<1>3. Held(k)' = Held(k)
  BY <1>2, Zenon DEF Held
<1>4. /\ pc["close"] \in 1..Shards /\ pc'["close"] = pc["close"] + 1
      /\ ShardOf(k) \in 1..Shards
  BY <1>1, SnapshotFacts, ShardType, Zenon
<1>5. \A x \in batch["close"] : ShardOf(x.key) \in 1..Shards /\ ShardOf(x.key) < pc["close"]
  BY <1>1, SnapshotFacts, Zenon
<1>6. \A x \in batch'["close"] \ batch["close"] :
         /\ x.key \in dirty /\ ShardOf(x.key) = pc["close"]
         /\ x = [key |-> x.key, val |-> Found(x.key)]
  BY <1>1, SnapshotFacts, Zenon
<1>7. Held(k) \subseteq Found(k)
  BY <1>1, FoundFacts, Zenon DEF Held
<1>8. CASE k \in Taken("close")
  <2>1. PICK y \in batch["close"] : y.key = k
    BY <1>8, Zenon DEF Taken
  <2>2. ShardOf(k) # pc["close"]
    <3>1. ShardOf(k) < pc["close"]
      BY <1>5, <2>1, Zenon
    <3> QED BY <1>4, <3>1
  <2>3. \A x \in batch'["close"] : x.key = k => Held(k)' \subseteq x.val
    BY <1>3, <1>6, <1>8, <2>2, Zenon DEF Secured
  <2>4. k \in Taken("close")'
    <3>1. batch["close"] \subseteq batch'["close"]
      BY <1>1, SnapshotFacts, Zenon
    <3> QED BY <2>1, <3>1, Zenon DEF Taken
  <2> QED BY <2>3, <2>4, Zenon DEF Secured
<1>9. CASE k \notin Taken("close") /\ k \in dirty /\ ShardOf(k) = pc["close"]
  <2>1. [key |-> k, val |-> Found(k)] \in batch'["close"]
    BY <1>1, <1>9, SnapshotFacts, Zenon
  <2>2. [key |-> k, val |-> Found(k)].key = k
    BY Zenon
  <2>3. k \in Taken("close")'
    BY <2>1, <2>2, Zenon DEF Taken
  <2>4. ASSUME NEW x \in batch'["close"], x.key = k PROVE Held(k)' \subseteq x.val
    <3>1. x \notin batch["close"]
      BY <1>9, <2>4, Zenon DEF Taken
    <3>2. x = [key |-> x.key, val |-> Found(x.key)]
      BY <1>6, <3>1, Zenon
    <3>3. x.val = Found(k)
      BY <2>4, <3>2
    <3> QED BY <1>3, <1>7, <3>3, Zenon
  <2> QED BY <2>3, <2>4, Zenon DEF Secured
<1>10. CASE k \notin Taken("close") /\ ~(k \in dirty /\ ShardOf(k) = pc["close"])
  <2>1. k \notin Taken("close")'
    <3> SUFFICES ASSUME NEW x \in batch'["close"], x.key = k PROVE FALSE
      BY Zenon DEF Taken
    <3>1. x \notin batch["close"]
      BY <1>10, Zenon DEF Taken
    <3> QED BY <1>6, <1>10, <3>1, Zenon
  <2>2. CASE Held(k) \subseteq db[k]
    BY <1>2, <1>3, <2>1, <2>2, Zenon DEF Secured
  <2>3. CASE k \in dirty /\ pc["close"] \in 1..ShardOf(k)
    <3>1. pc'["close"] \in 1..ShardOf(k)
      <4>1. ShardOf(k) # pc["close"]
        BY <1>10, <2>3, Zenon
      <4> QED BY <1>4, <2>3, <4>1
    <3>2. dirty' = {j \in dirty : ShardOf(j) # pc["close"]}
      BY <1>1, SnapshotFacts, Zenon
    <3>3. k \in dirty'
      BY <1>10, <2>3, <3>2, Zenon
    <3>4. ShardOf(k)' = ShardOf(k)
      BY Zenon DEF ShardOf, Shard, ShardKey, Path
    <3> QED BY <2>1, <3>1, <3>3, <3>4, Zenon DEF Secured
  <2> QED BY <1>10, <2>2, <2>3, Zenon DEF Secured
<1> QED BY <1>8, <1>9, <1>10, Zenon

LEMMA SecuredCommit ==
  ASSUME TypeOK, TakenOnce, NEW k \in Durable, Secured(k), phase # "closed",
         Commit("close") \/ CommitError("close"), k \notin lost'
  PROVE  Secured(k)'
<1>1. k \in Key /\ Kind[k] # "window" /\ "close" \in Flusher
  BY Flushers, Zenon DEF Durable, Keys
<1>2. /\ pc["close"] = Commits
      /\ batch' = [batch EXCEPT !["close"] = {}]
      /\ UNCHANGED <<mem, expired, atClose>>
  BY Zenon DEF Commit, CommitError, process
<1>3. Held(k)' = Held(k)
  BY <1>2, Zenon DEF Held
<1>4. k \notin Taken("close")'
  <2>1. batch'["close"] = {}
    BY <1>1, <1>2, Zenon DEF TypeOK
  <2> QED BY <2>1, Zenon DEF Taken
<1>5. CASE k \in Taken("close")
  <2>1. db' = Committed("close")
    BY <1>5, Zenon DEF Commit, CommitError
  <2>2. PICK x \in batch["close"] : x.key = k /\ db'[k] = x.val
    BY <1>1, <1>5, <2>1, CommittedFacts, Zenon
  <2>3. Held(k) \subseteq x.val
    BY <1>5, <2>2, Zenon DEF Secured
  <2> QED BY <1>3, <1>4, <2>2, <2>3, Zenon DEF Secured
<1>6. CASE k \notin Taken("close")
  <2>1. db'[k] = db[k]
    <3>1. Committed("close")[k] = db[k]
      BY <1>1, <1>6, CommittedFacts, Zenon
    <3>2. db' = db \/ db' = Committed("close")
      BY Zenon DEF Commit, CommitError
    <3> QED BY <3>1, <3>2, Zenon
  <2>2. pc["close"] \notin 1..ShardOf(k)
    <3>1. ShardOf(k) \in 1..Shards
      BY <1>1, ShardType, Zenon
    <3> QED BY <1>2, <3>1, StoreAssumption DEF Commits
  <2>3. Held(k) \subseteq db[k]
    BY <1>6, <2>2, Zenon DEF Secured
  <2> QED BY <1>3, <1>4, <2>1, <2>3, Zenon DEF Secured
<1> QED BY <1>5, <1>6, Zenon

LEMMA SecuredClose ==
  ASSUME TypeOK, TakenOnce, Phases, ChangesTracked, NEW k \in Durable, k \notin lost,
         Close, ~overlap'
  PROVE  Secured(k)'
<1>1. /\ phase = "open" /\ atClose' = mem /\ UNCHANGED <<mem, db, dirty, batch, expired>>
      /\ overlap' = (pc["loop"] # Idle) /\ pc' = [pc EXCEPT !["close"] = 1]
  BY Zenon DEF Close
<1>2. batch["loop"] = {} /\ batch["close"] = {}
  BY <1>1, Flushers, Zenon DEF TakenOnce, Phases
<1>3. k \notin Taken("close")' /\ k \notin Taken("loop")
  BY <1>1, <1>2, Zenon DEF Taken
<1>4. Held(k)' = mem[k] \ expired
  BY <1>1, Zenon DEF Held
<1>5. CASE mem[k] \ expired = db[k] \ expired
  BY <1>1, <1>3, <1>4, <1>5, Zenon DEF Secured
<1>6. CASE k \in dirty
  <2>1. ShardOf(k)' = ShardOf(k)
    BY Zenon DEF ShardOf, Shard, ShardKey, Path
  <2>2. 1 \in 1..ShardOf(k)
    <3>1. ShardOf(k) \in 1..Shards
      BY ShardType, Zenon DEF Durable, Keys
    <3> QED BY <3>1, StoreAssumption
  <2>3. pc'["close"] = 1
    BY <1>1, Flushers, Zenon DEF TypeOK
  <2> QED BY <1>1, <1>3, <1>6, <2>1, <2>2, <2>3, Zenon DEF Secured
<1> QED BY <1>1, <1>3, <1>5, <1>6, Zenon DEF ChangesTracked

LEMMA SecuresStep ==
  ASSUME TypesWritten, TakenOnce, Phases, ChangesTracked, CloseSecures, [Next]_vars
  PROVE  CloseSecures'
<1> USE DEF TypesWritten
<1>1. TypeOK /\ pc \in [Flusher -> Exited..Commits] /\ batch \in [Flusher -> SUBSET Item]
  BY Zenon DEF TypeOK
<1> SUFFICES ASSUME phase' # "open", ~overlap', NEW k \in Durable, k \notin lost'
             PROVE  Secured(k)'
  BY Zenon DEF CloseSecures, Durable, Keys
<1>2. k \in Key
  BY Zenon DEF Durable, Keys
<1>3. phase # "open" /\ ~overlap /\ k \notin lost => Secured(k)
  BY Zenon DEF CloseSecures
<1>4. CASE MemoryStep
  <2>1. UNCHANGED <<db, pc, batch, phase, atClose, overlap>>
        /\ expired \subseteq expired' /\ dirty \subseteq dirty'
    BY <1>4, MemoryFacts, Zenon DEF process
  <2>2. CASE mem'[k] = mem[k] /\ (k \in lost' <=> k \in lost)
    <3>1. Held(k)' \subseteq Held(k)
      BY <2>1, <2>2, Zenon DEF Held
    <3>2. Secured(k)
      BY <1>3, <2>1, <2>2, Zenon
    <3>3. db'[k] = db[k] /\ batch'["close"] = batch["close"] /\ pc'["close"] = pc["close"]
      BY <2>1, Zenon
    <3> QED BY <2>1, <3>1, <3>2, <3>3, SecuredStill, Zenon
  <2>3. CASE \A v \in mem'[k] : v \notin 1..writes
    <3>1. atClose[k] \subseteq 1..writes
      BY <1>2, Zenon DEF Written
    <3>2. Held(k)' = {}
      BY <2>1, <2>3, <3>1, Zenon DEF Held
    <3> QED BY <3>2, SecuredNothing, Zenon
  <2> QED BY <1>4, <2>2, <2>3, MemoryFacts, Zenon
<1>5. ASSUME UNCHANGED <<mem, db, expired, atClose, lost>>, phase # "open", ~overlap,
             batch'["close"] = batch["close"], pc'["close"] = pc["close"],
             k \in dirty => k \in dirty'
      PROVE  Secured(k)'
  <2>1. Secured(k)
    BY <1>3, <1>5, Zenon
  <2>2. Held(k)' \subseteq Held(k) /\ db'[k] = db[k]
    BY <1>5, Zenon DEF Held
  <2> QED BY <1>5, <2>1, <2>2, SecuredStill, Zenon
<1>6. CASE StartFlush \/ LoopExits \/ CloseDB \/ UNCHANGED vars
  <2>1. /\ UNCHANGED <<mem, db, expired, atClose, lost, batch, dirty>>
        /\ phase # "open" /\ ~overlap
    <3>1. CASE StartFlush
      BY <3>1, Zenon DEF StartFlush
    <3>2. CASE LoopExits
      BY <3>2, Zenon DEF LoopExits, process
    <3>3. CASE CloseDB
      <4>1. phase # "open"
        BY <3>3, Zenon DEF CloseDB
      <4> QED BY <3>3, <4>1, Zenon DEF CloseDB
    <3>4. CASE UNCHANGED vars
      BY <3>4, Zenon DEF vars, process
    <3> QED BY <1>6, <3>1, <3>2, <3>3, <3>4, Zenon
  <2>2. pc'["close"] = pc["close"]
    BY <1>1, <1>6, Flushers, ZenonT(40) DEF StartFlush, LoopExits, CloseDB, vars
  <2> QED BY <1>5, <2>1, <2>2, Zenon
(* flushLoop is in a flush: then the database is closed.                   *)
<1>7. ASSUME Snapshot("loop") \/ Commit("loop") \/ CommitError("loop") PROVE Secured(k)'
  <2>1. phase' = phase /\ overlap' = overlap /\ pc["loop"] \notin {Exited, Idle}
    BY <1>7, Places, Zenon DEF Snapshot, Commit, CommitError, process
  <2>2. phase = "closed"
    BY <1>1, <2>1, Zenon DEF Phases, TypeOK
  <2>3. k \notin lost
    BY <1>7, Zenon DEF Snapshot, Commit, CommitError
  <2>4. k \notin Taken("close") /\ Held(k) \subseteq db[k]
    BY <1>3, <2>1, <2>2, <2>3, SecuredAfter, Zenon DEF Phases
  <2>5. UNCHANGED <<mem, db, expired, atClose>>
    BY <1>7, <2>2, Zenon DEF Snapshot, Commit, CommitError, process
  <2>6. batch'["close"] = batch["close"]
    BY <1>1, <1>7, Flushers, ZenonT(40) DEF Snapshot, Commit, CommitError
  <2>7. k \notin Taken("close")' /\ Held(k)' = Held(k)
    BY <2>4, <2>5, <2>6, Zenon DEF Taken, Held
  <2> QED BY <2>4, <2>5, <2>7, Zenon DEF Secured
<1>8. ASSUME Snapshot("close") \/ Commit("close") \/ CommitError("close") PROVE Secured(k)'
  <2>1. phase' = phase /\ overlap' = overlap /\ pc["close"] \notin {Exited, Idle}
    BY <1>8, Places, Zenon DEF Snapshot, Commit, CommitError, process
  <2>2. phase # "closed" /\ k \notin lost
    BY <1>8, <2>1, Zenon DEF Phases, Snapshot, Commit, CommitError
  <2>3. Secured(k)
    BY <1>3, <2>1, <2>2, Zenon
  <2> QED BY <1>1, <1>8, <2>2, <2>3, SecuredSnapshot, SecuredCommit, Zenon
<1>9. CASE Close
  <2>1. k \notin lost
    BY <1>9, Zenon DEF Close
  <2> QED BY <1>1, <1>9, <2>1, SecuredClose, Zenon
<1>10. CASE Restart
  BY <1>10, Zenon DEF Restart
<1> QED BY <1>4, <1>6, <1>7, <1>8, <1>9, <1>10, Actions, Flushers, ZenonT(40) DEF MemoryStep

(***************************************************************************)
(* The theorems                                                            *)
(***************************************************************************)
LEMMA StoreInvInit ==
  ASSUME Init
  PROVE  StoreInv
<1>1. TypeOK /\ Written
  BY TypesWrittenInit, Zenon DEF TypesWritten
<1>2. phase = "open" /\ mem = db /\ \A f \in Flusher : pc[f] = Idle /\ batch[f] = {}
  BY Zenon DEF Init
<1>3. TakenOnce /\ Phases
  BY <1>2, Flushers, Zenon DEF TakenOnce, Phases
<1>4. TakenCurrent /\ ChangesTracked /\ CloseSecures
  BY <1>2, Flushers, Zenon DEF TakenCurrent, ChangesTracked, CloseSecures
<1> QED BY <1>1, <1>3, <1>4, Zenon DEF StoreInv

LEMMA StoreInvStep ==
  ASSUME StoreInv, [Next]_vars
  PROVE  StoreInv'
<1>1. TypesWritten /\ TakenOnce /\ Phases /\ TakenCurrent /\ ChangesTracked /\ CloseSecures
  BY Zenon DEF StoreInv, TypesWritten
<1>2. TypesWritten'
  BY <1>1, TypesWrittenStep, Zenon
<1>3. TakenOnce' /\ Phases'
  BY <1>1, OncePhasesStep, Zenon
<1>4. TakenCurrent'
  BY <1>1, CurrentStep, Zenon
<1>5. ChangesTracked'
  BY <1>1, TrackedStep, Zenon
<1>6. CloseSecures'
  BY <1>1, SecuresStep, Zenon
<1> QED BY <1>2, <1>3, <1>4, <1>5, <1>6, Zenon DEF StoreInv, TypesWritten

LEMMA StoreInductive == Spec => []StoreInv
<1>1. Init => StoreInv
  BY StoreInvInit, Zenon
<1>2. StoreInv /\ [Next]_vars => StoreInv'
  BY StoreInvStep, Zenon
<1>3. Steps => []StoreInv
  BY <1>1, <1>2, PTL DEF Steps
<1>4. Spec => Steps
  BY PTL DEF Spec
<1> QED BY <1>3, <1>4, PTL

(* No change to a register or counter is forgotten: while the store is     *)
(* open, what the database does not hold is marked dirty, about to be      *)
(* committed, or was in a commit that failed, for any number of keys and   *)
(* shards and however flush, the janitor, writes and restarts interleave   *)
(* (flush, load, pruneExpiredKeys of store.go).  This is about the keys in *)
(* Durable: not counters whose name has a colon, nor registers whose name  *)
(* begins like the key of another kind.                                    *)
THEOREM ChangesAreTracked == Spec => []ChangesTracked
<1>1. StoreInv => ChangesTracked
  BY Zenon DEF StoreInv
<1> QED BY <1>1, StoreInductive, PTL

(* store.close loses nothing that was in memory when it was called, if no  *)
(* flush of flushLoop overlaps with it and no commit fails, whatever is    *)
(* written while it runs.                                                  *)
THEOREM CloseKeepsAll == Spec => []CloseKeepsIfAlone
<1>1. StoreInv => CloseKeepsIfAlone
  <2> SUFFICES ASSUME StoreInv, ~overlap, NEW k \in Durable \ lost, phase = "closed"
               PROVE  (atClose[k] \cap mem[k]) \ expired \subseteq db[k]
    BY Zenon DEF CloseKeepsIfAlone, ClosedKeeps
  <2>1. Secured(k)
    BY Zenon DEF StoreInv, CloseSecures
  <2>2. TakenOnce /\ pc["close"] \in {Exited, Idle}
    BY Zenon DEF StoreInv, Phases
  <2> QED BY <2>1, <2>2, SecuredAfter, Zenon DEF Held
<1> QED BY <1>1, StoreInductive, PTL
=============================================================================
