------------------------------- MODULE Store -------------------------------
(***************************************************************************)
(* The persistence of the store of store.go: writes and the janitor change *)
(* the shards in memory and mark what they changed dirty; flushLoop, and   *)
(* close, take the dirty keys of one shard after the other and then commit *)
(* what they took to the database; load reads it back.  A shard's lock is  *)
(* held for one write, for the sweep of the janitor through the shard, and *)
(* while flush takes its dirty keys, but not between these.                *)
(*                                                                         *)
(* A key of the program is a sequence of segments, which colons separate:  *)
(* flush puts a kind before it and a node or a time behind it, and load    *)
(* takes it apart again.                                                   *)
(*                                                                         *)
(* What a key holds is the set of its versions: one for a register, a      *)
(* counter and the sequence number of a peer, one per event for a window,  *)
(* none when it is absent.                                                 *)
(***************************************************************************)
EXTENDS Integers, Sequences, FiniteSetsExt

CONSTANTS Key,
          Kind,         \* [Key -> register, counter, window or seq]
          Shards,       \* the number of shards; 256 in the code
          Name,         \* [Key -> the segments of the caller's key]
          Hash,         \* [segment -> its shard]
          MaxWrites,    \* bound: writes in a behaviour
          MaxRestarts,  \* bound: restarts in a behaviour
          MaxErrors     \* bound: failed commits in a behaviour

Kinds == {"register", "counter", "window", "seq"}

ASSUME StoreAssumption ==
  /\ Kind \in [Key -> Kinds]
  /\ Shards \in Nat \ {0} /\ "seq" \in DOMAIN Hash
  /\ \A segment \in DOMAIN Hash : Hash[segment] \in 1..Shards
  /\ Name \in [Key -> Seq(DOMAIN Hash) \ {<<>>}]
  /\ \A k1, k2 \in Key : Name[k1] = Name[k2] => k1 = k2
  /\ MaxWrites \in Nat /\ MaxRestarts \in Nat /\ MaxErrors \in Nat

VARIABLES mem,       \* [Key -> the versions in the shards]
          db,        \* [Key -> the versions in the database]
          dirty,     \* the keys in shard.dirty
          pc,        \* [Flusher -> where its flush is]
          batch,     \* [Flusher -> the items it has taken]
          phase,     \* open, closing (in store.close), closed
          writes,    \* number of writes so far: the latest version
          expired,   \* the versions whose time has run out
          atClose,   \* [Key -> mem when close was called]
          overlap,   \* flushLoop was in a flush while close ran
          lost,      \* the keys of which a commit has failed
          restarts, errors

process == <<phase, atClose, overlap>>
bounds == <<restarts, errors>>
vars == <<mem, db, dirty, pc, batch, process, writes, expired, lost, bounds>>

Flusher == {"loop", "close"}
Exited == -1               \* flushLoop has returned
Idle == 0                  \* between two flushes
Commits == Shards + 1      \* all shards have been visited
Version == 1..MaxWrites
Item == [key : Key, val : SUBSET Version]

TypeOK ==
  /\ mem \in [Key -> SUBSET Version]
  /\ db \in [Key -> SUBSET Version]
  /\ dirty \subseteq Key
  /\ pc \in [Flusher -> Exited..Commits]
  /\ batch \in [Flusher -> SUBSET Item]
  /\ phase \in {"open", "closing", "closed"}
  /\ writes \in 0..MaxWrites
  /\ expired \subseteq 1..writes
  /\ atClose \in [Key -> SUBSET Version]
  /\ overlap \in BOOLEAN
  /\ lost \subseteq Key
  /\ restarts \in 0..MaxRestarts /\ errors \in 0..MaxErrors

Nothing == [k \in Key |-> {}]

Init ==
  /\ mem = Nothing /\ db = Nothing /\ dirty = {}
  /\ pc = [f \in Flusher |-> Idle]
  /\ batch = [f \in Flusher |-> {}]
  /\ phase = "open" /\ atClose = Nothing /\ overlap = FALSE
  /\ writes = 0 /\ expired = {} /\ lost = {}
  /\ restarts = 0 /\ errors = 0

(***************************************************************************)
(* Keys                                                                    *)
(***************************************************************************)

(* A mutation of ShardKey: the segment before the first colon.             *)
ShardKeyFirst(path) == path[1]

(* getShardKey: the segment behind the first colon, if there is one.       *)
ShardKey(path) == IF Len(path) = 1 THEN path[1] ELSE path[2]

Shard(path) == Hash[ShardKey(path)]

(* The key in the database.                                                *)
Path(k) ==
  CASE Kind[k] = "counter"  -> <<"c">> \o Name[k] \o <<"node">>
    [] Kind[k] = "window"   -> <<"sw">> \o Name[k] \o <<"time">>
    [] Kind[k] = "seq"      -> <<"meta", "seq">> \o Name[k]
    [] Kind[k] = "register" -> Name[k]

(* No register has the very key that flush writes something else under.    *)
ASSUME PathAssumption == \A k1, k2 \in Key : Path(k1) = Path(k2) => k1 = k2

ShardOf(k) == Shard(IF Kind[k] = "seq" THEN Path(k) ELSE Name[k])

(* What load takes a key in the database for.                              *)
KindIn(path) ==
  IF Len(path) = 1 THEN "register"
  ELSE CASE path[1] = "meta" /\ path[2] = "seq" -> "seq"
         [] path[1] = "c"                       -> "counter"
         [] path[1] \in {"mc", "ms"}            -> "metric"
         [] path[1] = "sw"                      -> "window"
         [] OTHER                               -> "register"

(* The name it takes it for; <<>> for one that it does not load.           *)
NameIn(path) ==
  CASE KindIn(path) \in {"counter", "window"} ->
         IF Len(path) >= 3 THEN <<path[2]>> ELSE <<>>
    [] KindIn(path) = "seq" -> SubSeq(path, 3, Len(path))
    [] OTHER                -> path

(* What load leaves where k is looked for: under its name, in its shard.   *)
Loaded(k) ==
  UNION {db[j] : j \in {j \in Key : /\ KindIn(Path(j)) = Kind[k]
                                    /\ NameIn(Path(j)) = Name[k]
                                    /\ Shard(Path(j)) = ShardOf(k)}}

(***************************************************************************)
(* Writes, time and the janitor                                            *)
(***************************************************************************)

(* set, delete, increment, setNodeCount, updatePeerSeq: the key holds the  *)
(* new version.  incrementSlidingWindow and addWindowTimestamp: the window *)
(* holds it too, and the oldest events, or all, may be cut off.            *)
NewContents(k, v) ==
  IF Kind[k] = "window"
  THEN {{w \in mem[k] \cup {v} : w >= oldest} : oldest \in 1..v + 1}
  ELSE {{v}}

(* Writes go on while the store is being closed: the handlers of incoming  *)
(* connections are not stopped.                                            *)
Write(k) ==
  /\ writes < MaxWrites
  /\ writes' = writes + 1
  /\ \E new \in NewContents(k, writes + 1) : mem' = [mem EXCEPT ![k] = new]
  /\ dirty' = dirty \cup {k}
  /\ lost' = lost \ {k}
  /\ UNCHANGED <<db, pc, batch, process, expired, bounds>>

(* A ttl runs out; an event becomes an hour old, the older ones first.     *)
Expire(k, v) ==
  /\ Kind[k] \in {"register", "window"}
  /\ v \in mem[k] \ expired
  /\ \A w \in mem[k] : w < v => w \in expired
  /\ expired' = expired \cup {v}
  /\ UNCHANGED <<mem, db, dirty, pc, batch, process, writes, lost, bounds>>

InShard(i) == {k \in Key : ShardOf(k) = i}

Keys(kinds) == {k \in Key : Kind[k] \in kinds}

Outdated(k) == mem[k] # {} /\ Max(mem[k]) \in expired

Emptied(ks) == [k \in Key |-> IF k \in ks THEN {} ELSE mem[k]]

(* The key is marked dirty, so that flush deletes it.                      *)
PruneExpiredKeys(i) ==
  LET ks == {k \in InShard(i) \cap Keys({"register"}) : Outdated(k)}
  IN  /\ ks # {}
      /\ mem' = Emptied(ks)
      /\ dirty' = dirty \cup ks
      /\ UNCHANGED <<db, pc, batch, process, writes, expired, lost, bounds>>

(* The key is not marked dirty.                                            *)
PruneStaleWindows(i) ==
  LET ks == {k \in InShard(i) \cap Keys({"window"}) : Outdated(k)}
  IN  /\ ks # {}
      /\ mem' = Emptied(ks)
      /\ UNCHANGED <<db, dirty, pc, batch, process, writes, expired, lost, bounds>>

(***************************************************************************)
(* flush                                                                   *)
(***************************************************************************)

(* A mutation of StartFlush: a single dirty key is not worth a flush.      *)
StartFlushBatched ==
  /\ pc["loop"] = Idle /\ \E k1, k2 \in dirty : k1 # k2
  /\ pc' = [pc EXCEPT !["loop"] = 1]
  /\ overlap' = (overlap \/ phase = "closing")
  /\ UNCHANGED <<mem, db, dirty, batch, phase, writes, expired, atClose, lost,
                 bounds>>

(* flushLoop, on a tick.  A flush of nothing changes nothing.  It may      *)
(* still be in a flush, or begin one, when stop is closed.                 *)
StartFlush ==
  /\ pc["loop"] = Idle /\ dirty # {}
  /\ pc' = [pc EXCEPT !["loop"] = 1]
  /\ overlap' = (overlap \/ phase = "closing")
  /\ UNCHANGED <<mem, db, dirty, batch, phase, writes, expired, atClose, lost,
                 bounds>>

(* What flush finds under a dirty key: the sequence number of a peer is    *)
(* marked dirty under another key than it is kept under and is not found,  *)
(* a value that has expired is deleted.                                    *)
Found(k) ==
  CASE Kind[k] = "seq"      -> {}
    [] Kind[k] = "register" -> mem[k] \ expired
    [] OTHER                -> mem[k]

(* Mutations of Snapshot: the loop over the shards ends one too late, one  *)
(* too early.                                                              *)
SnapshotOneMore(f) ==
  LET ks == dirty \cap InShard(pc[f])
  IN  /\ pc[f] \in 1..Shards + 1
      /\ batch' = [batch EXCEPT ![f] =
                     @ \cup {[key |-> k, val |-> Found(k)] : k \in ks}]
      /\ dirty' = dirty \ ks
      /\ pc' = [pc EXCEPT ![f] = @ + 1]
      /\ UNCHANGED <<mem, db, process, writes, expired, lost, bounds>>
SnapshotOneLess(f) ==
  LET ks == {k \in dirty \cap InShard(pc[f]) : ShardOf(k) < Shards}
  IN  /\ pc[f] \in 1..Shards
      /\ batch' = [batch EXCEPT ![f] =
                     @ \cup {[key |-> k, val |-> Found(k)] : k \in ks}]
      /\ dirty' = dirty \ ks
      /\ pc' = [pc EXCEPT ![f] = @ + 1]
      /\ UNCHANGED <<mem, db, process, writes, expired, lost, bounds>>

(* The dirty keys of a shard are taken under its lock.                     *)
Snapshot(f) ==
  LET ks == dirty \cap InShard(pc[f])
  IN  /\ pc[f] \in 1..Shards
      /\ batch' = [batch EXCEPT ![f] =
                     @ \cup {[key |-> k, val |-> Found(k)] : k \in ks}]
      /\ dirty' = dirty \ ks
      /\ pc' = [pc EXCEPT ![f] = @ + 1]
      /\ UNCHANGED <<mem, db, process, writes, expired, lost, bounds>>

Taken(f) == {item.key : item \in batch[f]}

(* A value replaces the one in the database, or is deleted from it.  The   *)
(* events of a window are added, each under a key of its own, and the      *)
(* deletion of a window deletes none of them.                              *)
Committed(f) ==
  [k \in Key |->
     IF k \notin Taken(f) THEN db[k]
     ELSE LET item == CHOOSE x \in batch[f] : x.key = k
          IN  IF Kind[k] = "window" THEN db[k] \cup item.val ELSE item.val]

AfterCommit(f) == IF f = "close" THEN Exited ELSE Idle

(* A mutation of Commit: keys marked dirty since they were taken are taken *)
(* to have been committed.                                                 *)
CommitClearsDirty(f) ==
  /\ pc[f] = Commits
  /\ db' = IF phase = "closed" THEN db ELSE Committed(f)
  /\ batch' = [batch EXCEPT ![f] = {}]
  /\ dirty' = dirty \ Taken(f)
  /\ pc' = [pc EXCEPT ![f] = AfterCommit(f)]
  /\ UNCHANGED <<mem, process, writes, expired, lost, bounds>>

(* wb.Flush(); a database that is closed refuses it.                       *)
Commit(f) ==
  /\ pc[f] = Commits
  /\ db' = IF phase = "closed" THEN db ELSE Committed(f)
  /\ batch' = [batch EXCEPT ![f] = {}]
  /\ pc' = [pc EXCEPT ![f] = AfterCommit(f)]
  /\ UNCHANGED <<mem, dirty, process, writes, expired, lost, bounds>>

(* wb.Flush() fails; flush ignores the error.                              *)
CommitError(f) ==
  /\ pc[f] = Commits
  /\ errors < MaxErrors
  /\ errors' = errors + 1
  /\ lost' = lost \cup Taken(f)
  /\ batch' = [batch EXCEPT ![f] = {}]
  /\ pc' = [pc EXCEPT ![f] = AfterCommit(f)]
  /\ UNCHANGED <<mem, db, dirty, process, writes, expired, restarts>>

(***************************************************************************)
(* close and load                                                          *)
(***************************************************************************)

(* close(s.stop) and the beginning of close's own flush.                   *)
Close ==
  /\ phase = "open"
  /\ phase' = "closing"
  /\ atClose' = mem
  /\ overlap' = (pc["loop"] # Idle)
  /\ pc' = [pc EXCEPT !["close"] = 1]
  /\ UNCHANGED <<mem, db, dirty, batch, writes, expired, lost, bounds>>

LoopExits ==
  /\ phase # "open" /\ pc["loop"] = Idle
  /\ pc' = [pc EXCEPT !["loop"] = Exited]
  /\ UNCHANGED <<mem, db, dirty, batch, process, writes, expired, lost, bounds>>

(* db.Close(), once close's flush is done.                                 *)
CloseDB ==
  /\ phase = "closing" /\ pc["close"] = Exited
  /\ phase' = "closed"
  /\ UNCHANGED <<mem, db, dirty, pc, batch, writes, expired, atClose, overlap,
                 lost, bounds>>

(* The process ends, closed or not, and newStore loads the database.       *)
Restart ==
  /\ restarts < MaxRestarts
  /\ restarts' = restarts + 1
  /\ mem' = [k \in Key |->
               IF Kind[k] = "register" THEN Loaded(k) \ expired ELSE Loaded(k)]
  /\ dirty' = {}
  /\ pc' = [f \in Flusher |-> Idle]
  /\ batch' = [f \in Flusher |-> {}]
  /\ phase' = "open" /\ atClose' = Nothing /\ overlap' = FALSE
  /\ lost' = {}
  /\ UNCHANGED <<db, writes, expired, errors>>

(***************************************************************************)
(* Specifications                                                          *)
(***************************************************************************)
LoopFlush == StartFlush \/ Snapshot("loop") \/ Commit("loop")

Closing == Close \/ Snapshot("close") \/ Commit("close") \/ LoopExits \/ CloseDB

Next ==
  \/ \E k \in Key : Write(k)
  \/ \E k \in Key : \E v \in mem[k] : Expire(k, v)
  \/ \E i \in 1..Shards : PruneExpiredKeys(i)
  \/ \E i \in 1..Shards : PruneStaleWindows(i)
  \/ LoopFlush
  \/ \E f \in Flusher : CommitError(f)
  \/ Closing
  \/ Restart

Steps == Init /\ [][Next]_vars

(* The ticker of flushLoop goes on, and so does the goroutine.             *)
Spec == Steps /\ WF_vars(LoopFlush)

(***************************************************************************)
(* Properties                                                              *)
(***************************************************************************)

(* load reads a name as it was: a register's that does not begin like the  *)
(* keys of another kind, and a counter's or window's without a colon.      *)
Plain(k) ==
  CASE Kind[k] = "register" ->
         \/ Len(Name[k]) = 1
         \/ /\ Name[k][1] \notin {"c", "mc", "ms", "sw"}
            /\ Name[k][1] = "meta" => Name[k][2] # "seq"
    [] Kind[k] = "seq"      -> TRUE
    [] OTHER                -> Len(Name[k]) = 1

(* The registers and counters whose name is read as it was, and for which  *)
(* no other key is taken.                                                  *)
Durable ==
  {k \in Keys({"register", "counter"}) :
     Plain(k) /\ \A j \in Key : Plain(j) \/ Name[k] # <<Path(j)[2]>>}

(* No change is forgotten: while the store is open, a register or counter  *)
(* that the database does not hold as it is in memory is marked dirty, or  *)
(* is in the batch that flushLoop is about to commit (or a commit failed), *)
(* however writes, the janitor and the visits of flush to the shards are   *)
(* interleaved, and after restarts.                                        *)
ChangesTracked ==
  phase = "open" =>
    \A k \in Durable :
      mem[k] \ expired = db[k] \ expired \/ k \in dirty \cup Taken("loop") \cup lost

(* What a register or counter held when close was called and still holds   *)
(* is in the database when close has returned.                             *)
ClosedKeeps(k) == phase = "closed" => (atClose[k] \cap mem[k]) \ expired \subseteq db[k]

(* close persists everything written before it, whatever the handlers of   *)
(* connections write meanwhile, if flushLoop was not in a flush at the     *)
(* time and no commit failed.                                              *)
CloseKeepsIfAlone == ~overlap => \A k \in Durable \ lost : ClosedKeeps(k)

Unsaved(v) ==
  /\ phase = "open" /\ v \notin expired
  /\ \E k \in Durable \ lost : v \in mem[k] \ db[k]

(* "asynchronously flushed to the local BadgerDB database": every write to *)
(* a register or counter reaches the database, unless it is overwritten in *)
(* memory or expires first, its commit fails, or the store is closed.      *)
Flushed == \A v \in Version : Unsaved(v) ~> ~Unsaved(v)

(***************************************************************************)
(* The inductive invariant behind TypeOK, ChangesTracked and               *)
(* CloseKeepsIfAlone.                                                      *)
(***************************************************************************)

(* Every version was given by a write.                                     *)
Written ==
  \A k \in Key :
    /\ mem[k] \subseteq 1..writes /\ db[k] \subseteq 1..writes
    /\ atClose[k] \subseteq 1..writes
    /\ \A f \in Flusher : \A x \in batch[f] : x.val \subseteq 1..writes

(* A flush has taken a key at most once, from a shard that it has visited. *)
TakenOnce ==
  \A f \in Flusher :
    /\ pc[f] \in {Exited, Idle} => batch[f] = {}
    /\ \A x \in batch[f] : ShardOf(x.key) < pc[f]
    /\ \A x, y \in batch[f] : x.key = y.key => x = y

(* The flush of close runs while the store is being closed, and the one of *)
(* flushLoop does not, if they do not overlap.                             *)
Phases ==
  /\ phase = "open" => pc["close"] = Idle
  /\ phase = "closed" => pc["close"] = Exited
  /\ phase = "closing" /\ ~overlap => pc["loop"] \in {Exited, Idle}

(* What flushLoop has taken is as it is in memory, unless it is dirty.     *)
TakenCurrent ==
  phase = "open" =>
    \A x \in batch["loop"] :
      x.key \in Durable \ dirty => x.val \ expired = mem[x.key] \ expired

(* What k has held since close was called is in the database, in the batch *)
(* of close, or dirty in a shard that close has yet to visit.              *)
Held(k) == (atClose[k] \cap mem[k]) \ expired

Secured(k) ==
  IF k \in Taken("close")
  THEN \A x \in batch["close"] : x.key = k => Held(k) \subseteq x.val
  ELSE Held(k) \subseteq db[k] \/ (k \in dirty /\ pc["close"] \in 1..ShardOf(k))

CloseSecures == phase # "open" /\ ~overlap => \A k \in Durable \ lost : Secured(k)

StoreInv ==
  /\ TypeOK /\ Written /\ TakenOnce /\ Phases
  /\ TakenCurrent /\ ChangesTracked /\ CloseSecures
=============================================================================
