------------------------------ MODULE Counters ------------------------------
(***************************************************************************)
(* The distributed counters: what IncrementBy of capacitor.go, the store's *)
(* increment, getNodeCount and setNodeCount, and flush and load do to one  *)
(* counter on every node.  A node keeps a partial count for each node and  *)
(* the aggregate of them, and logs the absolute value of its own partial   *)
(* count.  The store is updated, the partial count read back and the log   *)
(* appended to under three separate acquisitions of a lock, so a call is   *)
(* three steps.                                                            *)
(*                                                                         *)
(* An entry in a log may reach a peer at any time, in any order and any    *)
(* number of times, also after the node that logged it was restarted: that *)
(* is what Replication allows.                                             *)
(***************************************************************************)
EXTENDS Integers, FiniteSets, Functions

CONSTANTS Node,
          Client,     \* the goroutines that call IncrementBy
          Home,       \* [Client -> the node it calls]
          Deltas,     \* the deltas they pass
          MaxCalls,   \* bound: calls in a behaviour
          MaxCrashes  \* bound: crashes in a behaviour

ASSUME CountersAssumption ==
  /\ IsFiniteSet(Node)
  /\ Home \in [Client -> Node]
  /\ Deltas \subseteq Int
  /\ MaxCalls \in Nat /\ MaxCrashes \in Nat

VARIABLES counts,     \* [n, m]: shard.counts of n for node m
          aggregate,  \* [n]: shard.aggregateCounts of n
          disk,       \* [n, m]: the partial counts in n's database
          call,       \* [Client -> where its call is]
          log,        \* [n]: the counts that n has put in its DeltaLog
          received,   \* [p, n]: those that p has applied
          added,      \* [n]: the sum of all deltas passed to n
          raised,     \* [n]: the sum of those that are positive
          calls,      \* number of calls so far
          crashes     \* number of crashes so far

vars == <<counts, aggregate, disk, call, log, received, added, raised,
          calls, crashes>>

Link == Node \X Node

Idle == [pc |-> "idle", val |-> 0]

TypeOK ==
  /\ counts \in [Link -> Int]
  /\ aggregate \in [Node -> Int]
  /\ disk \in [Link -> Int]
  /\ call \in [Client -> [pc : {"idle", "read", "append"}, val : Int]]
  /\ log \in [Node -> SUBSET Int]
  /\ received \in [Link -> SUBSET Int]
  /\ added \in [Node -> Int] /\ raised \in [Node -> Nat]
  /\ calls \in 0..MaxCalls /\ crashes \in 0..MaxCrashes

Init ==
  /\ counts = [l \in Link |-> 0]
  /\ aggregate = [n \in Node |-> 0]
  /\ disk = [l \in Link |-> 0]
  /\ call = [c \in Client |-> Idle]
  /\ log = [n \in Node |-> {}]
  /\ received = [l \in Link |-> {}]
  /\ added = [n \in Node |-> 0] /\ raised = [n \in Node |-> 0]
  /\ calls = 0 /\ crashes = 0

(***************************************************************************)
(* IncrementBy                                                             *)
(***************************************************************************)

(* store.increment                                                         *)
Increment(c, delta) ==
  LET n == Home[c]
  IN  /\ call[c] = Idle
      /\ calls < MaxCalls
      /\ calls' = calls + 1
      /\ counts' = [counts EXCEPT ![<<n, n>>] = @ + delta]
      /\ aggregate' = [aggregate EXCEPT ![n] = @ + delta]
      /\ added' = [added EXCEPT ![n] = @ + delta]
      /\ raised' = [raised EXCEPT ![n] = IF delta > 0 THEN @ + delta ELSE @]
      /\ call' = [call EXCEPT ![c] = [pc |-> "read", val |-> 0]]
      /\ UNCHANGED <<disk, log, received, crashes>>

(* store.getNodeCount                                                      *)
NodeCount(n) == counts[<<n, n>>]

(* The count that is logged is read after the increment, so it may include *)
(* the increments of other calls.                                          *)
GetNodeCount(c) ==
  /\ call[c].pc = "read"
  /\ call' = [call EXCEPT ![c] = [pc |-> "append", val |-> NodeCount(Home[c])]]
  /\ UNCHANGED <<counts, aggregate, disk, log, received, added, raised,
                 calls, crashes>>

LogAppend(c) ==
  /\ call[c].pc = "append"
  /\ log' = [log EXCEPT ![Home[c]] = @ \cup {call[c].val}]
  /\ call' = [call EXCEPT ![c] = Idle]
  /\ UNCHANGED <<counts, aggregate, disk, received, added, raised,
                 calls, crashes>>

(***************************************************************************)
(* applyRemoteEntry                                                        *)
(***************************************************************************)

(* A mutation of SetNodeCount: an older count replaces a newer one.        *)
SetNodeCountLast(p, n, val) ==
  /\ counts' = [counts EXCEPT ![<<p, n>>] = val]
  /\ aggregate' = [aggregate EXCEPT ![p] = @ + val - counts[<<p, n>>]]

(* store.setNodeCount: a count that is not greater is ignored.             *)
SetNodeCount(p, n, val) ==
  LET new == IF val > counts[<<p, n>>] THEN val ELSE counts[<<p, n>>]
  IN  /\ counts' = [counts EXCEPT ![<<p, n>>] = new]
      /\ aggregate' = [aggregate EXCEPT ![p] = @ + new - counts[<<p, n>>]]

ApplyEntry(p, n, val) ==
  /\ p # n
  /\ val \in log[n]
  /\ SetNodeCount(p, n, val)
  /\ received' = [received EXCEPT ![<<p, n>>] = @ \cup {val}]
  /\ UNCHANGED <<disk, call, log, added, raised, calls, crashes>>

(***************************************************************************)
(* Persistence                                                             *)
(***************************************************************************)

(* A mutation of Flush: the aggregate is written as the node's own count.  *)
FlushAggregate(n) ==
  /\ disk' = [l \in Link |-> IF l = <<n, n>> THEN aggregate[n]
                            ELSE IF l[1] = n THEN counts[l] ELSE disk[l]]
  /\ UNCHANGED <<counts, aggregate, call, log, received, added, raised,
                 calls, crashes>>

(* flush writes the dirty partial counts, the aggregate is not stored.     *)
Flush(n) ==
  /\ disk' = [l \in Link |-> IF l[1] = n THEN counts[l] ELSE disk[l]]
  /\ UNCHANGED <<counts, aggregate, call, log, received, added, raised,
                 calls, crashes>>

(* A mutation of Loaded: only the node's own count goes into the aggregate.*)
LoadedOwn(n) == disk[<<n, n>>]

(* load adds up the partial counts again.                                  *)
Loaded(n) == SumFunction([m \in Node |-> disk[<<n, m>>]])

(* The process ends without Close and is started again: calls are cut      *)
(* short, and the counts are those of the last flush.  What it had         *)
(* received is sent to it again.  Its own log is empty, but entries of the *)
(* old one may still be in a connection's buffer, or in the hands of a     *)
(* peer that has read them: they stay in log.                              *)
Crash(n) ==
  /\ crashes < MaxCrashes
  /\ crashes' = crashes + 1
  /\ counts' = [l \in Link |-> IF l[1] = n THEN disk[l] ELSE counts[l]]
  /\ aggregate' = [aggregate EXCEPT ![n] = Loaded(n)]
  /\ call' = [c \in Client |-> IF Home[c] = n THEN Idle ELSE call[c]]
  /\ received' = [l \in Link |-> IF l[1] = n THEN {} ELSE received[l]]
  /\ UNCHANGED <<disk, log, added, raised, calls>>

(***************************************************************************)
(* Specifications                                                          *)
(***************************************************************************)
Next ==
  \/ \E c \in Client, delta \in Deltas : Increment(c, delta)
  \/ \E c \in Client : GetNodeCount(c)
  \/ \E c \in Client : LogAppend(c)
  \/ \E p, n \in Node : \E val \in log[n] : ApplyEntry(p, n, val)
  \/ \E n \in Node : Flush(n)
  \/ \E n \in Node : Crash(n)

Spec == Init /\ [][Next]_vars

(***************************************************************************)
(* Properties                                                              *)
(***************************************************************************)
(* No node has crashed, no call is in progress, and every entry has        *)
(* reached every peer.  (A crash loses the increments since the last flush *)
(* at the node, but not the counts it had announced to its peers.)         *)
Settled ==
  /\ crashes = 0
  /\ \A c \in Client : call[c] = Idle
  /\ \A p, n \in Node : p # n => received[<<p, n>>] = log[n]

IsGreatest(val, S) == val \in S /\ \A other \in S : other <= val

(* "no matter what order the updates arrive, the final sum is the same":   *)
(* once every entry has reached every node, a node's own partial count is  *)
(* the sum of the deltas passed to it, and all its peers hold the greatest *)
(* count that it has announced, however the calls of one node and the      *)
(* deliveries, repeated ones included, were interleaved.  If nothing was   *)
(* decremented this is the exact sum, and with AggregateIsSum GetCount     *)
(* returns the sum of all increments everywhere; a decrement stays at the  *)
(* node that was asked for it.                                             *)
PartialsExact ==
  Settled =>
    \A n \in Node :
      /\ counts[<<n, n>>] = added[n]
      /\ \A p \in Node \ {n} :
           /\ IsGreatest(counts[<<p, n>>], log[n] \cup {0})
           /\ raised[n] = added[n] => counts[<<p, n>>] = added[n]

(* No increment is counted twice: GetCount never exceeds the sum of all    *)
(* increments so far, also when nodes crash, reload what they had flushed, *)
(* count on from there, and are sent counts of before; decrements do not   *)
(* raise it either, lost or not.                                           *)
NeverOvercounts == \A n \in Node : aggregate[n] <= SumFunction(raised)

(* The aggregate that GetCount returns, which is maintained by differences *)
(* and rebuilt by load, is always the sum of the partial counts.           *)
AggregateIsSum ==
  \A n \in Node :
    aggregate[n] = SumFunction([m \in Node |-> counts[<<n, m>>]])

(***************************************************************************)
(* The inductive invariant behind PartialsExact.                           *)
(***************************************************************************)

(* A node's own count is the sum of its deltas, and neither it nor a count *)
(* in the log or on its way there is greater than the increments.          *)
OwnCount(n) ==
  /\ counts[<<n, n>>] = added[n] /\ added[n] <= raised[n]
  /\ \A val \in log[n] : val <= raised[n]
  /\ \A c \in Client :
       Home[c] = n /\ call[c].pc = "append" => call[c].val <= raised[n]

(* The latest count is in the log, or a call will still put it there.      *)
Announced(n) ==
  \/ added[n] = 0 \/ added[n] \in log[n]
  \/ \E c \in Client :
       /\ Home[c] = n
       /\ call[c].pc = "read" \/ call[c] = [pc |-> "append", val |-> added[n]]

(* A peer holds the greatest of the counts that it has received.           *)
Greatest(p, n) ==
  /\ received[<<p, n>>] \subseteq log[n]
  /\ IsGreatest(counts[<<p, n>>], received[<<p, n>>] \cup {0})

CountersInv ==
  /\ TypeOK
  /\ \A n \in Node : OwnCount(n) /\ Announced(n)
  /\ \A p, n \in Node : p # n => Greatest(p, n)

(* It holds until a node crashes.                                          *)
InvUntilCrash == crashes \in Nat /\ (crashes = 0 => CountersInv)

(***************************************************************************)
(* The inductive invariant behind NeverOvercounts.  It holds whether nodes *)
(* crash or not.                                                           *)
(***************************************************************************)

(* No count of node n, wherever it is kept, exceeds the increments at n.   *)
Bounded(n) ==
  /\ \A p \in Node : counts[<<p, n>>] <= raised[n] /\ disk[<<p, n>>] <= raised[n]
  /\ \A val \in log[n] : val <= raised[n]
  /\ \A c \in Client :
       Home[c] = n /\ call[c].pc = "append" => call[c].val <= raised[n]

AllBounded == \A n \in Node : Bounded(n)
=============================================================================
