------------------------------ MODULE Metrics -------------------------------
(***************************************************************************)
(* The distributed metrics beside the distributed counters: what           *)
(* IncrementMetric, the store's incrementMetric and getAggregateMetric,    *)
(* and flush and load do to one metric on every node.  They share the      *)
(* maps, the flush and the crashes of Counters.  A metric's entry carries  *)
(* an amount to add and not a total, so that what it does depends on how   *)
(* often it is delivered.                                                  *)
(***************************************************************************)
EXTENDS Counters, Sequences, FiniteSetsExt

CONSTANT MaxRepeats   \* bound: entries delivered again

ASSUME MetricsAssumption == MaxRepeats \in Nat

VARIABLES metric,      \* [n, m]: "mc:" and "ms:" of shard.counts of n for m
          maggregate,  \* [n]: "m:c:" and "m:s:" of shard.aggregateCounts
          mdisk,       \* [n, m]: "mc:" and "ms:" in n's database
          recording,   \* [Client]: the delta that it is about to log
          mlog,        \* [n]: the deltas that n has put in its DeltaLog
          applied,     \* [p, n]: the entries that p has applied
          repeats      \* number of entries applied again so far

metricVars == <<metric, maggregate, mdisk, recording, mlog, applied, repeats>>

Metric == [count : Nat, sum : Int]
Zero == [count |-> 0, sum |-> 0]

MetricTypeOK ==
  /\ TypeOK
  /\ metric \in [Link -> Metric] /\ mdisk \in [Link -> Metric]
  /\ maggregate \in [Node -> Metric]
  /\ recording \in [Client -> [pc : {"append"}, val : Deltas] \cup {Idle}]
  /\ mlog \in [Node -> Seq(Deltas)]
  /\ applied \in [Link -> SUBSET Nat]
  /\ \A l \in Link : applied[l] \subseteq DOMAIN mlog[l[2]]
  /\ repeats \in 0..MaxRepeats

MetricInit ==
  /\ Init
  /\ metric = [l \in Link |-> Zero] /\ mdisk = [l \in Link |-> Zero]
  /\ maggregate = [n \in Node |-> Zero]
  /\ recording = [c \in Client |-> Idle]
  /\ mlog = [n \in Node |-> <<>>]
  /\ applied = [l \in Link |-> {}]
  /\ repeats = 0

(***************************************************************************)
(* IncrementMetric and applyRemoteEntry                                    *)
(***************************************************************************)

Hit(m, delta) == [count |-> m.count + 1, sum |-> m.sum + delta]

(* A mutation of AddMetric: the aggregate's count is forgotten.            *)
AddMetricSum(n, m, delta) ==
  /\ metric' = [metric EXCEPT ![<<n, m>>] = Hit(@, delta)]
  /\ maggregate' = [maggregate EXCEPT ![n].sum = @ + delta]

(* store.incrementMetric of node n on behalf of node m.                    *)
AddMetric(n, m, delta) ==
  /\ metric' = [metric EXCEPT ![<<n, m>>] = Hit(@, delta)]
  /\ maggregate' = [maggregate EXCEPT ![n] = Hit(@, delta)]

IncrementMetric(c, delta) ==
  /\ call[c] = Idle /\ recording[c] = Idle
  /\ calls < MaxCalls
  /\ calls' = calls + 1
  /\ AddMetric(Home[c], Home[c], delta)
  /\ recording' = [recording EXCEPT ![c] = [pc |-> "append", val |-> delta]]
  /\ UNCHANGED <<counts, aggregate, disk, call, log, received, added, raised,
                 crashes, mdisk, mlog, applied, repeats>>

(* A mutation of LogMetric: the sum is logged, as IncrementBy does.        *)
LogMetricSum(c) ==
  LET n == Home[c]
  IN  /\ recording[c] # Idle
      /\ mlog' = [mlog EXCEPT ![n] = Append(@, metric[<<n, n>>].sum)]
      /\ recording' = [recording EXCEPT ![c] = Idle]
      /\ UNCHANGED <<vars, metric, maggregate, mdisk, applied, repeats>>

LogMetric(c) ==
  /\ recording[c] # Idle
  /\ mlog' = [mlog EXCEPT ![Home[c]] = Append(@, recording[c].val)]
  /\ recording' = [recording EXCEPT ![c] = Idle]
  /\ UNCHANGED <<vars, metric, maggregate, mdisk, applied, repeats>>

(* A mutation of ApplyMetric: the peer's own ID, not the entry's.          *)
ApplyMetricOwn(p, n, i) ==
  /\ p # n
  /\ i \in applied[<<p, n>>] => repeats < MaxRepeats
  /\ repeats' = IF i \in applied[<<p, n>>] THEN repeats + 1 ELSE repeats
  /\ AddMetric(p, p, mlog[n][i])
  /\ applied' = [applied EXCEPT ![<<p, n>>] = @ \cup {i}]
  /\ UNCHANGED <<vars, mdisk, recording, mlog>>

ApplyMetric(p, n, i) ==
  /\ p # n
  /\ i \in applied[<<p, n>>] => repeats < MaxRepeats
  /\ repeats' = IF i \in applied[<<p, n>>] THEN repeats + 1 ELSE repeats
  /\ AddMetric(p, n, mlog[n][i])
  /\ applied' = [applied EXCEPT ![<<p, n>>] = @ \cup {i}]
  /\ UNCHANGED <<vars, mdisk, recording, mlog>>

(***************************************************************************)
(* Persistence                                                             *)
(***************************************************************************)

(* A mutation of FlushAll: "mc:" is not marked dirty.                      *)
FlushAllSums(n) ==
  /\ Flush(n)
  /\ mdisk' = [l \in Link |-> IF l[1] = n THEN [Zero EXCEPT !.sum = metric[l].sum]
                             ELSE mdisk[l]]
  /\ UNCHANGED <<metric, maggregate, recording, mlog, applied, repeats>>

(* flush writes the dirty "mc:" and "ms:" keys with the counters.          *)
FlushAll(n) ==
  /\ Flush(n)
  /\ mdisk' = [l \in Link |-> IF l[1] = n THEN metric[l] ELSE mdisk[l]]
  /\ UNCHANGED <<metric, maggregate, recording, mlog, applied, repeats>>

(* load adds up the partial counts and the partial sums again.             *)
LoadedMetric(n) ==
  [count |-> SumFunction([m \in Node |-> mdisk[<<n, m>>].count]),
   sum |-> SumFunction([m \in Node |-> mdisk[<<n, m>>].sum])]

CrashAll(n) ==
  /\ Crash(n)
  /\ metric' = [l \in Link |-> IF l[1] = n THEN mdisk[l] ELSE metric[l]]
  /\ maggregate' = [maggregate EXCEPT ![n] = LoadedMetric(n)]
  /\ recording' = [c \in Client |-> IF Home[c] = n THEN Idle ELSE recording[c]]
  /\ applied' = [l \in Link |-> IF l[1] = n THEN {} ELSE applied[l]]
  /\ UNCHANGED <<mdisk, mlog, repeats>>

(***************************************************************************)
(* Specification                                                           *)
(***************************************************************************)

(* The steps of Counters but Flush and Crash, which are shared.            *)
CounterStep ==
  \/ \E c \in Client, delta \in Deltas : recording[c] = Idle /\ Increment(c, delta)
  \/ \E c \in Client : GetNodeCount(c)
  \/ \E c \in Client : LogAppend(c)
  \/ \E p, n \in Node : \E val \in log[n] : ApplyEntry(p, n, val)

MetricNext ==
  \/ CounterStep /\ UNCHANGED metricVars
  \/ \E c \in Client, delta \in Deltas : IncrementMetric(c, delta)
  \/ \E c \in Client : LogMetric(c)
  \/ \E p, n \in Node : \E i \in DOMAIN mlog[n] : ApplyMetric(p, n, i)
  \/ \E n \in Node : FlushAll(n)
  \/ \E n \in Node : CrashAll(n)

MetricSpec == MetricInit /\ [][MetricNext]_<<vars, metricVars>>

(***************************************************************************)
(* Properties                                                              *)
(***************************************************************************)

(* Every entry has reached every peer, once, and none was lost in a crash. *)
MetricsSettled ==
  /\ crashes = 0 /\ repeats = 0
  /\ \A c \in Client : recording[c] = Idle
  /\ \A p, n \in Node : p # n => applied[<<p, n>>] = DOMAIN mlog[n]

(* "Metrics are eventually consistent across nodes" (applyRemoteEntry), as *)
(* far as each entry is delivered once: then all nodes hold the same count *)
(* and sum for every node, and GetMetric returns the same everywhere.      *)
MetricsAgree ==
  MetricsSettled =>
    \A p, q \in Node : /\ maggregate[p] = maggregate[q]
                       /\ \A n \in Node : metric[<<p, n>>] = metric[<<q, n>>]

(* What GetMetric returns, which is maintained hit by hit and rebuilt by   *)
(* load from keys of two kinds, is the sum of the partial metrics.         *)
MetricIsSum ==
  \A n \in Node :
    /\ maggregate[n].count = SumFunction([m \in Node |-> metric[<<n, m>>].count])
    /\ maggregate[n].sum = SumFunction([m \in Node |-> metric[<<n, m>>].sum])

(* The count and the sum of a metric never drift apart, whatever is        *)
(* delivered twice, lost in a crash or read back: the average that a       *)
(* client derives from GetMetric lies between the least and the greatest   *)
(* delta.                                                                  *)
AverageInRange ==
  \A n \in Node :
    /\ Min(Deltas) * maggregate[n].count <= maggregate[n].sum
    /\ maggregate[n].sum <= Max(Deltas) * maggregate[n].count

(***************************************************************************)
(* The inductive invariants behind AverageInRange and MetricsAgree.        *)
(***************************************************************************)
Within(m) == /\ Min(Deltas) * m.count <= m.sum
             /\ m.sum <= Max(Deltas) * m.count

PartialsWithin == \A l \in Link : Within(metric[l]) /\ Within(mdisk[l])

(* The calls at n that have changed the store and not yet the log.         *)
Pending(n) == {c \in Client : Home[c] = n /\ recording[c] # Idle}

(* A node's own metric: what is in its log, and what is pending.           *)
Recorded(n) ==
  /\ IsFiniteSet(Pending(n))
  /\ metric[<<n, n>>].count = Len(mlog[n]) + Cardinality(Pending(n))
  /\ metric[<<n, n>>].sum =
       SumFunction(mlog[n])
         + SumFunctionOnSet([c \in Client |-> recording[c].val], Pending(n))

(* A peer's: the entries that it has applied.                              *)
Received(p, n) ==
  /\ metric[<<p, n>>].count = Cardinality(applied[<<p, n>>])
  /\ metric[<<p, n>>].sum = SumFunctionOnSet(mlog[n], applied[<<p, n>>])

AllExact ==
  /\ \A n \in Node : Recorded(n)
  /\ \A p, n \in Node : p # n => Received(p, n)

(* It holds until a node crashes or an entry is delivered again.           *)
MetricsExact == crashes = 0 /\ repeats = 0 => AllExact
=============================================================================
