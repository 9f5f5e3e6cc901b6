------------------------------- MODULE Clocks -------------------------------
(***************************************************************************)
(* The clocks of a cluster.  Every local write takes a timestamp with Now; *)
(* every log entry received passes its timestamp to Update before it is    *)
(* applied.  Each call reads the wall clock anew, and a wall clock may     *)
(* jump in either direction between two readings, so a reading is any      *)
(* member of Wall.  A message, once sent, may be received late, more than  *)
(* once, in any order, or never.                                           *)
(***************************************************************************)
EXTENDS HLC

CONSTANTS Node,              \* the nodes of the cluster
          Wall,              \* the values time.Now().UnixNano() may return
          Offsets,           \* the values SetMaxOffset may be given
          DefaultMaxOffset,
          MaxTicks           \* bound: clock operations in a behaviour

ASSUME ClocksAssumption ==
  /\ Wall \subseteq Nat
  /\ Offsets \subseteq Nat
  /\ DefaultMaxOffset \in Offsets
  /\ MaxTicks \in Nat

VARIABLES clock,      \* [Node -> Timestamp]: HLC.physical and HLC.logical
          maxOffset,  \* [Node -> Offsets]: HLC.maxOffset
          sent,       \* the timestamped messages sent so far
          known,      \* [Node -> timestamps in its causal past since it started]
          ceiling,    \* [Node -> the greatest wall + maxOffset it has read]
          ticks       \* number of clock operations so far

vars == <<clock, maxOffset, sent, known, ceiling, ticks>>

(* A message carries the timestamp of the write it replicates.  Its past   *)
(* (for the properties only) is the set of timestamps of all events that   *)
(* happened before that write.                                             *)
Message == [from : Node, ts : Timestamp, past : SUBSET Timestamp]

TypeOK ==
  /\ clock \in [Node -> Timestamp]
  /\ maxOffset \in [Node -> Offsets]
  /\ sent \subseteq Message
  /\ known \in [Node -> SUBSET Timestamp]
  /\ ceiling \in [Node -> Nat]
  /\ ticks \in 0..MaxTicks

(***************************************************************************)
(* Actions                                                                 *)
(***************************************************************************)

(* The wall clock of n was read and returned w.                            *)
ReadWall(n, w) ==
  /\ ticks < MaxTicks
  /\ ticks' = ticks + 1
  /\ ceiling' = [ceiling EXCEPT ![n] = Larger(@, w + maxOffset[n])]

(* NewHLC on every node.                                                   *)
Init ==
  /\ \E w \in [Node -> Wall] :
       /\ clock = [n \in Node |-> [p |-> w[n], l |-> 0]]
       /\ ceiling = [n \in Node |-> w[n] + DefaultMaxOffset]
  /\ maxOffset = [n \in Node |-> DefaultMaxOffset]
  /\ sent = {}
  /\ known = [n \in Node |-> {}]
  /\ ticks = 0

SetMaxOffset(n, offset) ==
  /\ maxOffset' = [maxOffset EXCEPT ![n] = offset]
  /\ UNCHANGED <<clock, sent, known, ceiling, ticks>>

(* A local write: Now, and the log entry that carries its result.          *)
LocalEvent(n, w) ==
  LET ts == Now(clock[n], w)
  IN  /\ ReadWall(n, w)
      /\ clock' = [clock EXCEPT ![n] = ts]
      /\ sent' = sent \cup {[from |-> n, ts |-> ts, past |-> known[n]]}
      /\ known' = [known EXCEPT ![n] = @ \cup {ts}]
      /\ UNCHANGED maxOffset

(* applyRemoteEntry passes the entry's timestamp to Update ...             *)
Receive(n, w, m) ==
  /\ m.from # n
  /\ ReadWall(n, w)
  /\ ~ClockSmash(w, maxOffset[n], m.ts)
  /\ clock' = [clock EXCEPT ![n] = Update(clock[n], w, m.ts)]
  /\ known' = [known EXCEPT ![n] = @ \cup m.past \cup {m.ts}]
  /\ UNCHANGED <<maxOffset, sent>>

(* ... and drops the entry when Update refuses it.                         *)
Refuse(n, w, m) ==
  /\ m.from # n
  /\ ReadWall(n, w)
  /\ ClockSmash(w, maxOffset[n], m.ts)
  /\ UNCHANGED <<clock, maxOffset, sent, known>>

(* A mutation of Restart: the new clock is built without a maximum offset. *)
RestartWithoutOffset(n, w) ==
  /\ ticks < MaxTicks
  /\ ticks' = ticks + 1
  /\ clock' = [clock EXCEPT ![n] = [p |-> w, l |-> 0]]
  /\ maxOffset' = [maxOffset EXCEPT ![n] = 0]
  /\ ceiling' = [ceiling EXCEPT ![n] = Larger(@, w)]
  /\ known' = [known EXCEPT ![n] = {}]
  /\ UNCHANGED sent

(* The node stops and starts again.  New builds a fresh HLC from the wall  *)
(* clock: nothing of the old clock is kept, so nothing is promised about   *)
(* what the node knew before.                                              *)
Restart(n, w) ==
  /\ ticks < MaxTicks
  /\ ticks' = ticks + 1
  /\ clock' = [clock EXCEPT ![n] = [p |-> w, l |-> 0]]
  /\ maxOffset' = [maxOffset EXCEPT ![n] = DefaultMaxOffset]
  /\ ceiling' = [ceiling EXCEPT ![n] = Larger(@, w + DefaultMaxOffset)]
  /\ known' = [known EXCEPT ![n] = {}]
  /\ UNCHANGED sent

Next ==
  \/ \E n \in Node, w \in Wall : LocalEvent(n, w)
  \/ \E n \in Node, w \in Wall, m \in sent : Receive(n, w, m)
  \/ \E n \in Node, w \in Wall, m \in sent : Refuse(n, w, m)
  \/ \E n \in Node, offset \in Offsets : SetMaxOffset(n, offset)
  \/ \E n \in Node, w \in Wall : Restart(n, w)

Spec == Init /\ [][Next]_vars

(***************************************************************************)
(* Properties                                                              *)
(***************************************************************************)

(* hlc.go promises a "causality-preserving clock": the timestamp of a      *)
(* write is strictly greater than that of every write that happened before *)
(* it, on this node since it was started or, through any chain of received *)
(* entries, on others, however the wall clocks jump and others restart.    *)
Causality == \A m \in sent : \A t \in m.past : After(m.ts, t)

(* A Now, or an Update that is not refused.                                *)
Ticks(n) == \E w \in Wall : LocalEvent(n, w) \/ \E m \in sent : Receive(n, w, m)

(* A clock never returns the same timestamp twice and never goes back:     *)
(* every Now and every accepted Update moves it strictly forward, however  *)
(* the wall clock jumps, and nothing else moves it but a restart, which    *)
(* starts a new clock that may be behind the old one.                      *)
ClockAdvances ==
  [][\A n \in Node :
       /\ Ticks(n) => After(clock'[n], clock[n])
       /\ clock'[n] # clock[n] => Ticks(n) \/ \E w \in Wall : Restart(n, w)]_vars

(* Clock smash protection: whatever timestamps a node receives, its clock  *)
(* never runs ahead of the latest wall clock it has read by more than      *)
(* maxOffset, so a peer with a wrong clock cannot drag it away.            *)
DriftBounded == \A n \in Node : clock[n].p <= ceiling[n]

(***************************************************************************)
(* The inductive invariant behind Causality and ClockAdvances.             *)
(***************************************************************************)

(* No logical part exceeds the number of clock operations so far.          *)
LogicalBounded ==
  /\ \A n \in Node : clock[n].l \in 0..ticks
  /\ \A m \in sent : m.ts.l \in 0..ticks

(* A node's clock is at or after everything in its causal past.            *)
KnownBehindClock == \A n \in Node : \A t \in known[n] : GreaterOrEqual(clock[n], t)

CausalityInv == TypeOK /\ LogicalBounded /\ KnownBehindClock /\ Causality
=============================================================================
