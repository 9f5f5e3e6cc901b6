---------------------------- MODULE ClocksProofs ----------------------------
(***************************************************************************)
(* Proofs about the clocks of Clocks, for every set of nodes and any       *)
(* behaviour of the wall clocks.                                           *)
(***************************************************************************)
EXTENDS Clocks, TLAPS

(***************************************************************************)
(* The clock operations and the order of timestamps of HLC                 *)
(***************************************************************************)

(* Now returns a timestamp strictly after the clock's, unless the logical  *)
(* part is at its greatest value.                                          *)
LEMMA NowAdvances ==
  ASSUME NEW h \in Timestamp, NEW w \in Nat, h.l \in 0..Int32Max - 1
  PROVE  /\ Now(h, w) \in Timestamp
         /\ After(Now(h, w), h)
         /\ Now(h, w).l \in 0..h.l + 1
BY Int32MaxAssumption DEF Now, Inc32, After, Timestamp

(* An accepted Update moves the clock strictly past both its old value and *)
(* the timestamp received.                                                 *)
LEMMA UpdateAdvances ==
  ASSUME NEW h \in Timestamp, NEW w \in Nat, NEW r \in Timestamp,
         h.l \in 0..Int32Max - 1, r.l \in 0..Int32Max - 1
  PROVE  /\ Update(h, w, r) \in Timestamp
         /\ After(Update(h, w, r), h)
         /\ After(Update(h, w, r), r)
         /\ Update(h, w, r).l \in 0..Larger(h.l, r.l) + 1
BY Int32MaxAssumption DEF Update, Inc32, Larger, After, Timestamp

(* The clock after an accepted Update is at most the greatest of the old   *)
(* clock and wall + maxOffset.                                             *)
LEMMA UpdateDrift ==
  ASSUME NEW h \in Timestamp, NEW w \in Nat, NEW r \in Timestamp,
         NEW o \in Nat, ~ClockSmash(w, o, r)
  PROVE  Update(h, w, r).p <= Larger(h.p, w + o)
BY DEF Update, ClockSmash, Larger, Timestamp

(* The timestamp order: After is transitive with GreaterOrEqual.           *)
LEMMA AfterTransitive ==
  ASSUME NEW a \in Timestamp, NEW b \in Timestamp, NEW c \in Timestamp,
         After(a, b), GreaterOrEqual(b, c)
  PROVE  After(a, c)
BY DEF After, GreaterOrEqual, Timestamp

LEMMA AfterIsGreaterOrEqual ==
  ASSUME NEW a \in Timestamp, NEW b \in Timestamp, After(a, b)
  PROVE  GreaterOrEqual(a, b)
BY DEF After, GreaterOrEqual, Timestamp

(***************************************************************************)
(* Type correctness                                                        *)
(***************************************************************************)

(* Every operation of the clocks keeps the state well typed.               *)
LEMMA TypeStep ==
  ASSUME TypeOK, [Next]_vars
  PROVE  TypeOK'
<1> USE ClocksAssumption, Int32MaxAssumption
<1>1. ASSUME NEW n \in Node, NEW w \in Wall, LocalEvent(n, w)
      PROVE  TypeOK'
  <2>1. w \in Nat /\ maxOffset[n] \in Nat /\ clock[n] \in Timestamp
    BY Zenon DEF TypeOK
  <2>2. Now(clock[n], w) \in Timestamp
    BY <2>1 DEF Now, Inc32, Timestamp
  <2>3. [from |-> n, ts |-> Now(clock[n], w), past |-> known[n]] \in Message
    BY <2>2, Zenon DEF TypeOK, Message
  <2> QED BY <1>1, <2>1, <2>2, <2>3 DEF TypeOK, LocalEvent, ReadWall, Larger
<1>2. ASSUME NEW n \in Node, NEW w \in Wall, NEW m \in sent, Receive(n, w, m)
      PROVE  TypeOK'
  <2>1. /\ w \in Nat /\ maxOffset[n] \in Nat /\ clock[n] \in Timestamp
        /\ m.ts \in Timestamp /\ m.past \subseteq Timestamp
    BY Zenon DEF TypeOK, Message
  <2>2. Update(clock[n], w, m.ts) \in Timestamp
    BY <2>1 DEF Update, Inc32, Larger, Timestamp
  <2> QED BY <1>2, <2>1, <2>2 DEF TypeOK, Receive, ReadWall, Larger
<1>3. ASSUME NEW n \in Node, NEW w \in Wall, NEW m \in sent, Refuse(n, w, m)
      PROVE  TypeOK'
  <2>1. w \in Nat /\ maxOffset[n] \in Nat
    BY Zenon DEF TypeOK
  <2> QED BY <1>3, <2>1 DEF TypeOK, Refuse, ReadWall, Larger
<1>4. ASSUME NEW n \in Node, NEW offset \in Offsets, SetMaxOffset(n, offset)
      PROVE  TypeOK'
  BY <1>4, Zenon DEF TypeOK, SetMaxOffset
<1>5. ASSUME NEW n \in Node, NEW w \in Wall, Restart(n, w)
      PROVE  TypeOK'
  <2>1. w \in Nat /\ [p |-> w, l |-> 0] \in Timestamp
    BY DEF Timestamp
  <2> QED BY <1>5, <2>1 DEF TypeOK, Restart, Larger
<1>6. CASE UNCHANGED vars
  BY <1>6, Zenon DEF TypeOK, vars
<1> QED BY <1>1, <1>2, <1>3, <1>4, <1>5, <1>6, Zenon DEF Next

LEMMA TypeInit == Init => TypeOK
<1> SUFFICES ASSUME Init PROVE TypeOK
  BY Zenon
<1> PICK w \in [Node -> Wall] :
           /\ clock = [n \in Node |-> [p |-> w[n], l |-> 0]]
           /\ ceiling = [n \in Node |-> w[n] + DefaultMaxOffset]
  BY Zenon DEF Init
<1>1. \A n \in Node : w[n] \in Nat /\ w[n] + DefaultMaxOffset \in Nat
  <2>1. DefaultMaxOffset \in Nat /\ \A x \in Wall : x \in Nat
    BY ClocksAssumption, Zenon
  <2>2. \A n \in Node : w[n] \in Wall
    BY Zenon
  <2> QED BY <2>1, <2>2
<1> QED BY <1>1, ClocksAssumption DEF Init, TypeOK, Timestamp

(* The state stays well typed, restarts included.                          *)
THEOREM TypeCorrect == Spec => []TypeOK
<1>1. TypeOK /\ [Next]_vars => TypeOK'
  BY TypeStep, Zenon
<1> QED BY TypeInit, <1>1, PTL DEF Spec

(***************************************************************************)
(* Clock smash protection                                                  *)
(***************************************************************************)

(* No node's clock runs ahead of the latest wall clock it has read by more *)
(* than maxOffset, whatever timestamps hlc.Update is given and however     *)
(* often the node restarts.                                                *)
THEOREM DriftIsBounded == Spec => []DriftBounded
<1> USE ClocksAssumption
<1>1. Init => DriftBounded
  <2> SUFFICES ASSUME Init PROVE DriftBounded
    BY Zenon
  <2> PICK w \in [Node -> Wall] :
             /\ clock = [n \in Node |-> [p |-> w[n], l |-> 0]]
             /\ ceiling = [n \in Node |-> w[n] + DefaultMaxOffset]
    BY Zenon DEF Init
  <2>1. DefaultMaxOffset \in Nat /\ \A x \in Wall : x \in Nat
    BY Zenon
  <2>2. \A n \in Node : w[n] \in Wall
    BY Zenon
  <2>3. ASSUME NEW n \in Node PROVE clock[n].p <= ceiling[n]
    <3>1. clock[n].p = w[n] /\ ceiling[n] = w[n] + DefaultMaxOffset
      BY Zenon
    <3>2. w[n] \in Nat
      BY <2>1, <2>2, Zenon
    <3> QED BY <2>1, <3>1, <3>2
  <2> QED BY <2>3, Zenon DEF DriftBounded
<1>2. ASSUME TypeOK, DriftBounded, [Next]_vars
      PROVE  DriftBounded'
  <2> USE <1>2
  <2>1. ASSUME NEW n \in Node, NEW w \in Wall, LocalEvent(n, w)
        PROVE  DriftBounded'
    <3>1. /\ w \in Nat /\ maxOffset[n] \in Nat /\ clock[n] \in Timestamp
          /\ ceiling[n] \in Nat
      BY Zenon DEF TypeOK
    <3>2. Now(clock[n], w).p <= Larger(ceiling[n], w + maxOffset[n])
      BY <3>1 DEF Now, Larger, DriftBounded, Timestamp
    <3> QED BY <2>1, <3>2, Zenon DEF TypeOK, LocalEvent, ReadWall, DriftBounded
  <2>2. ASSUME NEW n \in Node, NEW w \in Wall, NEW m \in sent, Receive(n, w, m)
        PROVE  DriftBounded'
    <3>1. /\ w \in Nat /\ maxOffset[n] \in Nat /\ clock[n] \in Timestamp
          /\ ceiling[n] \in Nat /\ m.ts \in Timestamp
          /\ clock[n].p \in Nat /\ clock[n].p <= ceiling[n]
      BY Zenon DEF TypeOK, Message, Timestamp, DriftBounded
    <3>2. Update(clock[n], w, m.ts).p <= Larger(clock[n].p, w + maxOffset[n])
      BY <2>2, <3>1, UpdateDrift, Zenon DEF Receive
    <3>3. Larger(clock[n].p, w + maxOffset[n])
            <= Larger(ceiling[n], w + maxOffset[n])
      BY <3>1 DEF Larger
    <3>4. Update(clock[n], w, m.ts).p \in Nat
      BY <3>1, Zenon DEF Update, Larger, Timestamp
    <3>5. Update(clock[n], w, m.ts).p <= Larger(ceiling[n], w + maxOffset[n])
      BY <3>1, <3>2, <3>3, <3>4 DEF Larger
    <3> QED BY <2>2, <3>5, Zenon DEF TypeOK, Receive, ReadWall, DriftBounded
  <2>3. ASSUME NEW n \in Node, NEW w \in Wall, NEW m \in sent, Refuse(n, w, m)
        PROVE  DriftBounded'
    <3>1. w \in Nat /\ maxOffset[n] \in Nat
      BY Zenon DEF TypeOK
    <3> QED BY <2>3, <3>1
            DEF TypeOK, Refuse, ReadWall, Larger, DriftBounded, Timestamp
  <2>4. ASSUME NEW n \in Node, NEW offset \in Offsets, SetMaxOffset(n, offset)
        PROVE  DriftBounded'
    BY <2>4, Zenon DEF SetMaxOffset, DriftBounded
  <2>5. ASSUME NEW n \in Node, NEW w \in Wall, Restart(n, w)
        PROVE  DriftBounded'
    <3>1. w \in Nat /\ DefaultMaxOffset \in Nat
      BY Zenon
    <3> QED BY <2>5, <3>1 DEF TypeOK, Restart, Larger, DriftBounded, Timestamp
  <2>6. CASE UNCHANGED vars
    BY <2>6, Zenon DEF vars, DriftBounded
  <2> QED BY <2>1, <2>2, <2>3, <2>4, <2>5, <2>6, Zenon DEF Next
<1> QED BY <1>1, <1>2, TypeCorrect, PTL DEF Spec

(***************************************************************************)
(* Causality.  The theorems hold as long as the cluster performs no more   *)
(* clock operations than an int32 can count; the inductive invariant needs *)
(* LogicalBounded to know that no logical part wraps around, and           *)
(* KnownBehindClock to relate a node's clock to the writes it knows of.    *)
(***************************************************************************)

LEMMA CausalityInit == Init => CausalityInv
<1> SUFFICES ASSUME Init PROVE CausalityInv
  BY Zenon
<1>1. TypeOK
  BY TypeInit, Zenon
<1>2. LogicalBounded /\ KnownBehindClock /\ Causality
  BY DEF Init, LogicalBounded, KnownBehindClock, Causality
<1> QED BY <1>1, <1>2, Zenon DEF CausalityInv

(* What a clock operation at node n does to the clock: it moves it to a    *)
(* timestamp t that is after the old one and after all the node knows.     *)
LEMMA KnownStep ==
  ASSUME CausalityInv, NEW n \in Node, NEW t \in Timestamp,
         After(t, clock[n]), NEW k \in known[n]
  PROVE  After(t, k) /\ GreaterOrEqual(t, k)
<1>1. clock[n] \in Timestamp /\ k \in Timestamp
  BY Zenon DEF CausalityInv, TypeOK
<1>2. GreaterOrEqual(clock[n], k)
  BY Zenon DEF CausalityInv, KnownBehindClock
<1> QED BY <1>1, <1>2, AfterTransitive, AfterIsGreaterOrEqual, Zenon

LEMMA CausalityStep ==
  ASSUME MaxTicks <= Int32Max, CausalityInv, [Next]_vars
  PROVE  CausalityInv'
<1> USE ClocksAssumption, Int32MaxAssumption
<1>0. TypeOK /\ TypeOK'
  BY TypeStep, Zenon DEF CausalityInv
<1>1. ASSUME NEW n \in Node, NEW w \in Wall, LocalEvent(n, w)
      PROVE  CausalityInv'
  <2> DEFINE t == Now(clock[n], w)
             m == [from |-> n, ts |-> t, past |-> known[n]]
  <2>1. /\ w \in Nat /\ clock[n] \in Timestamp
        /\ ticks \in Nat /\ ticks' = ticks + 1
        /\ clock[n].l \in 0..Int32Max - 1 /\ clock[n].l \in 0..ticks
    BY <1>0, <1>1 DEF CausalityInv, LogicalBounded, LocalEvent, ReadWall, TypeOK
  <2>2. t \in Timestamp /\ After(t, clock[n]) /\ t.l \in 0..clock[n].l + 1
    BY <2>1, NowAdvances, Zenon
  <2>3. t.l \in 0..ticks'
    BY <2>1, <2>2
  <2> HIDE DEF t
  <2>4. /\ clock' = [clock EXCEPT ![n] = t]
        /\ sent' = sent \cup {m}
        /\ known' = [known EXCEPT ![n] = @ \cup {t}]
    BY <1>1, Zenon DEF LocalEvent, t
  <2>5. LogicalBounded'
    BY <1>0, <2>1, <2>3, <2>4 DEF CausalityInv, LogicalBounded, TypeOK
  <2>6. KnownBehindClock'
    <3> SUFFICES ASSUME NEW i \in Node, NEW k \in known'[i]
                 PROVE  GreaterOrEqual(clock'[i], k)
      BY Zenon DEF KnownBehindClock
    <3>1. CASE i # n
      BY <1>0, <2>4, <3>1, Zenon DEF CausalityInv, KnownBehindClock, TypeOK
    <3>2. CASE i = n /\ k \in known[n]
      BY <1>0, <2>2, <2>4, <3>2, KnownStep, Zenon DEF TypeOK
    <3>3. CASE i = n /\ k = t
      BY <1>0, <2>2, <2>4, <3>3 DEF TypeOK, GreaterOrEqual, Timestamp
    <3> QED BY <1>0, <2>4, <3>1, <3>2, <3>3, Zenon DEF TypeOK
  <2>7. Causality'
    BY <2>2, <2>4, KnownStep DEF CausalityInv, Causality
  <2> QED BY <1>0, <2>5, <2>6, <2>7, Zenon DEF CausalityInv
<1>2. ASSUME NEW n \in Node, NEW w \in Wall, NEW m \in sent, Receive(n, w, m)
      PROVE  CausalityInv'
  <2> DEFINE t == Update(clock[n], w, m.ts)
  <2>1. /\ w \in Nat /\ clock[n] \in Timestamp /\ m.ts \in Timestamp
        /\ m.past \subseteq Timestamp
        /\ ticks \in Nat /\ ticks' = ticks + 1
        /\ clock[n].l \in 0..Int32Max - 1 /\ clock[n].l \in 0..ticks
        /\ m.ts.l \in 0..Int32Max - 1 /\ m.ts.l \in 0..ticks
    BY <1>0, <1>2
    DEF CausalityInv, LogicalBounded, Receive, ReadWall, TypeOK, Message
  <2>2. /\ t \in Timestamp /\ After(t, clock[n]) /\ After(t, m.ts)
        /\ t.l \in 0..Larger(clock[n].l, m.ts.l) + 1
    BY <2>1, UpdateAdvances, Zenon
  <2>3. t.l \in 0..ticks'
    BY <2>1, <2>2 DEF Larger
  <2> HIDE DEF t
  <2>4. /\ clock' = [clock EXCEPT ![n] = t]
        /\ sent' = sent
        /\ known' = [known EXCEPT ![n] = @ \cup m.past \cup {m.ts}]
    BY <1>2, Zenon DEF Receive, t
  <2>5. LogicalBounded'
    BY <1>0, <2>1, <2>3, <2>4 DEF CausalityInv, LogicalBounded, TypeOK
  <2>6. KnownBehindClock'
    <3> SUFFICES ASSUME NEW i \in Node, NEW k \in known'[i]
                 PROVE  GreaterOrEqual(clock'[i], k)
      BY Zenon DEF KnownBehindClock
    <3>1. CASE i # n
      BY <1>0, <2>4, <3>1, Zenon DEF CausalityInv, KnownBehindClock, TypeOK
    <3>2. CASE i = n /\ k \in known[n]
      BY <1>0, <2>2, <2>4, <3>2, KnownStep, Zenon DEF TypeOK
    <3>3. CASE i = n /\ k = m.ts
      BY <1>0, <2>1, <2>2, <2>4, <3>3, AfterIsGreaterOrEqual, Zenon DEF TypeOK
    <3>4. CASE i = n /\ k \in m.past
      <4>1. After(m.ts, k)
        BY <3>4, Zenon DEF CausalityInv, Causality
      <4>2. GreaterOrEqual(m.ts, k) /\ k \in Timestamp
        BY <2>1, <3>4, <4>1, AfterIsGreaterOrEqual, Zenon
      <4>3. GreaterOrEqual(t, k)
        BY <2>1, <2>2, <4>2, AfterTransitive, AfterIsGreaterOrEqual, Zenon
      <4> QED BY <1>0, <2>4, <3>4, <4>3, Zenon DEF TypeOK
    <3> QED BY <1>0, <2>4, <3>1, <3>2, <3>3, <3>4, Zenon DEF TypeOK
  <2>7. Causality'
    BY <2>4, Zenon DEF CausalityInv, Causality
  <2> QED BY <1>0, <2>5, <2>6, <2>7, Zenon DEF CausalityInv
<1>3. ASSUME NEW n \in Node, NEW w \in Wall, NEW m \in sent, Refuse(n, w, m)
      PROVE  CausalityInv'
  BY <1>0, <1>3 DEF CausalityInv, LogicalBounded, KnownBehindClock, Causality,
                    Refuse, ReadWall, TypeOK
<1>4. ASSUME NEW n \in Node, NEW offset \in Offsets, SetMaxOffset(n, offset)
      PROVE  CausalityInv'
  BY <1>0, <1>4, Zenon DEF CausalityInv, LogicalBounded, KnownBehindClock, Causality,
                    SetMaxOffset
<1>5. ASSUME NEW n \in Node, NEW w \in Wall, Restart(n, w)
      PROVE  CausalityInv'
  <2>1. /\ clock' = [clock EXCEPT ![n] = [p |-> w, l |-> 0]]
        /\ known' = [known EXCEPT ![n] = {}]
        /\ sent' = sent /\ ticks \in Nat /\ ticks' = ticks + 1
    BY <1>0, <1>5 DEF Restart, TypeOK
  <2>2. LogicalBounded'
    BY <1>0, <2>1 DEF CausalityInv, LogicalBounded, TypeOK
  <2>3. KnownBehindClock' /\ Causality'
    BY <1>0, <2>1, Zenon DEF CausalityInv, KnownBehindClock, Causality, TypeOK
  <2> QED BY <1>0, <2>2, <2>3, Zenon DEF CausalityInv
<1>6. CASE UNCHANGED vars
  BY <1>0, <1>6, Zenon DEF CausalityInv, LogicalBounded, KnownBehindClock, Causality,
                    vars
<1> QED BY <1>1, <1>2, <1>3, <1>4, <1>5, <1>6, Zenon DEF Next

(* A write's timestamp is strictly greater than the timestamps of all the  *)
(* writes that happened before it anywhere in the cluster, on its own node *)
(* since it was started.                                                   *)
THEOREM CausalityHolds ==
  ASSUME MaxTicks <= Int32Max
  PROVE  Spec => []Causality
<1>1. CausalityInv /\ [Next]_vars => CausalityInv'
  BY CausalityStep, Zenon
<1>2. CausalityInv => Causality
  BY Zenon DEF CausalityInv
<1> QED BY CausalityInit, <1>1, <1>2, PTL DEF Spec

(* Now and an accepted Update move the clock strictly forward.             *)
LEMMA TickAdvances ==
  ASSUME MaxTicks <= Int32Max, CausalityInv, NEW n \in Node, Ticks(n)
  PROVE  After(clock'[n], clock[n])
<1> USE ClocksAssumption, Int32MaxAssumption
<1>0. TypeOK
  BY Zenon DEF CausalityInv
<1>1. ASSUME NEW w \in Wall, LocalEvent(n, w)
      PROVE  After(clock'[n], clock[n])
  <2>1. w \in Nat /\ clock[n] \in Timestamp /\ clock[n].l \in 0..Int32Max - 1
    BY <1>0, <1>1 DEF CausalityInv, LogicalBounded, LocalEvent, ReadWall, TypeOK
  <2>2. After(Now(clock[n], w), clock[n])
    BY <2>1, NowAdvances, Zenon
  <2> QED BY <1>0, <1>1, <2>2, Zenon DEF LocalEvent, TypeOK
<1>2. ASSUME NEW w \in Wall, NEW m \in sent, Receive(n, w, m)
      PROVE  After(clock'[n], clock[n])
  <2>1. /\ w \in Nat /\ clock[n] \in Timestamp /\ m.ts \in Timestamp
        /\ clock[n].l \in 0..Int32Max - 1 /\ m.ts.l \in 0..Int32Max - 1
    BY <1>0, <1>2
    DEF CausalityInv, LogicalBounded, Receive, ReadWall, TypeOK, Message
  <2>2. After(Update(clock[n], w, m.ts), clock[n])
    BY <2>1, UpdateAdvances, Zenon
  <2> QED BY <1>0, <1>2, <2>2, Zenon DEF Receive, TypeOK
<1> QED BY <1>1, <1>2, Zenon DEF Ticks

(* Nothing but a Now, an accepted Update and a restart moves a clock.      *)
LEMMA OnlyTicksMove ==
  ASSUME TypeOK, [Next]_vars, NEW n \in Node, clock'[n] # clock[n]
  PROVE  Ticks(n) \/ \E w \in Wall : Restart(n, w)
<1>1. ASSUME NEW i \in Node, NEW w \in Wall, LocalEvent(i, w) PROVE Ticks(n)
  <2>1. i = n
    BY <1>1, Zenon DEF LocalEvent, TypeOK
  <2> QED BY <1>1, <2>1, Zenon DEF Ticks
<1>2. ASSUME NEW i \in Node, NEW w \in Wall, NEW m \in sent, Receive(i, w, m)
      PROVE  Ticks(n)
  <2>1. i = n
    BY <1>2, Zenon DEF Receive, TypeOK
  <2> QED BY <1>2, <2>1, Zenon DEF Ticks
<1>3. ASSUME NEW i \in Node, NEW w \in Wall, Restart(i, w)
      PROVE  \E x \in Wall : Restart(n, x)
  <2>1. i = n
    BY <1>3, Zenon DEF Restart, TypeOK
  <2> QED BY <1>3, <2>1, Zenon
<1>4. \A i \in Node, w \in Wall, m \in sent : ~Refuse(i, w, m)
  BY Zenon DEF Refuse
<1>5. \A i \in Node, offset \in Offsets : ~SetMaxOffset(i, offset)
  BY Zenon DEF SetMaxOffset
<1>6. ~UNCHANGED vars
  BY Zenon DEF vars
<1> QED BY <1>1, <1>2, <1>3, <1>4, <1>5, <1>6, Zenon DEF Next

(* Every Now and every accepted Update moves the clock strictly forward,   *)
(* even when the wall clock goes back, and only a restart moves it in any  *)
(* other way.                                                              *)
THEOREM ClocksAdvance ==
  ASSUME MaxTicks <= Int32Max
  PROVE  Spec => ClockAdvances
<1>1. CausalityInv /\ [Next]_vars => CausalityInv'
  BY CausalityStep, Zenon
<1>2. CausalityInv /\ [Next]_vars
        => [\A n \in Node :
              /\ Ticks(n) => After(clock'[n], clock[n])
              /\ clock'[n] # clock[n]
                   => Ticks(n) \/ \E w \in Wall : Restart(n, w)]_vars
  BY TickAdvances, OnlyTicksMove, Zenon DEF CausalityInv
<1> QED BY CausalityInit, <1>1, <1>2, PTL DEF Spec, ClockAdvances
=============================================================================
