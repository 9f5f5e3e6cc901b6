--------------------------- MODULE WindowsProofs ----------------------------
(***************************************************************************)
(* Proofs about the sliding windows of Windows, for any number of nodes,   *)
(* concurrent calls and deliveries.  The elements of a list are attributed *)
(* to events, one to one; the first parts are about the list operations    *)
(* and what they do to such an attribution.                                *)
(***************************************************************************)
EXTENDS Windows, FiniteSetTheorems, SequenceTheorems, WellFoundedInduction, TLAPS

(***************************************************************************)
(* Lists                                                                   *)
(***************************************************************************)
(* A list of timestamps, as a function of the places.                      *)
LEMMA ListType ==
  ASSUME NEW win \in Seq(Nat)
  PROVE  /\ Len(win) \in Nat /\ DOMAIN win = 1..Len(win)
         /\ \A i \in 1..Len(win) : win[i] \in Nat
BY LenProperties, ElementOfSeq

(* The list without its first k elements.                                  *)
LEMMA WithoutFront ==
  ASSUME NEW win \in Seq(Nat), NEW k \in 0..Len(win)
  PROVE  /\ SubSeq(win, k + 1, Len(win)) \in Seq(Nat)
         /\ Len(SubSeq(win, k + 1, Len(win))) = Len(win) - k
         /\ \A i \in 1..Len(win) - k : SubSeq(win, k + 1, Len(win))[i] = win[i + k]
<1> DEFINE n == Len(win)
           m == k + 1
<1>1. n \in Nat /\ \A i \in 1..n : win[i] \in Nat
  BY ListType
<1> HIDE DEF n
<1>2. k \in 0..n
  BY DEF n
<1>3. m \in Int /\ n \in Int /\ m >= 1
  BY <1>1, <1>2
<1>4. \A i \in m..n : win[i] \in Nat
  BY <1>1, <1>3
<1> HIDE DEF m
<1>5. /\ SubSeq(win, m, n) \in Seq(Nat)
      /\ Len(SubSeq(win, m, n)) = IF m <= n THEN n - m + 1 ELSE 0
      /\ \A i \in 1..n - m + 1 : SubSeq(win, m, n)[i] = win[m + i - 1]
  BY <1>3, <1>4, SubSeqProperties
<1>6. (IF m <= n THEN n - m + 1 ELSE 0) = n - k /\ n - m + 1 = n - k
  BY <1>1, <1>2 DEF m
<1>7. \A i \in 1..n - k : m + i - 1 = i + k
  BY <1>1, <1>2 DEF m
<1>8. \A i \in 1..n - k : SubSeq(win, m, n)[i] = win[i + k]
  BY <1>5, <1>6, <1>7, Zenon
<1> QED BY <1>5, <1>6, <1>8, Zenon DEF m, n

(* The list with ts put in at place idx.                                   *)
LEMMA PutIn ==
  ASSUME NEW win \in Seq(Nat), NEW idx \in 1..Len(win) + 1, NEW ts \in Nat
  PROVE  /\ InsertedAt(win, idx, ts) \in Seq(Nat)
         /\ Len(InsertedAt(win, idx, ts)) = Len(win) + 1
         /\ \A i \in 1..idx - 1 : InsertedAt(win, idx, ts)[i] = win[i]
         /\ InsertedAt(win, idx, ts)[idx] = ts
         /\ \A i \in idx + 1..Len(win) + 1 : InsertedAt(win, idx, ts)[i] = win[i - 1]
<1> DEFINE n == Len(win)
           front == SubSeq(win, 1, idx - 1)
           back == SubSeq(win, idx, n)
           part == front \o <<ts>>
<1>1. n \in Nat /\ \A i \in 1..n : win[i] \in Nat
  BY ListType
<1>2. idx \in 1..n + 1
  OBVIOUS
<1>3. InsertedAt(win, idx, ts) = part \o back
  BY Zenon DEF InsertedAt
<1> HIDE DEF n
<1>4. /\ front \in Seq(Nat) /\ Len(front) = idx - 1
      /\ \A i \in 1..idx - 1 : front[i] = win[i]
  <2>1. 1 \in Int /\ idx - 1 \in Int /\ \A i \in 1..idx - 1 : win[i] \in Nat
    BY <1>1, <1>2
  <2> HIDE DEF front
  <2>2. /\ SubSeq(win, 1, idx - 1) \in Seq(Nat)
        /\ Len(SubSeq(win, 1, idx - 1)) = IF 1 <= idx - 1 THEN (idx - 1) - 1 + 1 ELSE 0
        /\ \A i \in 1..(idx - 1) - 1 + 1 : SubSeq(win, 1, idx - 1)[i] = win[1 + i - 1]
    BY <2>1, SubSeqProperties
  <2>3. /\ (IF 1 <= idx - 1 THEN (idx - 1) - 1 + 1 ELSE 0) = idx - 1
        /\ (idx - 1) - 1 + 1 = idx - 1 /\ \A i \in 1..idx - 1 : 1 + i - 1 = i
    BY <1>1, <1>2
  <2> QED BY <2>2, <2>3, Zenon DEF front
<1>5. /\ back \in Seq(Nat) /\ Len(back) = n - idx + 1
      /\ \A i \in 1..n - idx + 1 : back[i] = win[idx + i - 1]
  <2>1. idx \in Int /\ n \in Int /\ \A i \in idx..n : win[i] \in Nat
    BY <1>1, <1>2
  <2> HIDE DEF back
  <2>2. /\ SubSeq(win, idx, n) \in Seq(Nat)
        /\ Len(SubSeq(win, idx, n)) = IF idx <= n THEN n - idx + 1 ELSE 0
        /\ \A i \in 1..n - idx + 1 : SubSeq(win, idx, n)[i] = win[idx + i - 1]
    BY <2>1, SubSeqProperties
  <2>3. (IF idx <= n THEN n - idx + 1 ELSE 0) = n - idx + 1
    BY <1>1, <1>2
  <2> QED BY <2>2, <2>3, Zenon DEF back
<1> HIDE DEF front, back
<1>6. <<ts>> \in Seq(Nat) /\ Len(<<ts>>) = 1 /\ <<ts>>[1] = ts
  OBVIOUS
<1>7. /\ part \in Seq(Nat) /\ Len(part) = idx - 1 + 1
      /\ \A i \in 1..idx - 1 + 1 : part[i] = IF i <= idx - 1 THEN front[i]
                                            ELSE <<ts>>[i - (idx - 1)]
  BY <1>4, <1>6, ConcatProperties
<1>8. Len(part) = idx /\ part[idx] = ts /\ \A i \in 1..idx - 1 : part[i] = win[i]
  <2>1. idx - 1 + 1 = idx /\ idx \in 1..idx - 1 + 1 /\ ~ (idx <= idx - 1) /\ idx - (idx - 1) = 1
    BY <1>1, <1>2
  <2>2. \A i \in 1..idx - 1 : i \in 1..idx - 1 + 1 /\ i <= idx - 1
    BY <1>1, <1>2
  <2>3. part[idx] = <<ts>>[idx - (idx - 1)]
    BY <1>7, <2>1, Zenon
  <2> QED BY <1>4, <1>6, <1>7, <2>1, <2>2, <2>3, Zenon
<1> HIDE DEF part
<1>9. /\ part \o back \in Seq(Nat) /\ Len(part \o back) = idx + (n - idx + 1)
      /\ \A i \in 1..idx + (n - idx + 1) :
           (part \o back)[i] = IF i <= idx THEN part[i] ELSE back[i - idx]
  <2>1. part \in Seq(Nat) /\ back \in Seq(Nat) /\ Len(part) = idx /\ Len(back) = n - idx + 1
    BY <1>5, <1>7, <1>8, Zenon
  <2>2. /\ part \o back \in Seq(Nat) /\ Len(part \o back) = Len(part) + Len(back)
        /\ \A i \in 1..Len(part) + Len(back) :
             (part \o back)[i] = IF i <= Len(part) THEN part[i] ELSE back[i - Len(part)]
    BY <2>1, ConcatProperties, Zenon
  <2> QED BY <2>1, <2>2, Zenon
<1>10. /\ idx + (n - idx + 1) = n + 1 /\ idx \in 1..n + 1 /\ idx <= idx
       /\ \A i \in 1..idx - 1 : i \in 1..n + 1 /\ i <= idx
       /\ \A i \in idx + 1..n + 1 : /\ i \in 1..n + 1 /\ ~ (i <= idx)
                                    /\ i - idx \in 1..n - idx + 1
                                    /\ idx + (i - idx) - 1 = i - 1
  BY <1>1, <1>2
<1>11. \A i \in idx + 1..n + 1 : (part \o back)[i] = win[i - 1]
  <2> SUFFICES ASSUME NEW i \in idx + 1..n + 1 PROVE (part \o back)[i] = win[i - 1]
    OBVIOUS
  <2>1. (part \o back)[i] = back[i - idx]
    BY <1>9, <1>10, Zenon
  <2>2. back[i - idx] = win[idx + (i - idx) - 1]
    BY <1>5, <1>10, Zenon
  <2> QED BY <1>10, <2>1, <2>2, Zenon
<1>12. \A i \in 1..idx - 1 : (part \o back)[i] = win[i]
  BY <1>8, <1>9, <1>10, Zenon
<1>13. (part \o back)[idx] = ts
  BY <1>8, <1>9, <1>10, Zenon
<1> QED BY <1>3, <1>9, <1>10, <1>11, <1>12, <1>13, Zenon DEF n

(* A set of numbers that is not empty has a least one.                     *)
LEMMA Least ==
  ASSUME NEW S \in SUBSET Nat, S # {}
  PROVE  Min(S) \in S /\ \A y \in S : Min(S) <= y
<1>1. \E x \in S : \A y \in S : ~ (<<y, x>> \in OpToRel(<, Nat))
  BY NatLessThanWellFounded, WFMin, Zenon
<1>2. \A x, y \in Nat : y < x => <<y, x>> \in OpToRel(<, Nat)
  BY DEF OpToRel
<1>3. \E x \in S : \A y \in S : ~ (y < x)
  BY <1>1, <1>2, Zenon
<1>4. \A x, y \in Nat : ~ (y < x) => x <= y
  OBVIOUS
<1>5. \E x \in S : \A y \in S : x <= y
  BY <1>3, <1>4, Zenon
<1> QED BY <1>5, Zenon DEF Min

(***************************************************************************)
(* Lists whose elements stand for events                                   *)
(***************************************************************************)
(* An attribution allows for fewer events to be sent.                      *)
LEMMA StandsLess ==
  ASSUME NEW win, NEW foreign, NEW less, NEW a, StandsFor(win, foreign, a),
         less \subseteq foreign
  PROVE  StandsFor(win, less, a)
BY Zenon DEF StandsFor

(* A call's event is put at the end.                                       *)
LEMMA StandsAppend ==
  ASSUME NEW win \in Seq(Nat), NEW known, NEW foreign, NEW a \in [1..Len(win) -> known],
         StandsFor(win, foreign, a), NEW e, e.ts.p \in Nat, e \notin known, e \notin foreign
  PROVE  /\ Append(win, e.ts.p) \in Seq(Nat)
         /\ \E b \in [1..Len(Append(win, e.ts.p)) -> known \cup {e}] :
              StandsFor(Append(win, e.ts.p), foreign, b)
<1> DEFINE n == Len(win)
           new == Append(win, e.ts.p)
           b == [i \in 1..n + 1 |-> IF i = n + 1 THEN e ELSE a[i]]
<1>1. n \in Nat /\ new \in Seq(Nat) /\ Len(new) = n + 1
      /\ new[n + 1] = e.ts.p /\ \A i \in 1..n : new[i] = win[i]
  BY LenProperties, AppendProperties
<1>2. a \in [1..n -> known]
  OBVIOUS
<1>3. /\ \A i, j \in 1..n : a[i] = a[j] => i = j
      /\ \A i \in 1..n : a[i].ts.p = win[i] /\ (Hidden(win, i) => a[i] \notin foreign)
  BY Zenon DEF StandsFor
<1> HIDE DEF n, new
<1>4. \A i \in 1..n + 1 : i = n + 1 \/ i \in 1..n
  BY <1>1
<1>5. n + 1 \in 1..n + 1 /\ \A i \in 1..n : i # n + 1 /\ i \in 1..n + 1
  BY <1>1
<1>6. b[n + 1] = e /\ \A i \in 1..n : b[i] = a[i]
  BY <1>5, Zenon
<1>7. b \in [1..n + 1 -> known \cup {e}]
  BY <1>2, <1>4, Zenon
<1> HIDE DEF b
<1>8. \A i, j \in 1..n + 1 : b[i] = b[j] => i = j
  <2> SUFFICES ASSUME NEW i \in 1..n + 1, NEW j \in 1..n + 1, b[i] = b[j] PROVE i = j
    OBVIOUS
  <2>1. \A k \in 1..n : a[k] # e
    BY <1>2, Zenon
  <2> QED BY <1>3, <1>4, <1>6, <2>1, Zenon
<1>9. ASSUME NEW i \in 1..n + 1
      PROVE  b[i].ts.p = new[i] /\ (Hidden(new, i) => b[i] \notin foreign)
  <2>1. CASE i = n + 1
    BY <1>1, <1>6, <2>1, Zenon
  <2>2. CASE i \in 1..n
    <3>1. 1..i - 1 \subseteq 1..n
      BY <1>1, <2>2
    <3>2. Hidden(new, i) => Hidden(win, i)
      BY <1>1, <2>2, <3>1, Zenon DEF Hidden
    <3> QED BY <1>1, <1>3, <1>6, <2>2, <3>2, Zenon
  <2> QED BY <1>4, <2>1, <2>2, Zenon
<1>10. StandsFor(new, foreign, b)
  BY <1>1, <1>8, <1>9, Zenon DEF StandsFor
<1> QED BY <1>1, <1>7, <1>10, Zenon DEF new

(* The front is cut off.                                                   *)
LEMMA StandsCut ==
  ASSUME NEW win \in Seq(Nat), NEW known, NEW foreign, NEW a \in [1..Len(win) -> known],
         StandsFor(win, foreign, a), NEW k \in 0..Len(win)
  PROVE  /\ SubSeq(win, k + 1, Len(win)) \in Seq(Nat)
         /\ \E b \in [1..Len(SubSeq(win, k + 1, Len(win))) -> known] :
              StandsFor(SubSeq(win, k + 1, Len(win)), foreign, b)
<1> DEFINE n == Len(win)
           new == SubSeq(win, k + 1, Len(win))
           b == [i \in 1..n - k |-> a[i + k]]
<1>1. n \in Nat /\ new \in Seq(Nat) /\ Len(new) = n - k
      /\ \A i \in 1..n - k : new[i] = win[i + k]
  BY LenProperties, WithoutFront, Zenon
<1>2. a \in [1..n -> known] /\ k \in 0..n
  OBVIOUS
<1>3. /\ \A i, j \in 1..n : a[i] = a[j] => i = j
      /\ \A i \in 1..n : a[i].ts.p = win[i] /\ (Hidden(win, i) => a[i] \notin foreign)
  BY Zenon DEF StandsFor
<1> HIDE DEF n, new
<1>4. \A i \in 1..n - k : i + k \in 1..n
  BY <1>1, <1>2
<1>5. \A i, j \in 1..n - k : i + k = j + k => i = j
  BY <1>1, <1>2
<1>6. b \in [1..n - k -> known] /\ \A i \in 1..n - k : b[i] = a[i + k]
  BY <1>2, <1>4, Zenon
<1> HIDE DEF b
<1>7. \A i, j \in 1..n - k : b[i] = b[j] => i = j
  BY <1>3, <1>4, <1>5, <1>6, Zenon
<1>8. ASSUME NEW i \in 1..n - k
      PROVE  b[i].ts.p = new[i] /\ (Hidden(new, i) => b[i] \notin foreign)
  <2>1. ASSUME NEW j \in 1..i - 1, new[j] > new[i] PROVE Hidden(win, i + k)
    <3>1. j \in 1..n - k /\ j + k \in 1..(i + k) - 1
      BY <1>1, <1>2
    <3> QED BY <1>1, <2>1, <3>1, Zenon DEF Hidden
  <2>2. Hidden(new, i) => Hidden(win, i + k)
    BY <2>1, Zenon DEF Hidden
  <2> QED BY <1>1, <1>3, <1>4, <1>6, <2>2, Zenon
<1>9. StandsFor(new, foreign, b)
  BY <1>1, <1>7, <1>8, Zenon DEF StandsFor
<1> QED BY <1>1, <1>6, <1>9, Zenon DEF new

(* The place at which addWindowTimestamp puts ts: the elements before it   *)
(* are not later than ts, the one that is there is.                        *)
LEMMA PlaceFacts ==
  ASSUME NEW win \in Seq(Nat), NEW ts \in Nat
  PROVE  \E idx \in 1..Len(win) + 1 :
           /\ \A i \in 1..idx - 1 : i \in 1..Len(win) /\ ~ (win[i] > ts)
           /\ idx \in 1..Len(win) => win[idx] > ts
           /\ Inserted(win, ts) = IF \E i \in 1..idx - 1 : win[i] = ts THEN win
                                  ELSE InsertedAt(win, idx, ts)
<1> DEFINE later == {i \in 1..Len(win) : win[i] > ts}
           idx == IF later = {} THEN Len(win) + 1 ELSE Min(later)
<1>1. Len(win) \in Nat
  BY LenProperties
<1>2. Inserted(win, ts) = IF \E i \in 1..idx - 1 : win[i] = ts THEN win
                          ELSE InsertedAt(win, idx, ts)
  BY Zenon DEF Inserted
<1>3. CASE later = {}
  <2>1. idx = Len(win) + 1
    BY <1>3, Zenon
  <2>2. \A i \in 1..Len(win) : ~ (win[i] > ts)
    BY <1>3, Zenon
  <2> HIDE DEF idx, later
  <2>3. \A i \in 1..idx - 1 : i \in 1..Len(win)
    BY <1>1, <2>1
  <2>4. idx \in 1..Len(win) + 1 /\ idx \notin 1..Len(win)
    BY <1>1, <2>1
  <2> QED BY <1>2, <2>2, <2>3, <2>4, Zenon
<1>4. CASE later # {}
  <2>1. later \in SUBSET Nat /\ later \subseteq 1..Len(win)
    BY <1>1
  <2>2. idx \in later /\ \A y \in later : idx <= y
    <3> HIDE DEF later
    <3> QED BY <1>4, <2>1, Least, Zenon
  <2>3. win[idx] > ts
    <3> HIDE DEF idx
    <3> QED BY <2>2, Zenon
  <2> HIDE DEF idx
  <2>4. idx \in 1..Len(win)
    BY <2>1, <2>2, Zenon
  <2>5. \A i \in 1..idx - 1 : i \in 1..Len(win) /\ ~ (idx <= i)
    BY <1>1, <2>4
  <2>6. \A i \in 1..idx - 1 : i \in 1..Len(win) /\ ~ (win[i] > ts)
    BY <2>2, <2>5, Zenon
  <2>7. idx \in 1..Len(win) + 1
    BY <1>1, <2>4
  <2> QED BY <1>2, <2>3, <2>6, <2>7, Zenon
<1> QED BY <1>3, <1>4

(* A peer's event is put in by addWindowTimestamp, which may look for it   *)
(* in vain only if no element stands for it.                               *)
LEMMA StandsInsert ==
  ASSUME NEW win \in Seq(Nat), NEW known, NEW foreign, NEW a \in [1..Len(win) -> known],
         StandsFor(win, foreign, a), NEW e \in foreign, e.ts.p \in Nat
  PROVE  /\ Inserted(win, e.ts.p) \in Seq(Nat)
         /\ \E b \in [1..Len(Inserted(win, e.ts.p)) -> known \cup {e}] :
              StandsFor(Inserted(win, e.ts.p), foreign, b)
<1> DEFINE n == Len(win)
           ts == e.ts.p
<1>1. PICK idx \in 1..n + 1 :
        /\ \A i \in 1..idx - 1 : i \in 1..n /\ ~ (win[i] > ts)
        /\ idx \in 1..n => win[idx] > ts
        /\ Inserted(win, ts) = IF \E i \in 1..idx - 1 : win[i] = ts THEN win
                               ELSE InsertedAt(win, idx, ts)
  BY PlaceFacts, Zenon
<1>2. n \in Nat /\ \A i \in 1..n : win[i] \in Nat
  BY ListType
<1>3. /\ \A i, j \in 1..n : a[i] = a[j] => i = j
      /\ \A i \in 1..n : a[i].ts.p = win[i] /\ (Hidden(win, i) => a[i] \notin foreign)
  BY Zenon DEF StandsFor
<1>4. CASE \E i \in 1..idx - 1 : win[i] = ts
  <2>1. Inserted(win, ts) = win
    BY <1>1, <1>4, Zenon
  <2>2. a \in [1..Len(win) -> known \cup {e}]
    BY Zenon
  <2> QED BY <2>1, <2>2, Zenon
<1>5. CASE ~ \E i \in 1..idx - 1 : win[i] = ts
  <2> DEFINE new == InsertedAt(win, idx, ts)
             b == [i \in 1..n + 1 |-> IF i = idx THEN e
                                      ELSE IF i < idx THEN a[i] ELSE a[i - 1]]
  <2>1. Inserted(win, ts) = new
    BY <1>1, <1>5, Zenon
  <2>2. /\ new \in Seq(Nat) /\ Len(new) = n + 1 /\ new[idx] = ts
        /\ \A i \in 1..idx - 1 : new[i] = win[i]
        /\ \A i \in idx + 1..n + 1 : new[i] = win[i - 1]
    <3>1. \A t \in Nat :
            /\ InsertedAt(win, idx, t) \in Seq(Nat)
            /\ Len(InsertedAt(win, idx, t)) = Len(win) + 1
            /\ \A i \in 1..idx - 1 : InsertedAt(win, idx, t)[i] = win[i]
            /\ InsertedAt(win, idx, t)[idx] = t
            /\ \A i \in idx + 1..Len(win) + 1 : InsertedAt(win, idx, t)[i] = win[i - 1]
      BY PutIn, Zenon
    <3>2. ts \in Nat
      OBVIOUS
    <3> HIDE DEF ts
    <3> QED BY <3>1, <3>2, Zenon
  <2>3. a \in [1..n -> known] /\ ts \in Nat
    OBVIOUS
  <2> HIDE DEF n, ts, new
  <2>4. \A i \in 1..n + 1 : i = idx \/ i \in 1..idx - 1 \/ i \in idx + 1..n + 1
    BY <1>2
  <2>5. \A i \in 1..idx - 1 : i \in 1..n /\ i \in 1..n + 1 /\ i # idx /\ i < idx
    BY <1>2
  <2>6. \A i \in idx + 1..n + 1 : i - 1 \in 1..n /\ i \in 1..n + 1 /\ i # idx /\ ~ (i < idx)
    BY <1>2
  <2>7. /\ b[idx] = e /\ \A i \in 1..idx - 1 : b[i] = a[i]
        /\ \A i \in idx + 1..n + 1 : b[i] = a[i - 1]
    BY <2>5, <2>6, Zenon
  <2>8. b \in [1..n + 1 -> known \cup {e}]
    <3>1. \A i \in 1..n + 1 : b[i] \in known \cup {e}
      <4> HIDE DEF b
      <4> QED BY <2>3, <2>4, <2>5, <2>6, <2>7, Zenon
    <3> QED BY <3>1, Zenon
  <2> HIDE DEF b
  (* Nothing stands for e.                                                 *)
  <2>9. ASSUME NEW i \in 1..n, a[i] = e PROVE FALSE
    <3>1. win[i] = ts
      BY <1>3, <2>9, Zenon DEF ts
    <3>2. i \notin 1..idx - 1
      BY <1>5, <3>1, Zenon DEF ts
    <3>3. i # idx
      <4> SUFFICES ASSUME i = idx PROVE FALSE
        OBVIOUS
      <4>1. ts > ts
        BY <1>1, <3>1, Zenon DEF n, ts
      <4> QED BY <2>3, <4>1
    <3>4. idx \in 1..i - 1 /\ idx \in 1..n
      BY <1>2, <3>2, <3>3
    <3>5. win[idx] > win[i]
      BY <1>1, <3>1, <3>4, Zenon DEF n, ts
    <3> QED BY <1>3, <2>9, <3>4, <3>5, Zenon DEF Hidden
  <2>10. \A i, j \in 1..n + 1 : b[i] = b[j] => i = j
    <3> SUFFICES ASSUME NEW i \in 1..n + 1, NEW j \in 1..n + 1, b[i] = b[j] PROVE i = j
      OBVIOUS
    <3> DEFINE old(x) == IF x \in 1..idx - 1 THEN x ELSE x - 1
    <3>1. \A x \in 1..n + 1 : x # idx => old(x) \in 1..n /\ b[x] = a[old(x)]
      <4> SUFFICES ASSUME NEW x \in 1..n + 1, x # idx PROVE old(x) \in 1..n /\ b[x] = a[old(x)]
        OBVIOUS
      <4>1. CASE x \in 1..idx - 1
        BY <2>5, <2>7, <4>1, Zenon
      <4>2. CASE x \notin 1..idx - 1
        BY <2>4, <2>6, <2>7, <4>2, Zenon
      <4> QED BY <4>1, <4>2
    <3>2. \A x, y \in 1..n + 1 : x # idx /\ y # idx /\ old(x) = old(y) => x = y
      BY <1>2
    <3> HIDE DEF old
    <3>3. CASE i = idx /\ j # idx
      BY <2>7, <2>9, <3>1, <3>3, Zenon
    <3>4. CASE i # idx /\ j = idx
      BY <2>7, <2>9, <3>1, <3>4, Zenon
    <3>5. CASE i # idx /\ j # idx
      <4>1. old(i) \in 1..n /\ old(j) \in 1..n /\ a[old(i)] = a[old(j)]
        BY <3>1, <3>5, Zenon
      <4>2. old(i) = old(j)
        BY <1>3, <4>1, Zenon DEF n
      <4> QED BY <3>2, <3>5, <4>2, Zenon
    <3> QED BY <3>3, <3>4, <3>5, Zenon
  <2>11. ASSUME NEW i \in 1..n + 1
         PROVE  b[i].ts.p = new[i] /\ (Hidden(new, i) => b[i] \notin foreign)
    <3>1. CASE i = idx
      <4>1. \A j \in 1..idx - 1 : ~ (new[j] > new[idx])
        BY <1>1, <2>2, Zenon DEF ts
      <4>2. ~ Hidden(new, i)
        BY <3>1, <4>1, Zenon DEF Hidden
      <4> QED BY <2>2, <2>7, <3>1, <4>2, Zenon DEF ts
    <3>2. CASE i \in 1..idx - 1
      <4>1. 1..i - 1 \subseteq 1..idx - 1
        BY <1>2, <3>2
      <4>2. Hidden(new, i) => Hidden(win, i)
        BY <2>2, <3>2, <4>1, Zenon DEF Hidden
      <4> QED BY <1>3, <2>2, <2>5, <2>7, <3>2, <4>2, Zenon DEF n
    <3>3. CASE i \in idx + 1..n + 1
      <4>1. ASSUME NEW j \in 1..i - 1, new[j] > new[i] PROVE Hidden(win, i - 1)
        <5>1. new[i] = win[i - 1] /\ i - 1 \in 1..n
          BY <2>2, <2>6, <3>3, Zenon
        <5>2. CASE j \in 1..idx - 1
          <6>1. j \in 1..(i - 1) - 1
            BY <1>2, <3>3, <5>2
          <6> QED BY <2>2, <4>1, <5>1, <5>2, <6>1, Zenon DEF Hidden
        <5>3. CASE j = idx
          <6>1. CASE i - 1 = idx
            <7>1. win[idx] > ts /\ ts > win[idx] /\ win[idx] \in Nat
              BY <1>1, <1>2, <2>2, <4>1, <5>1, <5>3, <6>1, Zenon DEF n
            <7> QED BY <2>3, <7>1
          <6>2. CASE i - 1 # idx
            <7>1. idx \in 1..(i - 1) - 1 /\ idx \in 1..n
              BY <1>2, <3>3, <6>2
            <7>2. win[idx] > ts /\ ts > win[i - 1] /\ win[idx] \in Nat /\ win[i - 1] \in Nat
              BY <1>1, <1>2, <2>2, <4>1, <5>1, <5>3, <7>1, Zenon DEF n
            <7>3. win[idx] > win[i - 1]
              BY <2>3, <7>2
            <7> QED BY <7>1, <7>3, Zenon DEF Hidden
          <6> QED BY <6>1, <6>2
        <5>4. CASE j \in idx + 1..n + 1
          <6>1. j - 1 \in 1..(i - 1) - 1
            BY <1>2, <3>3, <5>4
          <6>2. new[j] = win[j - 1]
            BY <2>2, <5>4, Zenon
          <6> QED BY <4>1, <5>1, <6>1, <6>2, Zenon DEF Hidden
        <5>5. j \in 1..n + 1
          BY <1>2, <3>3
        <5> QED BY <2>4, <5>2, <5>3, <5>4, <5>5, Zenon
      <4>2. Hidden(new, i) => Hidden(win, i - 1)
        BY <4>1, Zenon DEF Hidden
      <4>3. i - 1 \in 1..n /\ b[i] = a[i - 1] /\ new[i] = win[i - 1]
        BY <2>2, <2>6, <2>7, <3>3, Zenon
      <4>4. a[i - 1].ts.p = win[i - 1] /\ (Hidden(win, i - 1) => a[i - 1] \notin foreign)
        BY <1>3, <4>3, Zenon DEF n
      <4> QED BY <4>2, <4>3, <4>4, Zenon
    <3> QED BY <2>4, <3>1, <3>2, <3>3, Zenon
  <2>12. StandsFor(new, foreign, b)
    BY <2>2, <2>10, <2>11, Zenon DEF StandsFor
  <2> QED BY <2>1, <2>2, <2>8, <2>12, Zenon DEF ts
<1> QED BY <1>4, <1>5

(* As many elements are within a window as events, at most.                *)
LEMMA StandsCount ==
  ASSUME NEW win \in Seq(Nat), NEW known, NEW foreign, NEW a \in [1..Len(win) -> known],
         StandsFor(win, foreign, a), IsFiniteSet(known), NEW horizon
  PROVE  /\ Active(win, horizon) \in 0..Len(win)
         /\ Cardinality({e \in known : e.ts.p >= horizon}) \in Nat
         /\ Active(win, horizon) <= Cardinality({e \in known : e.ts.p >= horizon})
<1> DEFINE S == {i \in 1..Len(win) : win[i] >= horizon}
           T == {e \in known : e.ts.p >= horizon}
           f == [i \in S |-> a[i]]
<1>1. Len(win) \in Nat
  BY LenProperties
<1>2. IsFiniteSet(1..Len(win)) /\ Cardinality(1..Len(win)) = Len(win)
  <2>1. 1 \in Int /\ Len(win) \in Int
    BY <1>1
  <2>2. \A m \in Nat : IsFiniteSet(1..m) /\ Cardinality(1..m) = m
    BY FS_Interval
  <2> QED BY <1>1, <2>2, Zenon
<1>3. IsFiniteSet(S) /\ Cardinality(S) \in Nat /\ Cardinality(S) <= Len(win)
  <2>1. S \subseteq 1..Len(win)
    BY Zenon
  <2> HIDE DEF S
  <2>2. IsFiniteSet(S) /\ Cardinality(S) <= Cardinality(1..Len(win))
    BY <1>2, <2>1, FS_Subset, Zenon
  <2>3. Cardinality(S) \in Nat
    BY <2>2, FS_CardinalityType, Zenon
  <2> QED BY <1>2, <2>2, <2>3, Zenon
<1>4. IsFiniteSet(T) /\ Cardinality(T) \in Nat
  <2>1. T \subseteq known
    BY Zenon
  <2> HIDE DEF T
  <2> QED BY <2>1, FS_Subset, FS_CardinalityType, Zenon
<1>5. f \in Injection(S, T)
  <2>1. \A i \in S : a[i] \in T
    BY Zenon DEF StandsFor
  <2>2. \A i, j \in S : a[i] = a[j] => i = j
    BY Zenon DEF StandsFor
  <2> HIDE DEF S, T
  <2>3. f \in [S -> T] /\ \A i \in S : f[i] = a[i]
    BY <2>1, Zenon
  <2> HIDE DEF f
  <2>4. \A i, j \in S : f[i] = f[j] => i = j
    BY <2>2, <2>3, Zenon
  <2> QED BY <2>3, <2>4, Zenon DEF Injection, IsInjective
<1>6. Cardinality(S) <= Cardinality(T)
  <2> HIDE DEF S, T, f
  <2> QED BY <1>4, <1>5, FS_Injection, Zenon
<1>7. Cardinality(S) \in 0..Len(win)
  <2> HIDE DEF S
  <2> QED BY <1>1, <1>3
<1> QED BY <1>4, <1>6, <1>7, Zenon DEF Active

(***************************************************************************)
(* The steps                                                               *)
(***************************************************************************)

(* The clock operations return timestamps.                                 *)
LEMMA ClockTypes ==
  ASSUME NEW h \in Timestamp, NEW w \in Nat, NEW r \in Timestamp
  PROVE  Now(h, w) \in Timestamp /\ Update(h, w, r) \in Timestamp
BY Int32MaxAssumption DEF Now, Update, Inc32, Larger, Timestamp

LEMMA WallType ==
  ASSUME TypeOK, NEW n \in Node
  PROVE  Wall(n) \in Nat
<1>1. now \in 0..MaxNow /\ MaxNow \in Nat /\ Skew[n] \in Nat
  BY WindowsAssumption, Zenon DEF TypeOK
<1> QED BY <1>1 DEF Wall

LEMMA EventType ==
  ASSUME NEW e \in Event
  PROVE  e.id \in Nat /\ e.ts \in Timestamp /\ e.ts.p \in Nat
BY Zenon DEF Event, Timestamp

(* What does not touch the lists keeps them attributed.                    *)
LEMMA AttributedKept ==
  ASSUME Attributed, NEW n \in Node, windows'[n] = windows[n], events'[n] = events[n],
         Foreign(n)' \subseteq Foreign(n)
  PROVE  \E a \in [1..Len(windows'[n]) -> events'[n]] :
           StandsFor(windows'[n], Foreign(n)', a)
<1>1. PICK a \in [1..Len(windows[n]) -> events[n]] : StandsFor(windows[n], Foreign(n), a)
  BY Zenon DEF Attributed
<1>2. StandsFor(windows[n], Foreign(n)', a)
  BY <1>1, StandsLess, Zenon
<1> QED BY <1>1, <1>2, Zenon

LEMMA AttributedNext ==
  ASSUME \A n \in Node : \E a \in [1..Len(windows'[n]) -> events'[n]] :
           StandsFor(windows'[n], Foreign(n)', a)
  PROVE  Attributed'
BY Zenon DEF Attributed

(* Time passes.                                                            *)
LEMMA TickStep ==
  ASSUME WindowsInv, Tick
  PROVE  WindowsInv'
<1>1. TypeOK'
  <2>1. now' \in 0..MaxNow
    BY WindowsAssumption DEF WindowsInv, TypeOK, Tick
  <2> QED BY <2>1, Zenon DEF WindowsInv, TypeOK, Tick
<1>2. Numbered' /\ Pending' /\ NoDoubleCount'
  BY Zenon DEF WindowsInv, Tick, Numbered, Pending, NoDoubleCount
<1>3. Attributed'
  <2>1. \A n \in Node : /\ windows'[n] = windows[n] /\ events'[n] = events[n]
                        /\ Foreign(n)' \subseteq Foreign(n)
    BY Zenon DEF Tick, Foreign
  <2> QED BY <2>1, AttributedKept, AttributedNext, Zenon DEF WindowsInv
<1> QED BY <1>1, <1>2, <1>3 DEF WindowsInv

(* The janitor deletes the list.                                           *)
LEMMA PruneStep ==
  ASSUME WindowsInv, NEW n \in Node, PruneStaleWindows(n)
  PROVE  WindowsInv'
<1>0. windows \in [Node -> Seq(Nat)] /\ windows' = [windows EXCEPT ![n] = <<>>]
  BY Zenon DEF WindowsInv, TypeOK, PruneStaleWindows
<1>1. TypeOK'
  <2>1. <<>> \in Seq(Nat)
    OBVIOUS
  <2>2. windows' \in [Node -> Seq(Nat)]
    BY <1>0, <2>1, Zenon
  <2> QED BY <2>2, Zenon DEF WindowsInv, TypeOK, PruneStaleWindows
<1>2. Numbered' /\ Pending' /\ NoDoubleCount'
  BY Zenon DEF WindowsInv, PruneStaleWindows, Numbered, Pending, NoDoubleCount
<1>3. Attributed'
  <2>1. \A m \in Node : /\ events'[m] = events[m]
                        /\ Foreign(m)' \subseteq Foreign(m)
    BY Zenon DEF PruneStaleWindows, Foreign
  <2>2. \E a \in [1..Len(windows'[n]) -> events'[n]] : StandsFor(windows'[n], Foreign(n)', a)
    <3>1. windows'[n] = <<>>
      BY <1>0, Zenon
    <3>2. Len(<<>>) = 0 /\ 1..0 = {}
      OBVIOUS
    <3> DEFINE a == [i \in 1..0 |-> 0]
    <3>3. a \in [1..0 -> events'[n]]
      BY <3>2, Zenon
    <3>4. StandsFor(<<>>, Foreign(n)', a)
      BY <3>2, Zenon DEF StandsFor
    <3> QED BY <3>1, <3>2, <3>3, <3>4, Zenon
  <2>3. \A m \in Node \ {n} : windows'[m] = windows[m]
    BY <1>0, Zenon
  <2> QED BY <2>1, <2>2, <2>3, AttributedKept, AttributedNext, Zenon DEF WindowsInv
<1> QED BY <1>1, <1>2, <1>3 DEF WindowsInv

(* A call's event is new to everyone.                                      *)
LEMMA BeginStep ==
  ASSUME WindowsInv, NEW c \in Client, Begin(c)
  PROVE  WindowsInv'
<1> DEFINE n == Home[c]
           ts == Now(clock[n], Wall(n))
           e == [id |-> calls + 1, ts |-> ts]
<1>1. n \in Node /\ Wall(n) \in Nat /\ ts \in Timestamp
  <2>1. n \in Node
    BY WindowsAssumption, Zenon
  <2>2. Wall(n) \in Nat /\ clock[n] \in Timestamp
    BY <2>1, WallType, Zenon DEF WindowsInv, TypeOK
  <2> QED BY <2>1, <2>2, ClockTypes, Zenon
<1>2. calls \in Nat /\ calls + 1 \in Nat /\ calls + 1 \in 0..MaxCalls
  BY WindowsAssumption DEF WindowsInv, TypeOK, Begin
<1>3. e \in Event /\ e.id = calls + 1
  BY <1>1, <1>2, Zenon DEF Event
<1>4. /\ call' = [call EXCEPT ![c] = [pc |-> "insert", e |-> e]]
      /\ clock' = [clock EXCEPT ![n] = ts] /\ calls' = calls + 1
      /\ UNCHANGED <<now, windows, log, incoming, events, returned, applies>>
  BY Zenon DEF Begin
<1>5. /\ call'[c].pc = "insert" /\ call'[c].e = e
      /\ \A d \in Client \ {c} : call'[d] = call[d]
  BY <1>4, Zenon DEF WindowsInv, TypeOK
<1> HIDE DEF n, ts, e
<1>6. TypeOK'
  <2>1. [pc |-> "insert", e |-> e] \in [pc : {"idle", "insert", "append"}, e : Event]
    BY <1>3, Zenon
  <2>2. call' \in [Client -> [pc : {"idle", "insert", "append"}, e : Event]]
    BY <1>4, <2>1, Zenon DEF WindowsInv, TypeOK
  <2>3. clock' \in [Node -> Timestamp]
    BY <1>1, <1>4, Zenon DEF WindowsInv, TypeOK
  <2> QED BY <1>2, <1>4, <2>2, <2>3, Zenon DEF WindowsInv, TypeOK
<1>7. \A x \in Event : x.id <= calls => x.id <= calls + 1 /\ x # e
  <2>1. \A k \in Nat : k <= calls => k <= calls + 1 /\ k # calls + 1
    BY <1>2
  <2> QED BY <1>3, <2>1, EventType, Zenon
<1>8. /\ \A d \in Client : call[d].e \in Event
      /\ \A m \in Node : \A x \in log[m] \cup incoming[m] \cup events[m] : x \in Event
  BY Zenon DEF WindowsInv, TypeOK
<1>9. Numbered'
  <2>1. ASSUME NEW d \in Client, call'[d].pc # "idle" PROVE call'[d].e.id <= calls'
    <3>1. CASE d = c
      <4>1. calls + 1 <= calls + 1
        BY <1>2
      <4> QED BY <1>3, <1>4, <1>5, <3>1, <4>1, Zenon
    <3>2. CASE d # c
      BY <1>4, <1>5, <1>7, <1>8, <2>1, <3>2, Zenon DEF WindowsInv, Numbered
    <3> QED BY <3>1, <3>2
  <2>2. ASSUME NEW m \in Node
        PROVE  /\ IsFiniteSet(events'[m])
               /\ \A x \in log'[m] \cup incoming'[m] \cup events'[m] : x.id <= calls'
    BY <1>4, <1>7, <1>8, Zenon DEF WindowsInv, Numbered
  <2> QED BY <2>1, <2>2, Zenon DEF Numbered
<1>10. Pending'
  <2> SUFFICES ASSUME NEW d \in Client, call'[d].pc # "idle"
               PROVE  /\ \A x \in Client \ {d} : call'[x].pc # "idle" => call'[d].e # call'[x].e
                      /\ \A m \in Node :
                           /\ call'[d].e \notin log'[m] \cup incoming'[m]
                           /\ call'[d].e \in events'[m] => m = Home[d] /\ call'[d].pc = "append"
    BY Zenon DEF Pending
  <2>1. CASE d = c
    <3>1. \A x \in Client \ {c} : call[x].pc # "idle" => e # call[x].e
      BY <1>7, <1>8, Zenon DEF WindowsInv, Numbered
    <3>2. \A m \in Node : e \notin log[m] \cup incoming[m] \cup events[m]
      BY <1>7, <1>8, Zenon DEF WindowsInv, Numbered
    <3> QED BY <1>4, <1>5, <2>1, <3>1, <3>2, Zenon
  <2>2. CASE d # c
    <3>1. call'[d] = call[d] /\ call[d].e # e
      BY <1>5, <1>7, <1>8, <2>2, Zenon DEF WindowsInv, Numbered
    <3>2. \A x \in Client \ {d} : call'[x].pc # "idle" => call'[d].e # call'[x].e
      <4>1. \A x \in Client \ {d} : call[x].pc # "idle" => call[d].e # call[x].e
        BY <2>2, <3>1, Zenon DEF WindowsInv, Pending
      <4> QED BY <1>5, <3>1, <4>1, Zenon
    <3> QED BY <1>4, <3>1, <3>2, Zenon DEF WindowsInv, Pending
  <2> QED BY <2>1, <2>2
<1>11. NoDoubleCount'
  BY <1>4, Zenon DEF WindowsInv, NoDoubleCount
<1>12. Attributed'
  <2>1. \A m \in Node : /\ windows'[m] = windows[m] /\ events'[m] = events[m]
                        /\ Foreign(m)' \subseteq Foreign(m)
    BY <1>4, Zenon DEF Foreign
  <2> QED BY <2>1, AttributedKept, AttributedNext, Zenon DEF WindowsInv
<1> QED BY <1>6, <1>9, <1>10, <1>11, <1>12 DEF WindowsInv

(* The call's event is put at the end of the list, and the front is cut.   *)
LEMMA IncrementStep ==
  ASSUME WindowsInv, NEW c \in Client, NEW duration \in Durations,
         IncrementWindow(c, duration)
  PROVE  WindowsInv'
<1> DEFINE n == Home[c]
           e == call[c].e
           win == Append(windows[n], e.ts.p)
           horizon == Wall(n) - duration
           known == events[n] \cup {e}
<1>1. /\ n \in Node /\ e \in Event /\ e.ts.p \in Nat
      /\ windows[n] \in Seq(Nat) /\ events[n] \subseteq Event
  <2>1. n \in Node /\ e \in Event
    BY WindowsAssumption, Zenon DEF WindowsInv, TypeOK
  <2> QED BY <2>1, EventType, Zenon DEF WindowsInv, TypeOK
<1>2. /\ windows' = [windows EXCEPT ![n] = Cut(win, horizon)]
      /\ events' = [events EXCEPT ![n] = known]
      /\ returned' = [count |-> Active(win, horizon),
                      active |-> Cardinality({x \in known : x.ts.p >= horizon})]
      /\ call' = [call EXCEPT ![c] = [call[c] EXCEPT !.pc = "append"]]
      /\ UNCHANGED <<now, clock, log, incoming, calls, applies>>
  BY Zenon DEF IncrementWindow
<1>3. /\ windows'[n] = Cut(win, horizon) /\ events'[n] = known
      /\ \A m \in Node \ {n} : windows'[m] = windows[m] /\ events'[m] = events[m]
  BY <1>1, <1>2, Zenon DEF WindowsInv, TypeOK
<1>4. /\ [call[c] EXCEPT !.pc = "append"] = [pc |-> "append", e |-> e]
      /\ call'[c].pc = "append" /\ call'[c].e = e
      /\ \A d \in Client \ {c} : call'[d] = call[d]
  <2>1. call[c] \in [pc : {"idle", "insert", "append"}, e : Event]
    BY Zenon DEF WindowsInv, TypeOK
  <2>2. [call[c] EXCEPT !.pc = "append"] = [pc |-> "append", e |-> e]
    BY <2>1
  <2> QED BY <1>2, <2>2, Zenon DEF WindowsInv, TypeOK
<1>5. call[c].pc = "insert" /\ call[c].pc # "idle" /\ call[c].pc # "append"
  BY DEF IncrementWindow
<1>6. e \notin events[n] /\ e \notin Foreign(n)
  <2>1. \A m \in Node : e \notin log[m] \cup incoming[m]
    BY <1>5, Zenon DEF WindowsInv, Pending
  <2>2. e \notin events[n]
    BY <1>1, <1>5, Zenon DEF WindowsInv, Pending
  <2> HIDE DEF n, e
  <2> QED BY <1>1, <2>1, <2>2, Zenon DEF Foreign
<1>7. IsFiniteSet(known)
  <2>1. IsFiniteSet(events[n])
    BY <1>1, Zenon DEF WindowsInv, Numbered
  <2> QED BY <2>1, FS_AddElement, Zenon
<1>8. PICK a \in [1..Len(windows[n]) -> events[n]] : StandsFor(windows[n], Foreign(n), a)
  BY <1>1, Zenon DEF WindowsInv, Attributed
<1>9. /\ win \in Seq(Nat)
      /\ \E b \in [1..Len(win) -> known] : StandsFor(win, Foreign(n), b)
  <2> HIDE DEF n, e
  <2> QED BY <1>1, <1>6, <1>8, StandsAppend, Zenon
<1> HIDE DEF n, e, win, horizon, known
<1>10. PICK b \in [1..Len(win) -> known] : StandsFor(win, Foreign(n), b)
  BY <1>9
<1>11. /\ Active(win, horizon) \in 0..Len(win)
       /\ Cardinality({x \in known : x.ts.p >= horizon}) \in Nat
       /\ Active(win, horizon) <= Cardinality({x \in known : x.ts.p >= horizon})
  BY <1>7, <1>9, <1>10, StandsCount, Zenon
<1>12. /\ Cut(win, horizon) \in Seq(Nat)
       /\ \E d \in [1..Len(Cut(win, horizon)) -> known] :
            StandsFor(Cut(win, horizon), Foreign(n), d)
  <2> DEFINE k == Len(win) - Active(win, horizon)
  <2>1. Len(win) \in Nat
    BY <1>9, ListType, Zenon
  <2>2. k \in 0..Len(win)
    BY <1>11, <2>1
  <2>3. Cut(win, horizon) = SubSeq(win, k + 1, Len(win))
    BY Zenon DEF Cut
  <2> HIDE DEF k
  <2>4. /\ SubSeq(win, k + 1, Len(win)) \in Seq(Nat)
        /\ \E d \in [1..Len(SubSeq(win, k + 1, Len(win))) -> known] :
             StandsFor(SubSeq(win, k + 1, Len(win)), Foreign(n), d)
    BY <1>9, <1>10, <2>2, StandsCut, Zenon
  <2> QED BY <2>3, <2>4, Zenon
<1>13. TypeOK'
  <2>1. windows' \in [Node -> Seq(Nat)]
    BY <1>1, <1>2, <1>12, Zenon DEF WindowsInv, TypeOK
  <2>2. known \subseteq Event
    BY <1>1, Zenon DEF known
  <2>3. events' \in [Node -> SUBSET Event]
    BY <1>1, <1>2, <2>2, Zenon DEF WindowsInv, TypeOK
  <2>4. [pc |-> "append", e |-> e] \in [pc : {"idle", "insert", "append"}, e : Event]
    BY <1>1, Zenon
  <2>5. call' \in [Client -> [pc : {"idle", "insert", "append"}, e : Event]]
    BY <1>2, <1>4, <2>4, Zenon DEF WindowsInv, TypeOK
  <2>6. Active(win, horizon) \in Nat
    <3>1. Len(win) \in Nat
      BY <1>9, ListType, Zenon
    <3> QED BY <1>11, <3>1
  <2>7. returned' \in [count : Nat, active : Nat]
    BY <1>2, <1>11, <2>6, Zenon
  <2> QED BY <1>2, <2>1, <2>3, <2>5, <2>7, Zenon DEF WindowsInv, TypeOK
<1>14. Numbered'
  <2>1. ASSUME NEW d \in Client, call'[d].pc # "idle" PROVE call'[d].e.id <= calls'
    <3>1. CASE d = c
      BY <1>2, <1>4, <1>5, <3>1, Zenon DEF WindowsInv, Numbered, e
    <3>2. CASE d # c
      BY <1>2, <1>4, <2>1, <3>2, Zenon DEF WindowsInv, Numbered
    <3> QED BY <3>1, <3>2
  <2>2. ASSUME NEW m \in Node
        PROVE  /\ IsFiniteSet(events'[m])
               /\ \A x \in log'[m] \cup incoming'[m] \cup events'[m] : x.id <= calls'
    <3>1. e.id <= calls
      BY <1>5, Zenon DEF WindowsInv, Numbered, e
    <3>2. \A x \in log[m] \cup incoming[m] \cup events[m] : x.id <= calls
      BY Zenon DEF WindowsInv, Numbered
    <3>3. CASE m = n
      BY <1>2, <1>3, <1>7, <3>1, <3>2, <3>3, Zenon DEF known
    <3>4. CASE m # n
      BY <1>2, <1>3, <3>2, <3>4, Zenon DEF WindowsInv, Numbered
    <3> QED BY <3>3, <3>4
  <2> QED BY <2>1, <2>2, Zenon DEF Numbered
<1>15. Pending'
  <2> SUFFICES ASSUME NEW d \in Client, call'[d].pc # "idle"
               PROVE  /\ \A x \in Client \ {d} : call'[x].pc # "idle" => call'[d].e # call'[x].e
                      /\ \A m \in Node :
                           /\ call'[d].e \notin log'[m] \cup incoming'[m]
                           /\ call'[d].e \in events'[m] => m = Home[d] /\ call'[d].pc = "append"
    BY Zenon DEF Pending
  <2>1. \A x \in Client : call'[x].e = call[x].e /\ (call'[x].pc # "idle" => call[x].pc # "idle")
    BY <1>4, <1>5, Zenon DEF e
  <2>2. \A x \in Client \ {d} : call'[x].pc # "idle" => call'[d].e # call'[x].e
    <3>1. \A x \in Client \ {d} : call[x].pc # "idle" => call[d].e # call[x].e
      BY <2>1, Zenon DEF WindowsInv, Pending
    <3> QED BY <2>1, <3>1, Zenon
  <2>3. \A m \in Node : call'[d].e \notin log'[m] \cup incoming'[m]
    BY <1>2, <2>1, Zenon DEF WindowsInv, Pending
  <2>4. ASSUME NEW m \in Node, call'[d].e \in events'[m]
        PROVE  m = Home[d] /\ call'[d].pc = "append"
    <3>1. CASE d = c
      <4>1. CASE m = n
        BY <1>4, <3>1, <4>1, Zenon DEF n
      <4>2. CASE m # n
        BY <1>3, <1>5, <2>1, <2>4, <3>1, <4>2, Zenon DEF WindowsInv, Pending
      <4> QED BY <4>1, <4>2
    <3>2. CASE d # c
      <4>1. call[d].e # e /\ call'[d] = call[d]
        BY <1>4, <1>5, <2>1, <3>2, Zenon DEF WindowsInv, Pending, e
      <4>2. call[d].e \in events[m]
        BY <1>3, <2>4, <4>1, Zenon DEF known
      <4> QED BY <2>1, <4>1, <4>2, Zenon DEF WindowsInv, Pending
    <3> QED BY <3>1, <3>2
  <2> QED BY <2>2, <2>3, <2>4, Zenon
<1>16. NoDoubleCount'
  <2>1. returned'.count = Active(win, horizon)
        /\ returned'.active = Cardinality({x \in known : x.ts.p >= horizon})
    BY <1>2, Zenon
  <2> QED BY <1>11, <2>1, Zenon DEF NoDoubleCount
<1>17. Attributed'
  <2>1. \A m \in Node : Foreign(m)' = Foreign(m)
    BY <1>2, Zenon DEF Foreign
  <2>2. \E d \in [1..Len(windows'[n]) -> events'[n]] : StandsFor(windows'[n], Foreign(n)', d)
    BY <1>1, <1>3, <1>12, <2>1, Zenon
  <2> QED BY <1>3, <2>1, <2>2, AttributedKept, AttributedNext, Zenon DEF WindowsInv
<1> QED BY <1>13, <1>14, <1>15, <1>16, <1>17 DEF WindowsInv

(* Peers may be sent the event from now on; none was given it before.      *)
LEMMA LogStep ==
  ASSUME WindowsInv, NEW c \in Client, LogAppend(c)
  PROVE  WindowsInv'
<1> DEFINE n == Home[c]
           e == call[c].e
<1>1. /\ n \in Node /\ e \in Event
      /\ \A m \in Node : log[m] \subseteq Event
      /\ call \in [Client -> [pc : {"idle", "insert", "append"}, e : Event]]
  BY WindowsAssumption, Zenon DEF WindowsInv, TypeOK
<1>2. /\ log' = [log EXCEPT ![n] = log[n] \cup {e}]
      /\ call' = [call EXCEPT ![c] = Idle]
      /\ UNCHANGED <<now, clock, windows, incoming, events, returned, calls, applies>>
  BY Zenon DEF LogAppend
<1>3. /\ log'[n] = log[n] \cup {e} /\ \A m \in Node \ {n} : log'[m] = log[m]
      /\ call'[c] = Idle /\ \A d \in Client \ {c} : call'[d] = call[d]
  BY <1>1, <1>2, Zenon DEF WindowsInv, TypeOK
<1>4. Idle.pc = "idle" /\ Idle \in [pc : {"idle", "insert", "append"}, e : Event]
  BY DEF Idle, Event, Timestamp
<1>5. call[c].pc # "idle"
  BY DEF LogAppend
<1>6. /\ \A d \in Client \ {c} : call[d].pc # "idle" => call[d].e # e
      /\ \A m \in Node \ {n} : e \notin events[m]
      /\ e.id <= calls
  BY <1>5, Zenon DEF WindowsInv, Pending, Numbered
<1> HIDE DEF n, e
<1>7. TypeOK'
  <2>1. log[n] \cup {e} \in SUBSET Event
    BY <1>1, Zenon
  <2>2. log' \in [Node -> SUBSET Event]
    BY <1>2, <2>1, Zenon DEF WindowsInv, TypeOK
  <2>3. call' \in [Client -> [pc : {"idle", "insert", "append"}, e : Event]]
    BY <1>1, <1>2, <1>4, Zenon
  <2> QED BY <1>2, <2>2, <2>3, Zenon DEF WindowsInv, TypeOK
<1>8. Numbered'
  <2>1. ASSUME NEW d \in Client, call'[d].pc # "idle" PROVE call'[d].e.id <= calls'
    BY <1>2, <1>3, <1>4, <2>1, Zenon DEF WindowsInv, Numbered
  <2>2. ASSUME NEW m \in Node
        PROVE  /\ IsFiniteSet(events'[m])
               /\ \A x \in log'[m] \cup incoming'[m] \cup events'[m] : x.id <= calls'
    <3>1. \A x \in log[m] \cup incoming[m] \cup events[m] : x.id <= calls
      BY Zenon DEF WindowsInv, Numbered
    <3>2. \A x \in log'[m] : x \in log[m] \/ x = e
      BY <1>3, Zenon
    <3> QED BY <1>2, <1>6, <3>1, <3>2, Zenon DEF WindowsInv, Numbered
  <2> QED BY <2>1, <2>2, Zenon DEF Numbered
<1>9. Pending'
  <2> SUFFICES ASSUME NEW d \in Client, call'[d].pc # "idle"
               PROVE  /\ \A x \in Client \ {d} : call'[x].pc # "idle" => call'[d].e # call'[x].e
                      /\ \A m \in Node :
                           /\ call'[d].e \notin log'[m] \cup incoming'[m]
                           /\ call'[d].e \in events'[m] => m = Home[d] /\ call'[d].pc = "append"
    BY Zenon DEF Pending
  <2>1. d # c /\ call'[d] = call[d] /\ call[d].e # e /\ call[d].pc # "idle"
    BY <1>3, <1>4, <1>6, Zenon
  <2>2. \A x \in Client : call'[x].pc # "idle" => call'[x] = call[x]
    BY <1>3, <1>4, Zenon
  <2>3. \A x \in Client \ {d} : call'[x].pc # "idle" => call'[d].e # call'[x].e
    BY <2>1, <2>2, Zenon DEF WindowsInv, Pending
  <2>4. \A m \in Node : /\ call[d].e \notin log[m] \cup incoming[m]
                        /\ call[d].e \in events[m] => m = Home[d] /\ call[d].pc = "append"
    BY <2>1, Zenon DEF WindowsInv, Pending
  <2>5. \A m \in Node : \A x \in log'[m] : x \in log[m] \/ x = e
    BY <1>3, Zenon
  <2> QED BY <1>2, <2>1, <2>3, <2>4, <2>5, Zenon
<1>10. NoDoubleCount'
  BY <1>2, Zenon DEF WindowsInv, NoDoubleCount
<1>11. Attributed'
  <2>1. \A m \in Node : windows'[m] = windows[m] /\ events'[m] = events[m]
                        /\ incoming'[m] = incoming[m]
    BY <1>2, Zenon
  <2>2. Foreign(n)' \subseteq Foreign(n)
    <3>1. \A x \in UNION {log'[m] : m \in Node \ {n}} : x \in UNION {log[m] : m \in Node \ {n}}
      BY <1>3, Zenon
    <3>2. incoming'[n] = incoming[n]
      BY <1>1, <2>1, Zenon
    <3> QED BY <3>1, <3>2, Zenon DEF Foreign
  <2>3. ASSUME NEW m \in Node, m # n
        PROVE  \E a \in [1..Len(windows'[m]) -> events'[m]] :
                 StandsFor(windows'[m], Foreign(m)', a)
    <3>1. PICK a \in [1..Len(windows[m]) -> events[m]] : StandsFor(windows[m], Foreign(m), a)
      BY Zenon DEF WindowsInv, Attributed
    <3>2. \A x \in Foreign(m)' : x \in Foreign(m) \/ x = e
      <4>1. \A k \in Node : \A x \in log'[k] : x \in log[k] \/ x = e
        BY <1>3, Zenon
      <4> QED BY <2>1, <4>1, Zenon DEF Foreign
    <3>3. \A i \in 1..Len(windows[m]) : a[i] # e
      BY <1>6, <2>3, <3>1, Zenon
    <3>4. StandsFor(windows[m], Foreign(m)', a)
      BY <3>1, <3>2, <3>3, Zenon DEF StandsFor
    <3> QED BY <2>1, <3>1, <3>4, Zenon
  <2>4. \E a \in [1..Len(windows'[n]) -> events'[n]] : StandsFor(windows'[n], Foreign(n)', a)
    BY <1>1, <2>1, <2>2, AttributedKept, Zenon DEF WindowsInv
  <2> QED BY <2>3, <2>4, AttributedNext, Zenon
<1> QED BY <1>7, <1>8, <1>9, <1>10, <1>11 DEF WindowsInv

(* An entry is taken from a peer's log.                                    *)
LEMMA UpdateStep ==
  ASSUME WindowsInv, NEW n \in Node, NEW p \in Node, n # p, NEW e \in log[n],
         UpdateClock(p, e)
  PROVE  WindowsInv'
<1>1. e \in Event /\ clock[p] \in Timestamp /\ Wall(p) \in Nat /\ e.ts \in Timestamp
  <2>1. e \in Event
    BY Zenon DEF WindowsInv, TypeOK
  <2> QED BY <2>1, EventType, WallType, Zenon DEF WindowsInv, TypeOK
<1>2. /\ applies' = applies + 1 /\ applies < MaxApplies
      /\ clock' = [clock EXCEPT ![p] = Update(clock[p], Wall(p), e.ts)]
      /\ incoming' = [incoming EXCEPT ![p] = incoming[p] \cup {e}]
      /\ UNCHANGED <<now, windows, call, log, events, returned, calls>>
  BY Zenon DEF UpdateClock
<1>3. /\ incoming'[p] = incoming[p] \cup {e}
      /\ \A m \in Node \ {p} : incoming'[m] = incoming[m]
  BY <1>2, Zenon DEF WindowsInv, TypeOK
<1>4. \A m \in Node : \A x \in incoming'[m] : x \in incoming[m] \/ x = e
  BY <1>3, Zenon
<1>5. TypeOK'
  <2>1. Update(clock[p], Wall(p), e.ts) \in Timestamp
    BY <1>1, ClockTypes, Zenon
  <2>2. clock' \in [Node -> Timestamp]
    BY <1>2, <2>1, Zenon DEF WindowsInv, TypeOK
  <2>3. incoming[p] \cup {e} \in SUBSET Event
    BY <1>1, Zenon DEF WindowsInv, TypeOK
  <2>4. incoming' \in [Node -> SUBSET Event]
    BY <1>2, <2>3, Zenon DEF WindowsInv, TypeOK
  <2>5. applies' \in 0..MaxApplies
    <3>1. applies \in 0..MaxApplies /\ MaxApplies \in Nat
      BY WindowsAssumption, Zenon DEF WindowsInv, TypeOK
    <3> QED BY <1>2, <3>1
  <2> QED BY <1>2, <2>2, <2>4, <2>5, Zenon DEF WindowsInv, TypeOK
<1>6. Numbered'
  <2>1. e.id <= calls
    BY Zenon DEF WindowsInv, Numbered
  <2> QED BY <1>2, <1>4, <2>1, Zenon DEF WindowsInv, Numbered
<1>7. Pending'
  <2>1. \A d \in Client : call[d].pc # "idle" => call[d].e # e
    BY Zenon DEF WindowsInv, Pending
  <2> QED BY <1>2, <1>4, <2>1, Zenon DEF WindowsInv, Pending
<1>8. NoDoubleCount'
  BY <1>2, Zenon DEF WindowsInv, NoDoubleCount
<1>9. Attributed'
  <2>1. e \in Foreign(p)
    BY Zenon DEF Foreign
  <2>2. \A m \in Node : Foreign(m)' \subseteq Foreign(m)
    <3> SUFFICES ASSUME NEW m \in Node PROVE Foreign(m)' \subseteq Foreign(m)
      OBVIOUS
    <3>1. incoming'[m] \subseteq Foreign(m)
      <4>1. CASE m = p
        BY <1>3, <2>1, <4>1, Zenon DEF Foreign
      <4>2. CASE m # p
        BY <1>3, <4>2, Zenon DEF Foreign
      <4> QED BY <4>1, <4>2
    <3> QED BY <1>2, <3>1, Zenon DEF Foreign
  <2> QED BY <1>2, <2>2, AttributedKept, AttributedNext, Zenon DEF WindowsInv
<1> QED BY <1>5, <1>6, <1>7, <1>8, <1>9 DEF WindowsInv

(* The entry is put into the list.                                         *)
LEMMA ApplyStep ==
  ASSUME WindowsInv, NEW p \in Node, NEW e \in incoming[p], ApplyEntry(p, e)
  PROVE  WindowsInv'
<1>1. /\ e \in Event /\ e.ts.p \in Nat
      /\ windows[p] \in Seq(Nat) /\ events[p] \subseteq Event
  <2>1. e \in Event
    BY Zenon DEF WindowsInv, TypeOK
  <2> QED BY <2>1, EventType, Zenon DEF WindowsInv, TypeOK
<1>2. /\ incoming' = [incoming EXCEPT ![p] = incoming[p] \ {e}]
      /\ windows' = [windows EXCEPT ![p] = Inserted(windows[p], e.ts.p)]
      /\ events' = [events EXCEPT ![p] = events[p] \cup {e}]
      /\ UNCHANGED <<now, clock, call, log, returned, calls, applies>>
  BY Zenon DEF ApplyEntry
<1>3. /\ windows'[p] = Inserted(windows[p], e.ts.p) /\ events'[p] = events[p] \cup {e}
      /\ incoming'[p] = incoming[p] \ {e}
      /\ \A m \in Node \ {p} : /\ windows'[m] = windows[m] /\ events'[m] = events[m]
                               /\ incoming'[m] = incoming[m]
  BY <1>2, Zenon DEF WindowsInv, TypeOK
<1>4. /\ \A m \in Node : \A x \in incoming'[m] : x \in incoming[m]
      /\ \A m \in Node : \A x \in events'[m] : x \in events[m] \/ x = e
  BY <1>3, Zenon
<1>5. PICK a \in [1..Len(windows[p]) -> events[p]] : StandsFor(windows[p], Foreign(p), a)
  BY Zenon DEF WindowsInv, Attributed
<1>6. /\ Inserted(windows[p], e.ts.p) \in Seq(Nat)
      /\ \E b \in [1..Len(Inserted(windows[p], e.ts.p)) -> events[p] \cup {e}] :
           StandsFor(Inserted(windows[p], e.ts.p), Foreign(p), b)
  <2>1. e \in Foreign(p)
    BY Zenon DEF Foreign
  <2> QED BY <1>1, <1>5, <2>1, StandsInsert, Zenon
<1>7. TypeOK'
  <2>1. windows' \in [Node -> Seq(Nat)]
    BY <1>2, <1>6, Zenon DEF WindowsInv, TypeOK
  <2>2. events[p] \cup {e} \in SUBSET Event /\ incoming[p] \ {e} \in SUBSET Event
    BY <1>1, Zenon DEF WindowsInv, TypeOK
  <2>3. events' \in [Node -> SUBSET Event] /\ incoming' \in [Node -> SUBSET Event]
    BY <1>2, <2>2, Zenon DEF WindowsInv, TypeOK
  <2> QED BY <1>2, <2>1, <2>3, Zenon DEF WindowsInv, TypeOK
<1>8. Numbered'
  <2>1. \A m \in Node : IsFiniteSet(events'[m])
    <3>1. \A m \in Node : IsFiniteSet(events[m])
      BY Zenon DEF WindowsInv, Numbered
    <3>2. IsFiniteSet(events[p] \cup {e})
      BY <3>1, FS_AddElement, Zenon
    <3> QED BY <1>3, <3>1, <3>2, Zenon
  <2>2. e.id <= calls
    BY Zenon DEF WindowsInv, Numbered
  <2> QED BY <1>2, <1>4, <2>1, <2>2, Zenon DEF WindowsInv, Numbered
<1>9. Pending'
  <2>1. \A d \in Client : call[d].pc # "idle" => call[d].e # e
    BY Zenon DEF WindowsInv, Pending
  <2>2. ASSUME NEW d \in Client, call[d].pc # "idle", NEW m \in Node
        PROVE  /\ call[d].e \notin log[m] \cup incoming'[m]
               /\ call[d].e \in events'[m] => m = Home[d] /\ call[d].pc = "append"
    <3>1. /\ call[d].e \notin log[m] \cup incoming[m] /\ call[d].e # e
          /\ call[d].e \in events[m] => m = Home[d] /\ call[d].pc = "append"
      BY <2>1, <2>2, Zenon DEF WindowsInv, Pending
    <3> QED BY <1>4, <3>1, Zenon
  <2> QED BY <1>2, <2>2, Zenon DEF WindowsInv, Pending
<1>10. NoDoubleCount'
  BY <1>2, Zenon DEF WindowsInv, NoDoubleCount
<1>11. Attributed'
  <2>1. \A m \in Node : Foreign(m)' \subseteq Foreign(m)
    BY <1>2, <1>4, Zenon DEF Foreign
  <2>2. \E b \in [1..Len(windows'[p]) -> events'[p]] : StandsFor(windows'[p], Foreign(p)', b)
    BY <1>3, <1>6, <2>1, StandsLess, Zenon
  <2> QED BY <1>3, <2>1, <2>2, AttributedKept, AttributedNext, Zenon DEF WindowsInv
<1> QED BY <1>7, <1>8, <1>9, <1>10, <1>11 DEF WindowsInv

(* The lists are empty at first.                                           *)
LEMMA WindowsInit == Init => WindowsInv
<1> SUFFICES ASSUME Init PROVE WindowsInv
  OBVIOUS
<1>1. TypeOK
  <2>1. 0 \in 0..MaxNow /\ 0 \in 0..MaxCalls /\ 0 \in 0..MaxApplies
    BY WindowsAssumption
  <2>2. \A n \in Node : [p |-> Skew[n], l |-> 0] \in Timestamp
    BY WindowsAssumption DEF Timestamp
  <2>3. Idle \in [pc : {"idle", "insert", "append"}, e : Event]
    BY DEF Idle, Event, Timestamp
  <2>4. NoCount \in [count : Nat, active : Nat] /\ <<>> \in Seq(Nat)
    BY DEF NoCount
  <2>5. clock \in [Node -> Timestamp]
    BY <2>2, Zenon DEF Init
  <2> QED BY <2>1, <2>3, <2>4, <2>5, Zenon DEF Init, TypeOK
<1>2. \A c \in Client : call[c].pc = "idle"
  BY DEF Init, Idle
<1>3. /\ \A n \in Node : log[n] = {} /\ incoming[n] = {} /\ events[n] = {}
      /\ \A n \in Node : windows[n] = <<>>
  BY Zenon DEF Init
<1>4. Numbered
  <2>1. IsFiniteSet({})
    BY FS_EmptySet, Zenon
  <2> QED BY <1>2, <1>3, <2>1, Zenon DEF Numbered
<1>5. Pending
  BY <1>2, Zenon DEF Pending
<1>6. NoDoubleCount
  BY DEF Init, NoCount, NoDoubleCount
<1>7. Attributed
  <2> SUFFICES ASSUME NEW n \in Node
               PROVE  \E a \in [1..Len(windows[n]) -> events[n]] :
                        StandsFor(windows[n], Foreign(n), a)
    BY Zenon DEF Attributed
  <2>1. Len(<<>>) = 0 /\ 1..0 = {}
    OBVIOUS
  <2> DEFINE a == [i \in 1..0 |-> 0]
  <2>2. a \in [1..0 -> events[n]]
    BY <2>1, Zenon
  <2>3. StandsFor(<<>>, Foreign(n), a)
    BY <2>1, Zenon DEF StandsFor
  <2> QED BY <1>3, <2>1, <2>2, <2>3, Zenon
<1> QED BY <1>1, <1>4, <1>5, <1>6, <1>7 DEF WindowsInv

(* Every step keeps the invariant.                                         *)
LEMMA WindowsStep ==
  ASSUME WindowsInv, [Next]_vars
  PROVE  WindowsInv'
<1>1. CASE UNCHANGED vars
  <2>1. TypeOK' /\ Numbered' /\ Pending' /\ NoDoubleCount'
    BY <1>1, Zenon DEF vars, WindowsInv, TypeOK, Numbered, Pending, NoDoubleCount
  <2>2. \A n \in Node : /\ windows'[n] = windows[n] /\ events'[n] = events[n]
                        /\ Foreign(n)' \subseteq Foreign(n)
    BY <1>1, Zenon DEF vars, Foreign
  <2>3. Attributed'
    BY <2>2, AttributedKept, AttributedNext, Zenon DEF WindowsInv
  <2> QED BY <2>1, <2>3 DEF WindowsInv
<1>2. CASE Next
  BY <1>2, TickStep, BeginStep, IncrementStep, LogStep, UpdateStep, ApplyStep,
     PruneStep, Zenon DEF Next
<1> QED BY <1>1, <1>2

(* The conjuncts of WindowsInv are inductive only together.                *)
LEMMA WindowsInductive == Spec => []WindowsInv
<1>1. Init => WindowsInv
  BY WindowsInit
<1>2. WindowsInv /\ [Next]_vars => WindowsInv'
  BY WindowsStep
<1> QED BY <1>1, <1>2, PTL DEF Spec

(* The window operations keep to their types: the lists that the store     *)
(* keeps are lists of timestamps after any number of insertions and cuts.  *)
THEOREM TypeCorrect == Spec => []TypeOK
<1>1. WindowsInv => TypeOK
  BY DEF WindowsInv
<1> QED BY <1>1, WindowsInductive, PTL

(* IncrementSlidingWindow never returns more than the number of events     *)
(* within its window that the node was given, for any number of nodes and  *)
(* calls, windows, clocks and deliveries, repeated and reordered ones      *)
(* included: addWindowTimestamp may miss a timestamp in a list that calls  *)
(* have left unsorted, but never one of a peer.                            *)
THEOREM WindowsNeverOvercount == Spec => []NoDoubleCount
<1>1. WindowsInv => NoDoubleCount
  BY DEF WindowsInv
<1> QED BY <1>1, WindowsInductive, PTL
=============================================================================
