--------------------------- MODULE DeltaLogProofs ---------------------------
(***************************************************************************)
(* Proofs about DeltaLog: the two rings cooperate, for every capacity and  *)
(* any sequence of entry sizes; and about WireLog: what the peer decodes   *)
(* is what was appended.                                                   *)
(***************************************************************************)
EXTENDS WireLog, FiniteSetTheorems, TLAPS

(***************************************************************************)
(* Arithmetic                                                              *)
(***************************************************************************)

(* Two sequence numbers less than c apart have slots of their own.         *)
LEMMA SlotsDistinct ==
  ASSUME NEW c \in Nat \ {0}, NEW a \in Nat, NEW b \in Nat, a < b, b - a < c
  PROVE  a % c # b % c
<1> SUFFICES ASSUME a % c = b % c PROVE FALSE
  BY Zenon
<1>1. PICK q \in Int : a = c * q + (a % c)
  <2>1. a = c * (a \div c) + (a % c) /\ a \div c \in Int
    OBVIOUS
  <2> QED BY <2>1, Zenon
<1>2. PICK r \in Int : b = c * r + (b % c)
  <2>1. b = c * (b \div c) + (b % c) /\ b \div c \in Int
    OBVIOUS
  <2> QED BY <2>1, Zenon
<1>3. a % c \in Int /\ b % c \in Int
  OBVIOUS
<1>4. b - a = c * (r - q)
  BY <1>1, <1>2, <1>3
<1>5. CASE r - q <= 0
  <2>1. c * (r - q) <= 0
    BY <1>5
  <2> QED BY <1>4, <2>1
<1>6. CASE r - q >= 1
  <2>1. c * (r - q) >= c
    BY <1>6
  <2> QED BY <1>4, <2>1
<1> QED BY <1>5, <1>6

LEMMA SlotType ==
  ASSUME NEW c \in Nat \ {0}, NEW a \in Nat
  PROVE  a % c \in 0..c - 1
OBVIOUS

(***************************************************************************)
(* One Append                                                              *)
(***************************************************************************)

(* Append leaves the descriptors of all the entries that stay retained     *)
(* alone and describes the new one.                                        *)
LEMMA AppendDescriptors ==
  ASSUME TypeOK, NEW e \in Entry, LogAppend(e)
  PROVE  \A s \in Retained' :
           \/ s = head /\ Info(s)' = [offset |-> Start(e), length |-> e.len]
           \/ /\ s \in Retained /\ Info(s)' = Info(s)
              /\ s < head /\ head - s <= capacity - 1
<1> USE DeltaLogAssumption
<1>1. /\ head \in Nat \ {0} /\ capacity \in Nat \ {0} /\ head' = head + 1
      /\ index' = [index EXCEPT ![head % capacity] =
                     [offset |-> Start(e), length |-> e.len]]
  BY Zenon DEF TypeOK, LogAppend
<1>2. head % capacity \in 0..capacity - 1
  BY <1>1, SlotType, Zenon
<1>3. index'[head % capacity] = [offset |-> Start(e), length |-> e.len]
  BY <1>1, <1>2, Zenon DEF TypeOK
<1>4. ASSUME NEW s \in Retained', s # head
      PROVE  /\ s \in Retained /\ Info(s)' = Info(s)
             /\ head - s <= capacity - 1 /\ s < head
  <2>1. /\ s \in Retained /\ s \in Nat /\ s < head /\ head - s < capacity
        /\ head - s <= capacity - 1
    BY <1>1, <1>4 DEF Retained, Earliest
  <2>2. s % capacity # head % capacity /\ s % capacity \in 0..capacity - 1
    BY <1>1, <2>1, SlotsDistinct, SlotType, Zenon
  <2>3. index'[s % capacity] = index[s % capacity]
    BY <1>1, <2>2, Zenon DEF TypeOK
  <2> QED BY <2>1, <2>3, Zenon DEF Info
<1>5. ASSUME NEW s \in Retained', s = head
      PROVE  Info(s)' = [offset |-> Start(e), length |-> e.len]
  BY <1>3, <1>5, Zenon DEF Info
<1> QED BY <1>4, <1>5, Zenon

LEMMA BufCapType == bufCap \in Nat
<1>1. capacity * BytesPerEntry \in Nat
  BY DeltaLogAssumption
<1> QED BY <1>1, DeltaLogAssumption, Zenon DEF bufCap

(* What a descriptor says of a retained entry.                             *)
LEMMA RetainedType ==
  ASSUME TypeOK, NEW s \in Retained
  PROVE  /\ s \in Nat /\ s \in 1..head - 1 /\ Info(s).length \in Nat
         /\ Offset(s) \in Nat /\ End(s) \in Nat /\ Offset(s) <= End(s)
<1>1. s \in Nat /\ s \in 1..head - 1
  BY DeltaLogAssumption DEF Retained, Earliest, TypeOK
<1>2. s % capacity \in 0..capacity - 1
  BY <1>1, SlotType, DeltaLogAssumption, Zenon
<1>3. Info(s) \in [offset : Nat, length : Nat]
  BY <1>2, Zenon DEF Info, TypeOK
<1> QED BY <1>1, <1>3 DEF Offset, End

(* Append leaves the entries that stay retained where they are.            *)
LEMMA AppendOffsets ==
  ASSUME TypeOK, NEW e \in Entry, LogAppend(e), NEW s \in Retained'
  PROVE  \/ /\ s = head /\ Offset(s)' = Start(e) /\ End(s)' = Start(e) + e.len
            /\ Info(s)'.length = e.len
         \/ /\ s \in Retained /\ s # head /\ Info(s)' = Info(s)
            /\ Offset(s)' = Offset(s) /\ End(s)' = End(s)
<1>1. CASE s = head /\ Info(s)' = [offset |-> Start(e), length |-> e.len]
  BY <1>1 DEF Offset, End
<1>2. CASE s \in Retained /\ Info(s)' = Info(s) /\ s < head
  <2>1. s # head
    BY <1>2, RetainedType DEF TypeOK
  <2> QED BY <1>2, <2>1, Zenon DEF Offset, End
<1> QED BY <1>1, <1>2, AppendDescriptors, Zenon

(* What Append does to the numbers: the new entry's place is where the     *)
(* bytes passed so far, and those skipped, end.                            *)
LEMMA AppendNumbers ==
  ASSUME TypeOK, NEW e \in Entry, LogAppend(e)
  PROVE  /\ head \in Nat \ {0} /\ head' = head + 1
         /\ bufHead \in Nat /\ passed \in Nat
         /\ e.size \in Nat /\ e.len \in Nat \ {0} /\ e.len <= e.size
         /\ Start(e) \in Nat /\ Skipped(e) \in Nat
         /\ bufHead' = Start(e) + e.len
         /\ passed' = passed + Skipped(e) + e.len
         /\ e.size <= bufCap => Start(e) + e.size <= bufCap
         /\ \/ Start(e) = bufHead /\ Skipped(e) = 0
            \/ Start(e) = 0 /\ bufHead + Skipped(e) >= bufCap
         /\ \A s \in DOMAIN place' :
              \/ s = head /\ e.size <= bufCap /\ place'[s] = passed + Skipped(e)
              \/ s \in DOMAIN place /\ s # head /\ place'[s] = place[s]
<1> USE DeltaLogAssumption, BufCapType
<1>1. /\ head \in Nat \ {0} /\ head' = head + 1 /\ bufHead \in Nat /\ passed \in Nat
      /\ e.size \in Nat /\ e.len \in Nat \ {0} /\ e.len <= e.size
      /\ bufHead' = Start(e) + e.len /\ passed' = passed + Skipped(e) + e.len
  BY Zenon DEF TypeOK, LogAppend
<1>2. /\ Start(e) \in Nat /\ Skipped(e) \in Nat
      /\ e.size <= bufCap => Start(e) + e.size <= bufCap
      /\ \/ Start(e) = bufHead /\ Skipped(e) = 0
         \/ Start(e) = 0 /\ bufHead + Skipped(e) >= bufCap
  BY <1>1 DEF Start, Skipped
<1>3. \A s \in DOMAIN place : s # head
  BY <1>1 DEF TypeOK
<1>4. ASSUME e.size > bufCap
      PROVE  \A s \in DOMAIN place' :
               \/ s = head /\ e.size <= bufCap /\ place'[s] = passed + Skipped(e)
               \/ s \in DOMAIN place /\ s # head /\ place'[s] = place[s]
  <2>1. place' = place
    BY <1>4, Zenon DEF LogAppend
  <2> QED BY <1>3, <2>1, Zenon
<1>5. ASSUME ~(e.size > bufCap)
      PROVE  \A s \in DOMAIN place' :
               \/ s = head /\ e.size <= bufCap /\ place'[s] = passed + Skipped(e)
               \/ s \in DOMAIN place /\ s # head /\ place'[s] = place[s]
  <2>1. e.size <= bufCap
    BY <1>1, <1>5
  <2>2. place' = [s \in DOMAIN place \cup {head} |->
                    IF s = head THEN passed + Skipped(e) ELSE place[s]]
    BY <1>5, Zenon DEF LogAppend
  <2> QED BY <1>3, <2>1, <2>2, Zenon
<1>6. \A s \in DOMAIN place' :
        \/ s = head /\ e.size <= bufCap /\ place'[s] = passed + Skipped(e)
        \/ s \in DOMAIN place /\ s # head /\ place'[s] = place[s]
  BY <1>4, <1>5, Zenon
<1> QED BY <1>1, <1>2, <1>6, Zenon

LEMMA AppendLayout ==
  ASSUME TypeOK, Layout, NEW e \in Entry, LogAppend(e)
  PROVE  Layout'
<1> USE BufCapType
<1> SUFFICES ASSUME NEW s \in Retained' \cap DOMAIN place'
             PROVE  \/ /\ place'[s] - Offset(s)' = passed' - bufHead'
                       /\ End(s)' <= bufHead'
                    \/ place'[s] - Offset(s)' + bufCap <= passed' - bufHead'
  BY Zenon DEF Layout, bufCap
<1>1. CASE s = head
  <2>1. place'[s] = passed + Skipped(e)
    BY <1>1, AppendNumbers, Zenon
  <2>2. Offset(s)' = Start(e) /\ End(s)' = Start(e) + e.len
    BY <1>1, AppendOffsets, Zenon
  <2> QED BY <2>1, <2>2, AppendNumbers
<1>2. CASE s # head
  <2>1. place'[s] = place[s] /\ s \in DOMAIN place /\ place[s] \in Nat
    BY <1>2, AppendNumbers DEF TypeOK
  <2>2. s \in Retained /\ Offset(s)' = Offset(s) /\ End(s)' = End(s)
    BY <1>2, AppendOffsets, Zenon
  <2>3. \/ place[s] - Offset(s) = passed - bufHead /\ End(s) <= bufHead
        \/ place[s] - Offset(s) + bufCap <= passed - bufHead
    BY <2>1, <2>2, Zenon DEF Layout
  <2>4. Offset(s) \in Nat /\ End(s) \in Nat
    BY <2>2, RetainedType, Zenon
  <2>5. /\ bufHead \in Nat /\ passed \in Nat /\ Start(e) \in Nat /\ Skipped(e) \in Nat
        /\ e.len \in Nat
        /\ bufHead' = Start(e) + e.len /\ passed' = passed + Skipped(e) + e.len
        /\ \/ Start(e) = bufHead /\ Skipped(e) = 0
           \/ Start(e) = 0 /\ bufHead + Skipped(e) >= bufCap
    BY AppendNumbers, Zenon
  <2>6. passed' - bufHead' = passed + Skipped(e) - Start(e)
    BY <2>5
  <2>7. CASE Start(e) = bufHead /\ Skipped(e) = 0
    <3>1. passed' - bufHead' = passed - bufHead /\ bufHead <= bufHead'
      BY <2>5, <2>6, <2>7
    <3> QED BY <2>1, <2>2, <2>3, <2>4, <2>5, <3>1
  <2>8. CASE Start(e) = 0 /\ bufHead + Skipped(e) >= bufCap
    <3>1. passed - bufHead + bufCap <= passed' - bufHead'
      BY <2>5, <2>6, <2>8
    <3>2. passed' - bufHead' \in Int /\ passed - bufHead \in Int
      BY <2>5
    <3> QED BY <2>1, <2>2, <2>3, <2>4, <3>1, <3>2
  <2> QED BY <2>5, <2>7, <2>8, Zenon
<1> QED BY <1>1, <1>2, Zenon

(* The bytes it writes belong to no entry that is held afterwards.         *)
LEMMA AppendIntact ==
  ASSUME DeltaLogInv, NEW e \in Entry, LogAppend(e)
  PROVE  Intact'
<1> USE BufCapType
<1>0. TypeOK /\ Layout /\ Intact
  BY Zenon DEF DeltaLogInv
<1>1. /\ head \in Nat \ {0} /\ bufHead \in Nat /\ passed \in Nat
      /\ e.size \in Nat /\ e.len \in Nat \ {0} /\ e.len <= e.size
      /\ Start(e) \in Nat /\ Skipped(e) \in Nat
      /\ bufHead' = Start(e) + e.len /\ passed' = passed + Skipped(e) + e.len
      /\ e.size <= bufCap => Start(e) + e.size <= bufCap
      /\ \/ Start(e) = bufHead /\ Skipped(e) = 0
         \/ Start(e) = 0 /\ bufHead + Skipped(e) >= bufCap
  BY <1>0, AppendNumbers, Zenon
<1>2. \A b \in 0..bufCap - 1 :
        data'[b] = IF b \in Written(e) THEN head ELSE data[b]
  BY <1>0, Zenon DEF LogAppend, TypeOK
<1>3. \A b \in Written(e) : b \in Nat /\ Start(e) <= b /\ b < bufHead'
  BY <1>1 DEF Written
<1> SUFFICES ASSUME NEW s \in Retained', Held(s)'
             PROVE  /\ End(s)' <= bufCap
                    /\ Info(s)'.length > 0
                    /\ \A b \in Offset(s)'..End(s)' - 1 : data'[b] = s
  BY Zenon DEF Intact, bufCap
<1>4. s \in DOMAIN place' /\ passed' - place'[s] <= bufCap
  BY Zenon DEF Held, bufCap
<1>5. CASE s = head
  <2>1. Offset(s)' = Start(e) /\ End(s)' = Start(e) + e.len /\ Info(s)'.length = e.len
    BY <1>0, <1>5, AppendOffsets, Zenon
  <2>2. e.size <= bufCap
    BY <1>0, <1>4, <1>5, AppendNumbers, Zenon
  <2>3. Written(e) = Start(e)..Start(e) + e.len - 1
    BY <1>1, <2>2 DEF Written
  <2>4. \A b \in Start(e)..Start(e) + e.len - 1 : b \in 0..bufCap - 1
    BY <1>1, <2>2
  <2>5. Start(e) + e.len <= bufCap /\ e.len > 0
    BY <1>1, <2>2
  <2>6. \A b \in Start(e)..Start(e) + e.len - 1 : data'[b] = s
    BY <1>2, <1>5, <2>3, <2>4, Zenon
  <2>7. End(s)' <= bufCap
    BY <2>1, <2>5, Zenon
  <2>8. Info(s)'.length > 0
    BY <2>1, <2>5, Zenon
  <2>9. \A b \in Offset(s)'..End(s)' - 1 : data'[b] = s
    <3>1. Offset(s)' = Start(e) /\ End(s)' - 1 = Start(e) + e.len - 1
      BY <1>1, <2>1
    <3>2. Offset(s)'..End(s)' - 1 = Start(e)..Start(e) + e.len - 1
      BY <3>1, Zenon
    <3> QED BY <2>6, <3>2, Zenon
  <2> QED BY <2>7, <2>8, <2>9, Zenon
<1>6. CASE s # head
  <2>1. /\ s \in Retained /\ Info(s)' = Info(s)
        /\ Offset(s)' = Offset(s) /\ End(s)' = End(s)
    BY <1>0, <1>6, AppendOffsets, Zenon
  <2>2. s \in DOMAIN place /\ place'[s] = place[s] /\ place[s] \in Nat
    BY <1>0, <1>4, <1>6, AppendNumbers DEF TypeOK
  <2>3. Offset(s) \in Nat /\ End(s) \in Nat
    BY <1>0, <2>1, RetainedType, Zenon
  <2>4. Held(s)
    <3>1. passed - place[s] <= bufCap
      BY <1>1, <1>4, <2>2
    <3> QED BY <2>2, <3>1, Zenon DEF Held
  <2>5. /\ End(s) <= bufCap /\ Info(s).length > 0
        /\ \A b \in Offset(s)..End(s) - 1 : data[b] = s
    BY <1>0, <2>1, <2>4, Zenon DEF Intact
  <2>8. Info(s).length \in Nat /\ End(s) = Offset(s) + Info(s).length
    BY <1>0, <2>1, RetainedType, Zenon DEF End, Offset
  <2>6. End(s) <= Start(e) \/ bufHead' <= Offset(s)
    <3>1. Layout'
      BY <1>0, AppendLayout, Zenon
    <3>2. \/ place[s] - Offset(s) = passed' - bufHead' /\ End(s) <= bufHead'
          \/ place[s] - Offset(s) + bufCap <= passed' - bufHead'
      <4>1. bufCap' = bufCap
        BY Zenon DEF bufCap
      <4> QED BY <1>4, <2>1, <2>2, <3>1, <4>1 DEF Layout
    <3>3. CASE place[s] - Offset(s) + bufCap <= passed' - bufHead'
      BY <1>1, <1>4, <2>2, <2>3, <3>3
    <3>4. CASE place[s] - Offset(s) = passed' - bufHead'
      <4>1. \/ place[s] - Offset(s) = passed - bufHead /\ End(s) <= bufHead
            \/ place[s] - Offset(s) + bufCap <= passed - bufHead
        BY <1>0, <2>1, <2>2, Zenon DEF Layout
      <4>2. place[s] <= passed
        BY <1>0, <2>2 DEF TypeOK
      <4>3. passed' - bufHead' = passed + Skipped(e) - Start(e)
        BY <1>1
      <4>4. CASE Start(e) = bufHead /\ Skipped(e) = 0
        <5>1. place[s] - Offset(s) = passed - bufHead
          BY <1>1, <3>4, <4>3, <4>4
        <5>2. CASE End(s) <= bufHead
          BY <4>4, <5>2, Zenon
        <5>3. CASE place[s] - Offset(s) + bufCap <= passed - bufHead
          <6>1. bufCap = 0
            BY <1>1, <2>2, <2>3, <5>1, <5>3
          <6> QED BY <2>3, <2>5, <2>8, <6>1
        <5> QED BY <4>1, <5>2, <5>3, Zenon
      <4>5. CASE Start(e) = 0 /\ bufHead + Skipped(e) >= bufCap
        <5>1. place[s] - Offset(s) = passed + Skipped(e)
          BY <1>1, <3>4, <4>3, <4>5
        <5>2. place[s] >= passed + Skipped(e)
          BY <1>1, <2>2, <2>3, <5>1
        <5>3. Offset(s) = 0 /\ Skipped(e) = 0
          BY <1>1, <2>2, <2>3, <4>2, <5>1
        <5>4. bufHead >= bufCap /\ place[s] = passed
          BY <1>1, <2>2, <2>3, <4>5, <5>1, <5>3
        <5>5. bufHead = 0 \/ bufCap = 0
          BY <1>1, <2>2, <2>3, <4>1, <5>3, <5>4
        <5>6. bufCap = 0
          BY <1>1, <5>4, <5>5
        <5> QED BY <2>3, <2>5, <2>8, <5>6
      <4> QED BY <1>1, <4>4, <4>5, Zenon
    <3> QED BY <3>2, <3>3, <3>4, Zenon
  <2>7. \A b \in Offset(s)..End(s) - 1 : b \in 0..bufCap - 1 /\ b \notin Written(e)
    <3> SUFFICES ASSUME NEW b \in Offset(s)..End(s) - 1
                 PROVE  b \in 0..bufCap - 1 /\ b \notin Written(e)
      BY Zenon
    <3>1. b \in 0..bufCap - 1
      BY <2>3, <2>5
    <3>2. ~(Start(e) <= b /\ b < bufHead')
      BY <1>1, <2>3, <2>6
    <3> QED BY <1>3, <3>1, <3>2, Zenon
  <2> QED BY <1>2, <2>1, <2>5, <2>7, Zenon
<1> QED BY <1>5, <1>6, Zenon

LEMMA AppendTypes ==
  ASSUME TypeOK, NEW e \in Entry, LogAppend(e)
  PROVE  TypeOK'
<1> USE DeltaLogAssumption, BufCapType
<1>1. e.size \in Nat /\ e.len \in Nat /\ Start(e) \in Nat /\ Skipped(e) \in Nat
  BY AppendNumbers, Zenon
<1>2. head % capacity \in 0..capacity - 1
  BY SlotType, Zenon DEF TypeOK
<1>3. /\ head' \in Nat \ {0} /\ bufHead' \in Nat
      /\ passed' \in Nat /\ passed + Skipped(e) \in Nat
      /\ passed <= passed' /\ passed + Skipped(e) <= passed'
  BY <1>1, AppendNumbers
<1>4. index' \in [0..capacity - 1 -> [offset : Nat, length : Nat]]
  BY <1>1, <1>2 DEF TypeOK, LogAppend
<1>5. data' \in [0..bufCap - 1 -> Nat]
  BY DEF TypeOK, LogAppend
<1>6. \A s \in DOMAIN place' : s \in 1..head' - 1 /\ place'[s] \in 0..passed'
  <2> SUFFICES ASSUME NEW s \in DOMAIN place'
               PROVE  s \in 1..head' - 1 /\ place'[s] \in 0..passed'
    BY Zenon
  <2>1. CASE s = head
    <3>1. place'[s] = passed + Skipped(e) /\ head' = head + 1 /\ head \in Nat \ {0}
      BY <2>1, AppendNumbers, Zenon
    <3> QED BY <1>3, <2>1, <3>1
  <2>2. CASE s # head
    <3>1. s \in DOMAIN place /\ place'[s] = place[s] /\ head' = head + 1 /\ head \in Nat \ {0}
      BY <2>2, AppendNumbers, Zenon
    <3>2. s \in 1..head - 1 /\ place[s] \in 0..passed /\ passed \in Nat
      BY <3>1, Zenon DEF TypeOK
    <3> QED BY <1>3, <3>1, <3>2
  <2> QED BY <2>1, <2>2, Zenon
<1>7. bufCap' = bufCap
  BY Zenon DEF bufCap
<1>8. DOMAIN place' \subseteq 1..head' - 1 /\ \A s \in DOMAIN place' : place'[s] \in 0..passed'
  BY <1>6, Zenon
<1> QED BY <1>3, <1>4, <1>5, <1>7, <1>8, Zenon DEF TypeOK

(***************************************************************************)
(* The theorems                                                            *)
(***************************************************************************)

LEMMA LogInit == Init => DeltaLogInv
<1> SUFFICES ASSUME Init PROVE DeltaLogInv
  BY Zenon
<1> USE DeltaLogAssumption, BufCapType
<1>1. head = 1 /\ bufHead = 0 /\ passed = 0 /\ DOMAIN place = {}
  BY Zenon DEF Init
<1>2. TypeOK
  <2>1. index \in [0..capacity - 1 -> [offset : Nat, length : Nat]] /\ data \in [0..bufCap - 1 -> Nat]
    BY DEF Init
  <2> QED BY <1>1, <2>1 DEF TypeOK
<1> QED BY <1>1, <1>2, Zenon DEF DeltaLogInv, Layout, Intact, Held

LEMMA SameRing ==
  ASSUME UNCHANGED vars
  PROVE  /\ TypeOK => TypeOK'
         /\ DeltaLogInv => DeltaLogInv'
BY Zenon DEF vars, ring, history, DeltaLogInv, TypeOK, Layout, Intact, Held, Retained,
             Earliest, Offset, End, Info, bufCap

(* The state of the log stays well typed.                                  *)
THEOREM TypeCorrect == Spec => []TypeOK
<1>1. Init => TypeOK
  BY LogInit, Zenon DEF DeltaLogInv
<1>2. TypeOK /\ [Next]_vars => TypeOK'
  BY AppendTypes, SameRing, Zenon DEF Next
<1> QED BY <1>1, <1>2, PTL DEF Spec

(* The bytes that are copied of a retained entry.                          *)
LEMMA IntactBytes ==
  ASSUME TypeOK, Intact, NEW s \in Retained, Held(s)
  PROVE  Bytes(s) = {s}
<1> USE BufCapType
<1>2. Offset(s) \in Nat /\ Info(s).length \in Nat /\ End(s) \in Nat
  BY RetainedType, Zenon
<1>3. /\ End(s) <= bufCap /\ Info(s).length > 0
      /\ \A b \in Offset(s)..End(s) - 1 : data[b] = s
  BY Zenon DEF Intact
<1>4. Offset(s) \in Offset(s)..End(s) - 1
  BY <1>2, <1>3 DEF Offset, End
<1>5. Bytes(s) = {data[b] : b \in Offset(s)..End(s) - 1}
  BY <1>2, <1>3 DEF Bytes, Offset, End
<1> QED BY <1>3, <1>4, <1>5, Zenon

(* What GetEntriesRaw copies when all entries that are held are intact.    *)
LEMMA IntactReads ==
  ASSUME TypeOK, Intact
  PROVE  ReadsIntact
<1> USE DeltaLogAssumption
<1> DEFINE oldest(q) == IF q + capacity < head THEN head - capacity ELSE q
<1> SUFFICES ASSUME NEW startSeq \in 1..head - 1,
                    NEW i \in DOMAIN GetEntriesRaw(startSeq),
                    Held(oldest(startSeq) + i - 1)
             PROVE  GetEntriesRaw(startSeq)[i] = {oldest(startSeq) + i - 1}
  BY Zenon DEF ReadsIntact
<1> DEFINE first == First(startSeq)
           s == first + i - 1
<1>1. first = oldest(startSeq)
  BY DEF First, Earliest, TypeOK
<1>2. i \in 1..limit /\ InBatch(first, i)
  BY Zenon DEF GetEntriesRaw
<1>3. s \in Retained
  BY <1>1, <1>2 DEF InBatch, Retained, Earliest, TypeOK
<1>4. GetEntriesRaw(startSeq)[i] = Bytes(s)
  BY Zenon DEF GetEntriesRaw
<1> HIDE DEF oldest
<1>5. Bytes(s) = {s}
  BY <1>1, <1>3, IntactBytes, Zenon
<1> QED BY <1>1, <1>4, <1>5, Zenon

(* The two rings cooperate: no entry is written over one that is held.     *)
LEMMA RingsCooperate == Spec => []DeltaLogInv
<1>1. DeltaLogInv /\ [Next]_vars => DeltaLogInv'
  <2> SUFFICES ASSUME DeltaLogInv, [Next]_vars PROVE DeltaLogInv'
    BY Zenon
  <2>1. ASSUME NEW e \in Entry, LogAppend(e) PROVE DeltaLogInv'
    BY <2>1, AppendTypes, AppendLayout, AppendIntact, Zenon DEF DeltaLogInv
  <2> QED BY <2>1, SameRing, Zenon DEF Next
<1> QED BY LogInit, <1>1, PTL DEF Spec

(* For every capacity, data of any size and entries of any size: after any *)
(* number of appends, GetEntriesRaw returns each of the last `capacity'    *)
(* entries whole and in its place in the order, unless data never had room *)
(* for it or has been passed once since.                                   *)
THEOREM ReadsAreIntact == Spec => []ReadsIntact
<1>1. DeltaLogInv => ReadsIntact
  BY IntactReads, Zenon DEF DeltaLogInv
<1> QED BY <1>1, RingsCooperate, PTL

(***************************************************************************)
(* The entries of the program                                              *)
(***************************************************************************)

(* A number is encoded in 1 to 9 bytes, one of 32 bits in 5 at most.       *)
LEMMA UintLength ==
  ASSUME NEW u \in Nat
  PROVE  UintLen(u) \in Int /\ 1 <= UintLen(u) /\ UintLen(u) <= 9
BY SMTT(60) DEF UintLen

LEMMA IntLength ==
  ASSUME NEW i \in Int
  PROVE  IntLen(i) \in Int /\ 1 <= IntLen(i) /\ IntLen(i) <= 9
BY SMTT(60) DEF IntLen

LEMMA TimestampLength ==
  ASSUME NEW t \in Timestamp
  PROVE  TimestampLen(t) \in 1..TimestampSize
<1>1. t.p \in Int /\ t.l \in Int32 /\ t.l \in Int
  BY DEF Timestamp, Int32
<1>2. IntLen(t.p) \in Int /\ 1 <= IntLen(t.p) /\ IntLen(t.p) <= 9
  BY <1>1, IntLength, Zenon
<1>3. IntLen(t.l) \in Int /\ 1 <= IntLen(t.l) /\ IntLen(t.l) <= 5
  BY <1>1, SMTT(60) DEF IntLen
<1> QED BY <1>2, <1>3, SMTT(60) DEF TimestampLen, TimestampSize, IntSize, Int32Size

(* LogEntry.MarshalMsg never writes more bytes than Msgsize announces, so  *)
(* that Append's test for room is right for every entry: lengths of keys,  *)
(* node IDs and values, and numbers at any edge of the encoding included.  *)
THEOREM MsgsizeBounds ==
  ASSUME NEW z \in LogEntry
  PROVE  EntryLen(z) \in 1..Msgsize(z)
<1>1. /\ z.s \in Nat /\ z.t \in Timestamp /\ z.ba \in Int /\ z.o \in 0..4 /\ z.k \in Nat
      /\ z.n \in Nat /\ z.v \in Nat \cup {Nil} /\ z.d \in Int /\ z.ttl \in Int
  BY Zenon DEF LogEntry
<1>2. /\ UintLen(z.s) \in Int /\ 1 <= UintLen(z.s) /\ UintLen(z.s) <= 9
      /\ IntLen(z.ba) \in Int /\ 1 <= IntLen(z.ba) /\ IntLen(z.ba) <= 9
      /\ IntLen(z.ttl) \in Int /\ 1 <= IntLen(z.ttl) /\ IntLen(z.ttl) <= 9
  BY <1>1, UintLength, IntLength, Zenon
<1>3. UintLen(z.o) = 1
  BY <1>1, SMTT(60) DEF UintLen
<1>4. TimestampLen(z.t) \in Int /\ 1 <= TimestampLen(z.t) /\ TimestampLen(z.t) <= 19
  <2>1. TimestampLen(z.t) \in 1..TimestampSize
    BY <1>1, TimestampLength, Zenon
  <2> QED BY <2>1 DEF TimestampSize, IntSize, Int32Size
<1>5. StringLen(z.k) \in Int /\ 1 <= StringLen(z.k) /\ StringLen(z.k) <= z.k + 5
  BY <1>1, SMTT(60) DEF StringLen
<1> DEFINE nodeID == IF z.n = 0 THEN 0 ELSE 2 + StringLen(z.n)
           value == IF z.v = Nil THEN 0 ELSE 2 + BytesLen(z.v)
           bytes == IF z.v = Nil THEN 0 ELSE z.v
           delta == IF z.d = 0 THEN 0 ELSE 2 + 9
           ttl == IF z.ttl = 0 THEN 0 ELSE 4 + IntLen(z.ttl)
<1>6. nodeID \in Int /\ 0 <= nodeID /\ nodeID <= z.n + 7
  BY <1>1, SMTT(60) DEF StringLen
<1>7. value \in Int /\ bytes \in Nat /\ 0 <= value /\ value <= bytes + 7
  BY <1>1, SMTT(60) DEF BytesLen
<1>8. /\ delta \in Int /\ 0 <= delta /\ delta <= 11
      /\ ttl \in Int /\ 0 <= ttl /\ ttl <= 13
  BY <1>2, SMTT(60)
<1>9. EntryLen(z) =
        1 + 2 + UintLen(z.s) + 2 + TimestampLen(z.t) + 3 + IntLen(z.ba) + 2 + UintLen(z.o)
          + 2 + StringLen(z.k) + nodeID + value + delta + ttl
  BY SMTT(60) DEF EntryLen
<1>10. Msgsize(z) = 94 + z.k + z.n + bytes
  <2>1. TimestampSize = 19
    BY DEF TimestampSize, IntSize, Int32Size
  <2>2. Msgsize(z) =
          1 + 2 + IntSize + 2 + TimestampSize + 3 + IntSize + 2 + ByteSize
            + 2 + PrefixSize + z.k + 2 + PrefixSize + z.n + 2 + PrefixSize + bytes
            + 2 + IntSize + 4 + IntSize
    BY SMTT(60) DEF Msgsize
  <2> HIDE DEF bytes
  <2> QED BY <1>1, <1>7, <2>1, <2>2, SMTT(60) DEF IntSize, ByteSize, PrefixSize
<1> HIDE DEF nodeID, value, bytes, delta, ttl
<1> QED
  BY <1>1, <1>2, <1>3, <1>4, <1>5, <1>6, <1>7, <1>8, <1>9, <1>10, SMTT(60)

(* The log with its encodings implements the log that knows descriptors    *)
(* only.                                                                   *)
THEOREM WireImplementsLog == WireSpec => Spec
<1>1. WireInit => Init
  BY Zenon DEF WireInit
<1>2. [WireNext]_wireVars => [Next]_vars
  <2> SUFFICES ASSUME [WireNext]_wireVars PROVE [Next]_vars
    BY Zenon
  <2>1. CASE \E e \in Entries : WireAppend(e)
    BY <2>1, WireLogAssumption, Zenon DEF WireAppend, Next
  <2>2. CASE \E startSeq \in 1..head - 1, h \in Handshakes : SendBatch(startSeq, h)
    BY <2>2, Zenon DEF SendBatch
  <2>3. CASE UNCHANGED wireVars
    BY <2>3, Zenon DEF wireVars
  <2> QED BY <2>1, <2>2, <2>3, Zenon DEF WireNext
<1> QED BY <1>1, <1>2, PTL DEF WireSpec, Spec

(* Of every entry that is appended.                                        *)
THEOREM SizesAreBounds == WireSpec => []MsgsizeIsBound
<1> DEFINE Logged == head \in Nat \ {0} /\ entries \in [1..head - 1 -> LogEntry]
<1>1. WireInit => Logged
  BY SMTT(60) DEF WireInit, Init
<1>2. Logged /\ [WireNext]_wireVars => Logged'
  <2> SUFFICES ASSUME Logged, [WireNext]_wireVars PROVE Logged'
    BY Zenon
  <2>1. ASSUME NEW e \in Entries, WireAppend(e) PROVE Logged'
    <3>1. head' = head + 1
      BY <2>1, Zenon DEF WireAppend, LogAppend
    <3>2. 1..head' - 1 = 1..head
      BY <3>1, SMTT(60)
    <3>3. [e EXCEPT !.s = head] \in LogEntry
      <4>1. e \in LogEntry /\ head \in Nat
        BY WireLogAssumption, Zenon
      <4> HIDE DEF Logged
      <4> QED BY <4>1, SMTT(60) DEF LogEntry
    <3>4. \A s \in 1..head : s # head => s \in 1..head - 1
      BY SMTT(60)
    <3>5. entries' = [s \in 1..head |-> IF s = head THEN [e EXCEPT !.s = s]
                                                   ELSE entries[s]]
      BY <2>1, Zenon DEF WireAppend
    <3>6. entries' \in [1..head -> LogEntry]
      BY <3>3, <3>4, <3>5, Zenon
    <3> QED BY <3>1, <3>2, <3>6, SMTT(60)
  <2>2. CASE \E startSeq \in 1..head - 1, h \in Handshakes : SendBatch(startSeq, h)
    BY <2>2, Zenon DEF SendBatch, vars, ring
  <2>3. CASE UNCHANGED wireVars
    BY <2>3, Zenon DEF wireVars, vars, ring
  <2> QED BY <2>1, <2>2, <2>3, Zenon DEF WireNext
<1>3. Logged => MsgsizeIsBound
  BY MsgsizeBounds, Zenon DEF MsgsizeIsBound
<1> QED BY <1>1, <1>2, <1>3, PTL DEF WireSpec

(* The log with its encodings returns the entries it still holds whole.    *)
THEOREM WireReadsAreIntact == WireSpec => []ReadsIntact
BY WireImplementsLog, ReadsAreIntact, PTL

(***************************************************************************)
(* Encoding and decoding                                                   *)
(***************************************************************************)

(* What was marshalled is decoded as it was, if the struct that it is      *)
(* decoded into has in each omitted field what the field was omitted for.  *)
LEMMA DecodedAsMarshalled ==
  ASSUME NEW z, NEW zero, NEW omitted,
         IsFiniteSet(DOMAIN z), omitted \subseteq DOMAIN z,
         z = [f \in DOMAIN z |-> z[f]], DOMAIN zero = DOMAIN z,
         \A f \in omitted : z[f] = zero[f]
  PROVE  /\ Decodes(Marshalled(z, omitted))
         /\ DOMAIN Marshalled(z, omitted).fields = DOMAIN z \ omitted
         /\ \A f \in DOMAIN z \ omitted : Marshalled(z, omitted).fields[f] = z[f]
         /\ Decoded(zero, Marshalled(z, omitted)) = z
<1> DEFINE m == Marshalled(z, omitted)
<1>1. /\ m.size = Cardinality(DOMAIN z) - Cardinality(omitted)
      /\ m.fields = [f \in DOMAIN z \ omitted |-> z[f]]
  BY Zenon DEF Marshalled
<1> HIDE DEF m
<1>2. DOMAIN m.fields = DOMAIN z \ omitted
  BY <1>1, Zenon
<1>3. \A f \in DOMAIN z \ omitted : m.fields[f] = z[f]
  BY <1>1, Zenon
<1>4. Cardinality(DOMAIN z \ omitted) = Cardinality(DOMAIN z) - Cardinality(omitted)
  <2>1. DOMAIN z \cap omitted = omitted
    BY Zenon
  <2>2. Cardinality(DOMAIN z \ omitted)
          = Cardinality(DOMAIN z) - Cardinality(DOMAIN z \cap omitted)
    BY FS_Difference, Zenon
  <2> QED BY <2>1, <2>2, Zenon
<1>5. Decodes(m)
  BY <1>1, <1>2, <1>4, Zenon DEF Decodes
<1>6. Decoded(zero, m) = [f \in DOMAIN z |-> IF f \in DOMAIN m.fields THEN m.fields[f]
                                             ELSE zero[f]]
  BY <1>5, Zenon DEF Decoded
<1>7. \A f \in DOMAIN z : (IF f \in DOMAIN m.fields THEN m.fields[f] ELSE zero[f]) = z[f]
  BY <1>2, <1>3, Zenon
<1>8. Decoded(zero, m) = [f \in DOMAIN z |-> z[f]]
  BY <1>6, <1>7, Zenon
<1> QED BY <1>2, <1>3, <1>5, <1>8, Zenon DEF m

LEMMA FieldsFinite ==
  /\ IsFiniteSet({"s", "t", "ba", "o", "k", "n", "v", "d", "ttl"})
  /\ IsFiniteSet({"ls", "at"}) /\ IsFiniteSet({"f", "e", "h"})
<1>1. \A a, b : IsFiniteSet({a, b})
  <2> SUFFICES ASSUME NEW a, NEW b PROVE IsFiniteSet({a, b})
    BY Zenon
  <2>1. IsFiniteSet({a}) 
    BY FS_Singleton, Zenon
  <2>2. IsFiniteSet({a} \cup {b})
    BY <2>1, FS_AddElement, Zenon
  <2>3. {a} \cup {b} = {a, b}
    BY Zenon
  <2> QED BY <2>2, <2>3, Zenon
<1>2. \A a, b, c : IsFiniteSet({a, b, c})
  <2> SUFFICES ASSUME NEW a, NEW b, NEW c PROVE IsFiniteSet({a, b, c})
    BY Zenon
  <2>1. IsFiniteSet({a, b} \cup {c})
    BY <1>1, FS_AddElement, Zenon
  <2>2. {a, b} \cup {c} = {a, b, c}
    BY Zenon
  <2> QED BY <2>1, <2>2, Zenon
<1>3. \A S, a, b, c : IsFiniteSet(S) => IsFiniteSet(S \cup {a, b, c})
  BY <1>2, FS_Union, Zenon
<1>4. {"s", "t", "ba", "o", "k", "n", "v", "d", "ttl"}
        = ({"s", "t", "ba"} \cup {"o", "k", "n"}) \cup {"v", "d", "ttl"}
  BY Zenon
<1>5. IsFiniteSet(({"s", "t", "ba"} \cup {"o", "k", "n"}) \cup {"v", "d", "ttl"})
  <2>1. IsFiniteSet({"s", "t", "ba"} \cup {"o", "k", "n"})
    BY <1>2, <1>3, Zenon
  <2> QED BY <1>3, <2>1, Zenon
<1> QED BY <1>1, <1>2, <1>4, <1>5, Zenon

(* LogEntry                                                                *)
LEMMA EntryDecodes ==
  ASSUME NEW z \in LogEntry
  PROVE  Decodes(MarshalEntry(z)) /\ UnmarshalEntry(ZeroEntry, MarshalEntry(z)) = z
<1> DEFINE F == {"s", "t", "ba", "o", "k", "n", "v", "d", "ttl"}
<1>1. DOMAIN z = F /\ z = [f \in DOMAIN z |-> z[f]]
  BY Zenon DEF LogEntry
<1>2. DOMAIN ZeroEntry = F
  BY Zenon DEF ZeroEntry
<1>3. OmittedOfEntry(z) \subseteq F
  BY SMTT(60) DEF OmittedOfEntry, OmitIf
<1>4. \A f \in OmittedOfEntry(z) : z[f] = ZeroEntry[f]
  BY SMTT(60) DEF OmittedOfEntry, OmitIf, ZeroEntry
<1>5. IsFiniteSet(F)
  BY FieldsFinite, Zenon
<1> HIDE DEF F
<1>6. /\ Decodes(Marshalled(z, OmittedOfEntry(z)))
      /\ Decoded(ZeroEntry, Marshalled(z, OmittedOfEntry(z))) = z
  BY <1>1, <1>2, <1>3, <1>4, <1>5, DecodedAsMarshalled
<1> QED BY <1>6, Zenon DEF MarshalEntry, UnmarshalEntry

(* Handshake                                                               *)
LEMMA HandshakeDecodes ==
  ASSUME NEW z \in Handshake
  PROVE  DecodeHandshake(Nil, MarshalHandshake(z)) = z
<1> DEFINE F == {"ls", "at"}
           o == OmitIf("at", z.at = 0)
<1>1. DOMAIN z = F /\ z = [f \in DOMAIN z |-> z[f]]
  BY Zenon DEF Handshake
<1>2. DOMAIN ZeroHandshake = F
  BY Zenon DEF ZeroHandshake
<1>3. o \subseteq F /\ \A f \in o : z[f] = ZeroHandshake[f]
  BY SMTT(60) DEF OmitIf, ZeroHandshake
<1>4. IsFiniteSet(F)
  BY FieldsFinite, Zenon
<1>5. Decoded(ZeroHandshake, Marshalled(z, o)) = z
  <2> HIDE DEF F, o
  <2> QED BY <1>1, <1>2, <1>3, <1>4, DecodedAsMarshalled
<1> QED BY <1>5, Zenon DEF DecodeHandshake, MarshalHandshake

(* Batch                                                                   *)
LEMMA BatchDecodes ==
  ASSUME NEW from, NEW raw, NEW h \in Handshake \cup {Nil}
  PROVE  LET b == [f |-> from, e |-> raw, h |-> h]
         IN  /\ DecodeBatch(ZeroBatch, MarshalBatch(b)).e = raw
             /\ DecodeBatch(ZeroBatch, MarshalBatch(b)).h = h
<1> DEFINE F == {"f", "e", "h"}
           b == [f |-> from, e |-> raw, h |-> h]
           z == IF h = Nil THEN b ELSE [b EXCEPT !.h = MarshalHandshake(h)]
           o == OmitIf("h", h = Nil)
           m == Marshalled(z, o)
<1>1. DOMAIN z = F /\ z = [f \in DOMAIN z |-> z[f]]
  BY Zenon
<1>2. z.e = raw /\ (h # Nil => z.h = MarshalHandshake(h)) /\ (h = Nil => z.h = Nil)
  BY Zenon
<1>3. DOMAIN ZeroBatch = F /\ ZeroBatch.h = Nil
  BY Zenon DEF ZeroBatch
<1>4. o \subseteq F /\ (h = Nil => o = {"h"}) /\ (h # Nil => o = {})
  BY SMTT(60) DEF OmitIf
<1>5. MarshalBatch(b) = m
  BY Zenon DEF MarshalBatch
<1>6. IsFiniteSet(F)
  BY FieldsFinite, Zenon
<1> HIDE DEF o, z
<1>7. \A f \in o : z[f] = ZeroBatch[f]
  BY <1>2, <1>3, <1>4, Zenon
<1>8. /\ Decodes(m) /\ DOMAIN m.fields = F \ o
      /\ \A f \in F \ o : m.fields[f] = z[f]
      /\ Decoded(ZeroBatch, m) = z
  <2> HIDE DEF F
  <2>1. IsFiniteSet(DOMAIN z) /\ o \subseteq DOMAIN z /\ DOMAIN ZeroBatch = DOMAIN z
    BY <1>1, <1>3, <1>4, <1>6, Zenon
  <2>2. /\ Decodes(Marshalled(z, o)) /\ Decoded(ZeroBatch, Marshalled(z, o)) = z
        /\ DOMAIN Marshalled(z, o).fields = DOMAIN z \ o
        /\ \A f \in DOMAIN z \ o : Marshalled(z, o).fields[f] = z[f]
    <3> HIDE DEF m
    <3> QED BY <1>1, <1>7, <2>1, DecodedAsMarshalled
  <2> QED BY <1>1, <2>2, Zenon
<1> HIDE DEF m
<1>9. CASE h = Nil
  <2>1. "h" \notin DOMAIN m.fields
    BY <1>4, <1>8, <1>9, Zenon
  <2>2. DecodeBatch(ZeroBatch, m) = z
    BY <1>8, <2>1, Zenon DEF DecodeBatch
  <2> QED BY <1>2, <1>5, <1>9, <2>2, Zenon
<1>10. CASE h # Nil
  <2>1. "h" \in DOMAIN m.fields /\ m.fields["h"] = z.h
    BY <1>4, <1>8, <1>10, Zenon
  <2>2. DecodeHandshake(ZeroBatch.h, m.fields.h) = h
    BY <1>2, <1>3, <1>10, <2>1, HandshakeDecodes, Zenon
  <2>3. DecodeBatch(ZeroBatch, m) = [z EXCEPT !.h = h]
    BY <1>8, <2>1, <2>2, Zenon DEF DecodeBatch
  <2>4. [z EXCEPT !.h = h].h = h /\ [z EXCEPT !.h = h].e = raw
    BY <1>1, <1>2, Zenon
  <2> QED BY <1>5, <2>3, <2>4, Zenon
<1> QED BY <1>9, <1>10, Zenon

(***************************************************************************)
(* A batch                                                                 *)
(***************************************************************************)

(* GetEntriesRaw copies the entries from First(startSeq) on, without a gap.*)
LEMMA ReadRange ==
  ASSUME TypeOK, NEW startSeq \in 1..head - 1
  PROVE  LET D == DOMAIN GetEntriesRaw(startSeq)
             s == First(startSeq)
         IN  /\ 1 \in D /\ Cardinality(D) \in Nat /\ D = 1..Cardinality(D)
             /\ s \in Nat \ {0} /\ s + Cardinality(D) <= head
             /\ \A i \in D : s + i - 1 \in Retained
<1> USE DeltaLogAssumption
<1> DEFINE D == DOMAIN GetEntriesRaw(startSeq)
           s == First(startSeq)
           k == Cardinality(D)
<1>1. head \in Nat /\ s \in Nat /\ s >= 1 /\ s < head /\ s >= Earliest /\ Earliest \in Nat
  BY DEF TypeOK, First, Earliest
<1>2. D = {j \in 1..limit : InBatch(s, j)}
  BY Zenon DEF GetEntriesRaw
<1> HIDE DEF s
<1>3. 1 \in D
  <2>1. 2..1 = {}
    OBVIOUS
  <2> QED BY <1>1, <1>2, <2>1 DEF InBatch
<1>4. \A j \in D : \A i \in 1..j : i \in D
  <2> SUFFICES ASSUME NEW j \in D, NEW i \in 1..j PROVE i \in D
    BY Zenon
  <2>1. j \in 1..limit /\ InBatch(s, j)
    BY <1>2, Zenon
  <2>2. i \in 1..limit /\ s + i - 1 < head /\ \A l \in 2..i : l \in 2..j
    BY <1>1, <2>1 DEF InBatch
  <2>3. InBatch(s, i)
    BY <2>1, <2>2, SMT DEF InBatch
  <2> QED BY <1>2, <2>2, <2>3, Zenon
<1> HIDE DEF D
<1>5. IsFiniteSet(D) /\ k \in Nat
  <2>1. IsFiniteSet(1..limit)
    BY FS_Interval
  <2>2. D \in SUBSET (1..limit)
    BY <1>2, Zenon
  <2>3. IsFiniteSet(D)
    BY <2>1, <2>2, FS_Subset, Zenon
  <2> QED BY <2>3, FS_CardinalityType, Zenon
<1>6. \A i \in D : i \in Nat /\ i >= 1 /\ i <= k
  <2> SUFFICES ASSUME NEW i \in D PROVE i \in Nat /\ i >= 1 /\ i <= k
    BY Zenon
  <2>1. i \in Nat /\ i >= 1
    BY <1>2
  <2>2. 1..i \in SUBSET D
    BY <1>4, Zenon
  <2>3. Cardinality(1..i) <= Cardinality(D)
    BY <1>5, <2>2, FS_Subset, Zenon
  <2>4. Cardinality(1..i) = i
    BY <2>1, FS_Interval
  <2> QED BY <2>1, <2>3, <2>4, Zenon
<1>7. D = 1..k
  <2>1. D \in SUBSET (1..k)
    BY <1>5, <1>6
  <2>2. IsFiniteSet(1..k) /\ Cardinality(1..k) = k
    BY <1>5, FS_Interval
  <2> QED BY <2>1, <2>2, FS_Subset, Zenon
<1>8. \A i \in D : s + i - 1 < head
  BY <1>2, Zenon DEF InBatch
<1>9. s + k <= head
  <2>1. k \in D
    BY <1>3, <1>5, <1>6, <1>7
  <2> QED BY <1>1, <1>5, <1>8, <2>1
<1>10. \A i \in D : s + i - 1 \in Retained
  BY <1>1, <1>6, <1>8 DEF Retained
<1> QED BY <1>1, <1>3, <1>5, <1>7, <1>9, <1>10 DEF s, D

LEMMA Progress == TypeOK => ReadsMakeProgress
BY ReadRange, Zenon DEF ReadsMakeProgress

(* What GetEntriesRaw copies is the encoding of the entry.                 *)
LEMMA RawIsEncoding ==
  ASSUME TypeOK, Intact, Described, NEW s \in Retained, Held(s)
  PROVE  entries[s] \in LogEntry /\ Raw(s) = MarshalEntry(entries[s])
<1>1. s \in 1..head - 1 /\ Offset(s) \in Nat /\ End(s) \in Nat
  BY RetainedType, Zenon
<1>2. DOMAIN entries = 1..head - 1 /\ entries[s] \in LogEntry
  BY <1>1, Zenon DEF Described
<1>3. /\ End(s) <= bufCap /\ Info(s).length > 0
      /\ \A b \in Offset(s)..End(s) - 1 : data[b] = s
  BY Zenon DEF Intact
<1>4. Info(s).length = EncodedLen(s)
  BY Zenon DEF Described
<1>5. Offset(s)..End(s) - 1 \subseteq 0..bufCap - 1 /\ DOMAIN data = 0..bufCap - 1
  BY <1>1, <1>3, BufCapType DEF TypeOK
<1>6. End(s) - 1 = Info(s).offset + EncodedLen(s) - 1 /\ EncodedLen(s) <= Info(s).length
  <2>1. Info(s).length \in Nat /\ Info(s).offset \in Nat
    BY RetainedType, Zenon DEF Offset
  <2> QED BY <1>4, <2>1 DEF End
<1>7. At(s, Info(s).offset)
  BY <1>3, <1>5, <1>6, Zenon DEF At, Offset
<1>8. \A q \in DOMAIN entries : At(q, Info(s).offset) => q = s
  <2> SUFFICES ASSUME NEW q \in DOMAIN entries, At(q, Info(s).offset) PROVE q = s
    BY Zenon
  <2>1. EncodedLen(q) \in Nat \ {0}
    <3>1. Descriptor[[entries[q] EXCEPT !.s = 0]] \in Entry
      BY <1>2, WireLogAssumption, Zenon DEF Described
    <3> QED BY <3>1, DeltaLogAssumption, Zenon DEF EncodedLen
  <2>2. Offset(s) \in Info(s).offset..Info(s).offset + EncodedLen(q) - 1
    BY <1>1, <2>1 DEF Offset
  <2>3. data[Offset(s)] = q
    BY <2>2, Zenon DEF At
  <2>4. Offset(s) \in Offset(s)..End(s) - 1
    BY <1>1, <1>3, RetainedType DEF Offset, End
  <2> QED BY <1>3, <2>3, <2>4, Zenon
<1>9. Copied(s) = {s}
  BY <1>1, <1>2, <1>6, <1>7, <1>8, Zenon DEF Copied
<1>10. (CHOOSE q \in Copied(s) : TRUE) = s /\ Copied(s) # {}
  BY <1>9, Zenon
<1> QED BY <1>2, <1>10, Zenon DEF Raw

(* Every entry of a batch is decoded into a variable of its own.           *)
LEMMA UnmarshalledEntries ==
  ASSUME NEW raw, NEW k \in Nat, DOMAIN raw = 1..k
  PROVE  Unmarshalled(raw) = [i \in {j \in 1..k : Decodes(raw[j])} |->
                                UnmarshalEntry(ZeroEntry, raw[i])]
<1> DEFINE g == [i \in 0..Cardinality(DOMAIN raw) |->
                   IF i = 0 THEN ZeroEntry ELSE UnmarshalEntry(ZeroEntry, raw[i])]
           z == CHOOSE z : z = [i \in 0..Cardinality(DOMAIN raw) |->
                  IF i = 0 THEN ZeroEntry ELSE UnmarshalEntry(EntryTarget(z[i - 1]), raw[i])]
<1>1. Cardinality(DOMAIN raw) = k
  BY FS_Interval
<1>2. z = g
  BY Zenon DEF EntryTarget
<1>3. Unmarshalled(raw) = [i \in {j \in DOMAIN raw : Decodes(raw[j])} |-> z[i]]
  BY Zenon DEF Unmarshalled
<1>4. \A i \in 1..k : g[i] = UnmarshalEntry(ZeroEntry, raw[i])
  BY <1>1
<1> HIDE DEF z, g
<1>5. \A i \in {j \in 1..k : Decodes(raw[j])} : z[i] = UnmarshalEntry(ZeroEntry, raw[i])
  BY <1>2, <1>4, Zenon
<1> QED BY <1>3, <1>5, Zenon

(* What the peer makes of a batch.                                         *)
LEMMA BatchReceived ==
  ASSUME TypeOK, NEW startSeq \in 1..head - 1, NEW h \in Handshakes,
         SendBatch(startSeq, h)
  PROVE  HandshakeAsSent' /\ (Intact /\ Described => ReceivedAsLogged' /\ SentLogged')
<1> DEFINE D == DOMAIN GetEntriesRaw(startSeq)
           k == Cardinality(D)
           first == First(startSeq)
           raw == RawEntries(startSeq)
           held == {i \in D : Held(first + i - 1)}
<1>1. /\ sent' = [h |-> h, first |-> first, count |-> k, held |-> held]
      /\ batch' = DecodeBatch(ZeroBatch, MarshalBatch([f |-> FromNode, e |-> raw, h |-> h]))
      /\ received' = Unmarshalled(batch'.e)
      /\ entries' = entries /\ head' = head
  BY Zenon DEF SendBatch, BatchTarget, vars, ring
<1>2. batch'.e = raw /\ batch'.h = h
  <2>1. h \in Handshake \cup {Nil}
    BY WireLogAssumption, Zenon
  <2> HIDE DEF raw
  <2> QED BY <1>1, <2>1, BatchDecodes, Zenon
<1>3. sent'.h = h /\ sent'.first = first /\ sent'.count = k /\ sent'.held = held
  BY <1>1, Zenon
<1>4. HandshakeAsSent'
  BY <1>2, <1>3, Zenon DEF HandshakeAsSent
<1>5. ASSUME Intact, Described PROVE ReceivedAsLogged' /\ SentLogged'
  <2>1. /\ k \in Nat /\ D = 1..k /\ first \in Nat \ {0} /\ first + k <= head
        /\ \A i \in D : first + i - 1 \in Retained
    BY ReadRange, Zenon
  <2>2. raw = [i \in D |-> Raw(first + i - 1)]
    BY Zenon DEF RawEntries
  <2>3. held \subseteq D /\ \A i \in held : Held(first + i - 1)
    BY Zenon
  <2> HIDE DEF D, k, first, raw, held
  <2>4. \A i \in held : /\ entries[first + i - 1] \in LogEntry
                        /\ raw[i] = MarshalEntry(entries[first + i - 1])
    BY <1>5, <2>1, <2>2, <2>3, RawIsEncoding, Zenon
  <2>5. \A i \in held : /\ Decodes(raw[i])
                        /\ UnmarshalEntry(ZeroEntry, raw[i]) = entries[first + i - 1]
    BY <2>4, EntryDecodes, Zenon
  <2>6. DOMAIN raw = 1..k
    BY <2>1, <2>2, Zenon
  <2>7. Unmarshalled(raw) = [i \in {j \in 1..k : Decodes(raw[j])} |->
                               UnmarshalEntry(ZeroEntry, raw[i])]
    BY <2>1, <2>6, UnmarshalledEntries, Zenon
  <2>8. \A i \in held : /\ i \in DOMAIN Unmarshalled(raw)
                        /\ Unmarshalled(raw)[i] = entries[first + i - 1]
    BY <2>1, <2>3, <2>5, <2>7, Zenon
  <2>9. ReceivedAsLogged'
    BY <1>1, <1>2, <1>3, <2>8, Zenon DEF ReceivedAsLogged
  <2> QED BY <1>1, <1>3, <2>1, <2>3, <2>9, Zenon DEF SentLogged
<1> QED BY <1>4, <1>5, Zenon

(* Append numbers and describes the new entry, and leaves the others.      *)
LEMMA AppendDescribed ==
  ASSUME TypeOK, Described, SentLogged, ReceivedAsLogged,
         NEW e \in Entries, WireAppend(e)
  PROVE  Described' /\ SentLogged' /\ ReceivedAsLogged'
<1>1. /\ head \in Nat \ {0} /\ head' = head + 1
      /\ entries' = [s \in 1..head |-> IF s = head THEN [e EXCEPT !.s = s] ELSE entries[s]]
      /\ sent' = sent /\ received' = received
  BY Zenon DEF WireAppend, LogAppend, TypeOK
<1>2. 1..head' - 1 = 1..head /\ \A s \in 1..head : s # head => s \in 1..head - 1
  BY <1>1, SMT
<1>3. /\ entries'[head] = [e EXCEPT !.s = head]
      /\ \A s \in 1..head - 1 : entries'[s] = entries[s]
  BY <1>1, SMT
<1>4. [e EXCEPT !.s = head] \in LogEntry /\ [[e EXCEPT !.s = head] EXCEPT !.s = 0] = e
  <2>1. e \in LogEntry /\ e.s = 0 /\ head \in Nat
    BY <1>1, WireLogAssumption, Zenon
  <2>2. [e EXCEPT !.s = head] \in LogEntry
    BY <2>1, SMTT(60) DEF LogEntry
  <2>3. e = [f \in DOMAIN e |-> e[f]] /\ "s" \in DOMAIN e
    BY <2>1, Zenon DEF LogEntry
  <2>4. [[e EXCEPT !.s = head] EXCEPT !.s = 0] = [f \in DOMAIN e |-> e[f]]
    BY <2>1, <2>3, Zenon
  <2> QED BY <2>2, <2>3, <2>4, Zenon
<1>5. entries' \in [1..head' - 1 -> LogEntry]
  BY <1>1, <1>2, <1>4, Zenon DEF Described
<1>6. \A s \in Retained' : Info(s)'.length = EncodedLen(s)'
  <2> SUFFICES ASSUME NEW s \in Retained'
               PROVE  Info(s)'.length = Descriptor[[entries'[s] EXCEPT !.s = 0]].len
    BY Zenon DEF EncodedLen
  <2>1. Descriptor[e] \in Entry /\ LogAppend(Descriptor[e])
    BY WireLogAssumption, Zenon DEF WireAppend
  <2>2. \/ s = head /\ Info(s)' = [offset |-> Start(Descriptor[e]), length |-> Descriptor[e].len]
        \/ s \in Retained /\ Info(s)' = Info(s) /\ s < head
    BY <2>1, AppendDescriptors, Zenon
  <2>3. CASE s = head /\ Info(s)' = [offset |-> Start(Descriptor[e]),
                                     length |-> Descriptor[e].len]
    <3>1. entries'[s] = [e EXCEPT !.s = head] /\ Info(s)'.length = Descriptor[e].len
      BY <1>3, <2>3
    <3> QED BY <1>4, <3>1, Zenon
  <2>4. CASE s \in Retained /\ Info(s)' = Info(s) /\ s < head
    <3>1. s \in 1..head - 1
      BY <1>1, <2>4, DeltaLogAssumption DEF Retained, Earliest
    <3> QED BY <1>3, <2>4, <3>1, Zenon DEF Described, EncodedLen
  <2> QED BY <2>2, <2>3, <2>4, Zenon
<1>7. SentLogged'
  BY <1>1 DEF SentLogged
<1>8. ReceivedAsLogged'
  <2>1. \A i \in sent.held : sent.first + i - 1 \in 1..head - 1
    BY <1>1 DEF SentLogged
  <2>2. \A i \in sent.held : entries'[sent.first + i - 1] = entries[sent.first + i - 1]
    BY <1>3, <2>1, Zenon
  <2> QED BY <1>1, <2>2, Zenon DEF ReceivedAsLogged
<1>9. \A s \in 1..head' - 1 : [entries'[s] EXCEPT !.s = 0] \in Entries
  BY <1>2, <1>3, <1>4, Zenon DEF Described
<1> QED BY <1>5, <1>6, <1>7, <1>8, <1>9, Zenon DEF Described

LEMMA WireLogInit == WireInit => Described /\ SentLogged /\ ReceivedAsLogged /\ HandshakeAsSent
<1> SUFFICES ASSUME WireInit PROVE Described /\ SentLogged /\ ReceivedAsLogged /\ HandshakeAsSent
  BY Zenon
<1>1. /\ head = 1 /\ entries = [s \in {} |-> ZeroEntry] /\ received = [i \in {} |-> ZeroEntry]
      /\ sent.h = Nil /\ sent.first = 1 /\ sent.count = 0 /\ sent.held = {}
      /\ batch.h = Nil
  BY Zenon DEF WireInit, Init, NoneSent, ZeroBatch
<1>2. 1..head - 1 = {} /\ Retained = {} /\ 1..sent.count = {}
  BY <1>1, DeltaLogAssumption DEF Retained, Earliest
<1>3. Described
  BY <1>1, <1>2, Zenon DEF Described
<1>4. SentLogged
  BY <1>1 DEF SentLogged
<1>5. ReceivedAsLogged
  BY <1>1, <1>2, Zenon DEF ReceivedAsLogged
<1> QED BY <1>1, <1>3, <1>4, <1>5, Zenon DEF HandshakeAsSent

LEMMA SameLog ==
  ASSUME UNCHANGED wireVars
  PROVE  /\ HandshakeAsSent' <=> HandshakeAsSent
         /\ Described /\ SentLogged /\ ReceivedAsLogged =>
              Described' /\ SentLogged' /\ ReceivedAsLogged'
BY Zenon DEF wireVars, vars, ring, HandshakeAsSent, Described, SentLogged, ReceivedAsLogged,
             Retained, Earliest, Info, EncodedLen

(* Every read below head returns at least one entry, so that a replicator  *)
(* that is behind never sends an empty batch again and again.              *)
THEOREM ReadsDoProgress == WireSpec => []ReadsMakeProgress
<1>1. WireSpec => []TypeOK
  BY WireImplementsLog, TypeCorrect, PTL
<1> QED BY <1>1, Progress, PTL

(* The peer sees the handshake of every batch that carries one, and none   *)
(* in the others, whatever was sent before: handleConn decodes each batch  *)
(* into a variable of its own, which the fields that are omitted leave at  *)
(* zero.                                                                   *)
THEOREM HandshakesAsSent == WireSpec => []HandshakeAsSent
<1>1. WireSpec => []TypeOK
  BY WireImplementsLog, TypeCorrect, PTL
<1>2. WireInit => HandshakeAsSent
  BY WireLogInit, Zenon
<1>3. TypeOK /\ HandshakeAsSent /\ [WireNext]_wireVars => HandshakeAsSent'
  <2> SUFFICES ASSUME TypeOK, HandshakeAsSent, [WireNext]_wireVars PROVE HandshakeAsSent'
    BY Zenon
  <2>1. ASSUME NEW e \in Entries, WireAppend(e) PROVE HandshakeAsSent'
    BY <2>1, Zenon DEF WireAppend, HandshakeAsSent
  <2>2. ASSUME NEW startSeq \in 1..head - 1, NEW h \in Handshakes, SendBatch(startSeq, h)
        PROVE  HandshakeAsSent'
    BY <2>2, BatchReceived, Zenon
  <2> QED BY <2>1, <2>2, SameLog, Zenon DEF WireNext
<1> QED BY <1>1, <1>2, <1>3, PTL DEF WireSpec

(* The peer applies every entry that the log still held when it was read   *)
(* exactly as it was appended, however large the entries around it are and *)
(* however often the rings have wrapped, and although fields that are zero *)
(* are not sent.                                                           *)
THEOREM EntriesReceivedAsLogged == WireSpec => []ReceivedAsLogged
<1>1. WireSpec => []DeltaLogInv
  BY WireImplementsLog, RingsCooperate, PTL
<1>2. WireInit => Described /\ SentLogged /\ ReceivedAsLogged
  BY WireLogInit, Zenon
<1>3. DeltaLogInv /\ Described /\ SentLogged /\ ReceivedAsLogged /\ [WireNext]_wireVars
        => Described' /\ SentLogged' /\ ReceivedAsLogged'
  <2> SUFFICES ASSUME DeltaLogInv, Described, SentLogged, ReceivedAsLogged,
                      [WireNext]_wireVars
               PROVE  Described' /\ SentLogged' /\ ReceivedAsLogged'
    BY Zenon
  <2>0. TypeOK /\ Intact
    BY Zenon DEF DeltaLogInv
  <2>1. ASSUME NEW e \in Entries, WireAppend(e)
        PROVE  Described' /\ SentLogged' /\ ReceivedAsLogged'
    BY <2>0, <2>1, AppendDescribed, Zenon
  <2>2. ASSUME NEW startSeq \in 1..head - 1, NEW h \in Handshakes, SendBatch(startSeq, h)
        PROVE  Described' /\ SentLogged' /\ ReceivedAsLogged'
    <3>1. ReceivedAsLogged' /\ SentLogged'
      BY <2>0, <2>2, BatchReceived, Zenon
    <3>2. Described'
      BY <2>2, Zenon DEF SendBatch, vars, ring, Described, Retained, Earliest, Info, EncodedLen
    <3> QED BY <3>1, <3>2, Zenon
  <2> QED BY <2>1, <2>2, SameLog, Zenon DEF WireNext
<1> QED BY <1>1, <1>2, <1>3, PTL DEF WireSpec
=============================================================================
