------------------------- MODULE ReplicationProofs -------------------------
(***************************************************************************)
(* Proofs about Replication, for any number of nodes, entries, connections *)
(* and failures.                                                           *)
(***************************************************************************)
EXTENDS Replication, TLAPS

(***************************************************************************)
(* Type correctness                                                        *)
(***************************************************************************)

(* The indices of the state's functions.                                   *)
LEMMA Indices ==
  ASSUME NEW n \in Node, NEW p \in Node
  PROVE  /\ <<n, p>> \in Link
         /\ \A i \in Inc : <<n, p, i>> \in Replicator
         /\ \A c \in Conn : <<n, p, c>> \in Handler
BY Zenon DEF Link, Replicator, Handler

LEMMA Constants ==
  /\ 0 \in 0..MaxJoins /\ 0 \in 0..MaxConns
  /\ \A i \in Inc : i \in 0..MaxJoins
  /\ \A c \in Conn : c \in 0..MaxConns
  /\ NoJob \in Job /\ Idle \in Rest
BY ReplicationAssumption, SMTT(60) DEF Inc, Conn, NoJob, Job, Idle, Rest

(* What is found at an index.                                              *)
LEMMA Links ==
  ASSUME TypeOK, NEW n \in Node, NEW p \in Node
  PROVE  /\ cursor[<<n, p>>] \in Nat \cup {Absent} /\ seen[<<n, p>>] \in Nat
         /\ started[<<n, p>>] \in 0..MaxJoins
         /\ conn[<<n, p>>] \in 0..MaxConns /\ dialled[<<n, p>>] \in 0..MaxConns
         /\ applied[<<n, p>>] \in SUBSET Nat /\ twice[<<n, p>>] \in SUBSET Nat
         /\ rejected[<<n, p>>] \in SUBSET Nat
<1>1. <<n, p>> \in Link
  BY Indices, Zenon 
<1> QED BY <1>1, Zenon DEF TypeOK

LEMMA Jobs ==
  ASSUME TypeOK, NEW n \in Node, NEW p \in Node, NEW i \in Inc
  PROVE  job[<<n, p, i>>] \in Job
BY Indices, Zenon DEF TypeOK

LEMMA Handlers ==
  ASSUME TypeOK, NEW n \in Node, NEW p \in Node, NEW c \in Conn
  PROVE  stream[<<n, p, c>>] \in Seq(Batch) /\ rx[<<n, p, c>>] \in Rest
BY Indices, Zenon DEF TypeOK

LEMMA Logs ==
  ASSUME TypeOK, NEW n \in Node
  PROVE  /\ log[n] \in Seq(Ops) /\ Len(log[n]) \in Nat
         /\ base[n] \in Nat /\ base[n] <= Len(log[n])
         /\ NextSeq(n) \in Nat /\ NextSeq(n) = (Len(log[n]) - base[n]) + 1
         /\ Earliest(n) \in Nat \ {0} /\ Earliest(n) <= NextSeq(n)
<1>1. log[n] \in Seq(Ops)
  BY Zenon DEF TypeOK
<1>2. Len(log[n]) \in Nat
  BY <1>1, SMTT(60) 
<1>3. base[n] \in Nat /\ base[n] <= Len(log[n])
  BY Zenon DEF TypeOK
<1> QED BY <1>1, <1>2, <1>3, ReplicationAssumption, SMTT(60) DEF NextSeq, Earliest

LEMMA Resume ==
  ASSUME TypeOK, NEW n \in Node, NEW p \in Node
  PROVE  LastSeq(n, p) \in Nat
BY Links, Zenon DEF LastSeq, Absent

LEMMA WokenType ==
  ASSUME TypeOK, NEW n \in Node
  PROVE  Woken(n) \in [Replicator -> Control]
BY Zenon DEF TypeOK, Woken, Control

LEMMA WokenUnlockedType ==
  ASSUME TypeOK, NEW n \in Node, NEW new \in WokenUnlocked(n)
  PROVE  new \in [Replicator -> Control]
<1>1. CASE new = Woken(n)
  BY <1>1, WokenType, Zenon
<1>2. ASSUME NEW g \in Replicator, new = [Woken(n) EXCEPT ![g] = "wait"]
      PROVE  new \in [Replicator -> Control]
  BY <1>2, WokenType, Zenon DEF Control
<1> QED BY <1>1, <1>2, Zenon DEF WokenUnlocked

LEMMA TypeInit == Init => TypeOK
<1> SUFFICES ASSUME Init PROVE TypeOK
  OBVIOUS
<1>1. log \in [Node -> Seq(Ops)] /\ stream \in [Handler -> Seq(Batch)]
  BY SMTT(60) DEF Init
<1>6. base \in [Node -> Nat] /\ \A n \in Node : base[n] <= Len(log[n])
  BY SMTT(60) DEF Init
<1>2. /\ cursor \in [Link -> Nat \cup {Absent}] /\ seen \in [Link -> Nat]
      /\ peerStops \in [Link -> 0..MaxJoins] /\ started \in [Link -> 0..MaxJoins]
      /\ conn \in [Link -> 0..MaxConns] /\ dialled \in [Link -> 0..MaxConns]
  BY Constants, Zenon DEF Init
<1>3. pc \in [Replicator -> Control] /\ broken \in [Link -> BOOLEAN]
  BY Zenon DEF Init, Control
<1>4. job \in [Replicator -> Job] /\ rx \in [Handler -> Rest]
  BY Constants, Zenon DEF Init
<1>5. /\ applied \in [Link -> SUBSET Nat] /\ twice \in [Link -> SUBSET Nat]
      /\ rejected \in [Link -> SUBSET Nat] /\ faults \in Nat
  BY Zenon DEF Init
<1> QED BY <1>1, <1>2, <1>3, <1>4, <1>5, <1>6, Zenon DEF TypeOK

LEMMA TypeLogAppend ==
  ASSUME TypeOK, NEW n \in Node, NEW op \in Ops, LogAppend(n, op)
  PROVE  TypeOK'
<1>1. Append(log[n], op) \in Seq(Ops)
  BY SMTT(60) DEF TypeOK
<1>2. log' \in [Node -> Seq(Ops)]
  BY <1>1, Zenon DEF TypeOK, LogAppend
<1>3. pc' \in [Replicator -> Control]
  BY WokenType, Zenon DEF LogAppend
<1>4. ASSUME NEW m \in Node PROVE base[m] <= Len(log'[m])
  <2>1. log[m] \in Seq(Ops) /\ Len(log[m]) \in Nat /\ base[m] \in Nat
        /\ base[m] <= Len(log[m])
    BY Logs, Zenon
  <2>2. log'[m] = IF m = n THEN Append(log[m], op) ELSE log[m]
    BY Zenon DEF LogAppend, TypeOK
  <2> QED BY <2>1, <2>2, SMTT(60)
<1> QED BY <1>2, <1>3, <1>4, Zenon DEF TypeOK, LogAppend, network, receiver

LEMMA TypeNotifyJoin ==
  ASSUME TypeOK, NEW n \in Node, NEW p \in Node, NotifyJoin(n, p)
  PROVE  TypeOK'
<1>0. started[<<n, p>>] \in 0..MaxJoins
  BY Links, Zenon 
<1>1. started[<<n, p>>] + 1 \in Inc /\ started[<<n, p>>] + 1 \in 0..MaxJoins
  BY <1>0, ReplicationAssumption, SMTT(60) DEF NotifyJoin, Inc
<1>2. <<n, p>> \in Link /\ <<n, p, started[<<n, p>>] + 1>> \in Replicator
  BY <1>1, Indices, Zenon 
<1>3. started' \in [Link -> 0..MaxJoins] /\ peerStops' \in [Link -> 0..MaxJoins]
  BY <1>1, <1>2, Zenon DEF NotifyJoin, TypeOK
<1>4. pc' \in [Replicator -> Control]
  BY <1>2, Zenon DEF NotifyJoin, TypeOK, Control
<1> QED BY <1>3, <1>4, Zenon DEF TypeOK, NotifyJoin, network, receiver

LEMMA TypeNotifyLeave ==
  ASSUME TypeOK, NEW n \in Node, NEW p \in Node, NotifyLeave(n, p)
  PROVE  TypeOK'
<1>1. <<n, p>> \in Link
  BY Indices, Zenon 
<1>2. /\ conn' \in [Link -> 0..MaxConns] /\ peerStops' \in [Link -> 0..MaxJoins]
      /\ cursor' \in [Link -> Nat \cup {Absent}]
  BY <1>1, Constants, Zenon DEF NotifyLeave, TypeOK
<1>3. broken' \in [Link -> BOOLEAN]
  BY <1>1, Zenon DEF NotifyLeave, TypeOK
<1>4. pc' \in [Replicator -> Control]
  BY WokenUnlockedType, Zenon DEF NotifyLeave
<1>5. faults' \in Nat
  BY SMTT(60) DEF NotifyLeave, TypeOK
<1> QED BY <1>2, <1>3, <1>4, <1>5, Zenon DEF TypeOK, NotifyLeave, receiver

LEMMA TypeCheck ==
  ASSUME TypeOK, NEW n \in Node, NEW p \in Node, NEW i \in Inc, Check(n, p, i)
  PROVE  TypeOK'
<1>1. pc' \in [Replicator -> Control]
  BY Indices, Zenon DEF TypeOK, Check, CheckStop, CheckData, CheckWait, Control
<1> QED
  BY <1>1, Zenon DEF TypeOK, Check, CheckStop, CheckData, CheckWait, network, receiver

LEMMA TypeLoad ==
  ASSUME TypeOK, NEW n \in Node, NEW p \in Node, NEW i \in Inc, Load(n, p, i)
  PROVE  TypeOK'
<1>1. LastSeq(n, p) \in Nat
  BY Resume, Zenon
<1>2. cursor' \in [Link -> Nat \cup {Absent}]
  BY <1>1, Indices, Zenon DEF Load, TypeOK
<1>3. pc' \in [Replicator -> Control]
  BY Indices, Zenon DEF Load, TypeOK, Control
<1>4. [NoJob EXCEPT !.last = LastSeq(n, p)] \in Job
  BY <1>1, SMTT(60) DEF NoJob, Job
<1>5. job' \in [Replicator -> Job]
  BY <1>4, Indices, Zenon DEF Load, TypeOK
<1> QED BY <1>2, <1>3, <1>5, Zenon DEF TypeOK, Load, network, receiver

(* Where GetEntriesRaw starts.                                             *)
First(n, last) == IF last + 1 < Earliest(n) THEN Earliest(n) ELSE last + 1

(* What Read does when it finds nothing and when it finds entries.         *)
ReadsNothing(n, p, i) ==
  /\ pc' = [pc EXCEPT ![<<n, p, i>>] = "check"]
  /\ job' = [job EXCEPT ![<<n, p, i>>] = NoJob]

ReadsUpTo(n, p, i, last, first, hi) ==
  /\ first <= hi /\ base[n] + hi <= Len(log[n])
  /\ pc' = [pc EXCEPT ![<<n, p, i>>] = "ask"]
  /\ job' = [job EXCEPT ![<<n, p, i>>] =
       [last |-> last, lo |-> first, hi |-> hi, hs |-> 0]]

LEMMA ReadEffect ==
  ASSUME TypeOK, NEW n \in Node, NEW p \in Node, NEW i \in Inc, Read(n, p, i),
         NEW last, last = job[<<n, p, i>>].last
  PROVE  /\ last \in Nat /\ First(n, last) \in Nat \ {0}
         /\ last + 1 <= First(n, last)
         /\ \/ ReadsNothing(n, p, i)
            \/ \E hi \in Nat : ReadsUpTo(n, p, i, last, First(n, last), hi)
<1> DEFINE first == First(n, last)
<1>1. last \in Nat
  BY Jobs, Zenon DEF Job
<1>2. first \in Nat \ {0} /\ last + 1 <= first
  BY <1>1, Logs, SMTT(60) DEF First
<1>3. ReadsNothing(n, p, i) \/ \E k \in BatchSizes(n, first) :
         /\ pc' = [pc EXCEPT ![<<n, p, i>>] = "ask"]
         /\ job' = [job EXCEPT ![<<n, p, i>>] =
              [last |-> last, lo |-> first, hi |-> first + k - 1, hs |-> 0]]
  BY Zenon DEF Read, First, ReadsNothing
<1>4. ASSUME NEW k \in BatchSizes(n, first)
      PROVE  /\ first + k - 1 \in Nat /\ first <= first + k - 1
             /\ base[n] + (first + k - 1) <= Len(log[n])
  <2> HIDE DEF first
  <2>1. k \in 1..BatchLimit /\ first + k - 1 < NextSeq(n)
    BY Zenon DEF BatchSizes
  <2>2. Len(log[n]) \in Nat /\ base[n] \in Nat /\ NextSeq(n) = (Len(log[n]) - base[n]) + 1
    BY Logs, Zenon
  <2> QED BY <1>2, <2>1, <2>2, ReplicationAssumption, SMTT(60)
<1> HIDE DEF first
<1>5. ReadsNothing(n, p, i) \/ \E hi \in Nat : ReadsUpTo(n, p, i, last, first, hi)
  BY <1>3, <1>4, Zenon DEF ReadsUpTo
<1> QED BY <1>1, <1>2, <1>5, Zenon DEF first

LEMMA TypeRead ==
  ASSUME TypeOK, NEW n \in Node, NEW p \in Node, NEW i \in Inc, Read(n, p, i)
  PROVE  TypeOK'
<1> DEFINE last == job[<<n, p, i>>].last
           first == First(n, last)
<1>1. pc' \in [Replicator -> Control]
  BY Indices, Zenon DEF Read, TypeOK, Control
<1>2. /\ last \in Nat /\ first \in Nat
      /\ ReadsNothing(n, p, i) \/ \E hi \in Nat : ReadsUpTo(n, p, i, last, first, hi)
  BY ReadEffect, Zenon
<1>3. job' \in [Replicator -> Job]
  <2> HIDE DEF last, first
  <2>1. CASE ReadsNothing(n, p, i)
    BY <2>1, Constants, Indices, Zenon DEF TypeOK, ReadsNothing
  <2>2. ASSUME NEW hi \in Nat, ReadsUpTo(n, p, i, last, first, hi)
        PROVE  job' \in [Replicator -> Job]
    <3>0. first <= hi
      BY <2>2, Zenon DEF ReadsUpTo
    <3>1. [last |-> last, lo |-> first, hi |-> hi, hs |-> 0] \in Job
      BY <1>2, <3>0, SMTT(60) DEF Job
    <3> QED BY <2>2, <3>1, Indices, Zenon DEF TypeOK, ReadsUpTo
  <2> QED BY <1>2, <2>1, <2>2, Zenon
<1> QED BY <1>1, <1>3, Zenon DEF TypeOK, Read, network, receiver

LEMMA TypeAsk ==
  ASSUME TypeOK, NEW n \in Node, NEW p \in Node, NEW i \in Inc, Ask(n, p, i)
  PROVE  TypeOK'
<1>1. pc' \in [Replicator -> Control]
  BY Indices, Zenon DEF Ask, TypeOK, Control
<1>2. [job[<<n, p, i>>] EXCEPT !.hs = seen[<<n, p>>]] \in Job
  <2>1. job[<<n, p, i>>] \in Job /\ seen[<<n, p>>] \in Nat
    BY Jobs, Links, Zenon
  <2> QED BY <2>1, SMTT(60) DEF Job
<1>3. job' = [job EXCEPT ![<<n, p, i>>] = [job[<<n, p, i>>] EXCEPT !.hs = seen[<<n, p>>]]]
  BY Zenon DEF Ask
<1>4. job' \in [Replicator -> Job]
  BY <1>2, <1>3, Indices, Zenon DEF TypeOK
<1> QED BY <1>1, <1>4, Zenon DEF TypeOK, Ask, network, receiver

(* The connection that Send uses and the batch it puts on it.              *)
SendConn(n, p) ==
  IF conn[<<n, p>>] = 0 THEN dialled[<<n, p>>] + 1 ELSE conn[<<n, p>>]
SentBatch(n, p, i) ==
  [base |-> base[n],
   hs |-> IF conn[<<n, p>>] = 0 THEN job[<<n, p, i>>].hs ELSE Absent,
   lo |-> job[<<n, p, i>>].lo, hi |-> job[<<n, p, i>>].hi]

LEMMA SendEffect ==
  ASSUME TypeOK, NEW n \in Node, NEW p \in Node, NEW i \in Inc, Send(n, p, i)
  PROVE  /\ SendConn(n, p) \in Conn
         /\ conn' = [conn EXCEPT ![<<n, p>>] = SendConn(n, p)]
         /\ dialled' = [dialled EXCEPT ![<<n, p>>] =
              IF conn[<<n, p>>] = 0 THEN SendConn(n, p) ELSE dialled[<<n, p>>]]
         /\ stream' = [stream EXCEPT ![<<n, p, SendConn(n, p)>>] =
              Append(stream[<<n, p, SendConn(n, p)>>], SentBatch(n, p, i))]
         /\ SentBatch(n, p, i) \in Batch
         /\ Append(stream[<<n, p, SendConn(n, p)>>], SentBatch(n, p, i)) \in Seq(Batch)
<1>1. SendConn(n, p) \in Conn
  BY Zenon DEF Send, SendConn
<1>2. /\ conn' = [conn EXCEPT ![<<n, p>>] = SendConn(n, p)]
      /\ dialled' = [dialled EXCEPT ![<<n, p>>] =
              IF conn[<<n, p>>] = 0 THEN SendConn(n, p) ELSE dialled[<<n, p>>]]
  BY Zenon DEF Send, SendConn
<1>3. stream' = [stream EXCEPT ![<<n, p, SendConn(n, p)>>] =
              Append(stream[<<n, p, SendConn(n, p)>>], SentBatch(n, p, i))]
  BY Zenon DEF Send, SendConn, SentBatch
<1>4. SentBatch(n, p, i) \in Batch
  BY Links, Jobs, Logs, Zenon DEF SentBatch, Batch, Job
<1>5. Append(stream[<<n, p, SendConn(n, p)>>], SentBatch(n, p, i)) \in Seq(Batch)
  BY <1>1, <1>4, Handlers, SMTT(60) 
<1> QED BY <1>1, <1>2, <1>3, <1>4, <1>5, Zenon 

LEMMA TypeSend ==
  ASSUME TypeOK, NEW n \in Node, NEW p \in Node, NEW i \in Inc, Send(n, p, i)
  PROVE  TypeOK'
<1>1. SendConn(n, p) \in Conn /\ SendConn(n, p) \in 0..MaxConns
  BY SendEffect, Constants, Zenon 
<1>2. <<n, p>> \in Link /\ <<n, p, SendConn(n, p)>> \in Handler
  BY <1>1, Indices, Zenon 
<1>3. conn' \in [Link -> 0..MaxConns]
  <2>1. conn' = [conn EXCEPT ![<<n, p>>] = SendConn(n, p)]
    BY SendEffect, Zenon 
  <2> QED BY <1>1, <1>2, <2>1, Zenon DEF TypeOK
<1>4. dialled' \in [Link -> 0..MaxConns]
  <2>1. dialled' = [dialled EXCEPT ![<<n, p>>] =
              IF conn[<<n, p>>] = 0 THEN SendConn(n, p) ELSE dialled[<<n, p>>]]
    BY SendEffect, Zenon 
  <2>2. dialled[<<n, p>>] \in 0..MaxConns
    BY Links, Zenon 
  <2> QED BY <1>1, <1>2, <2>1, <2>2, Zenon DEF TypeOK
<1>5. stream' \in [Handler -> Seq(Batch)]
  BY <1>2, SendEffect, Zenon DEF TypeOK
<1>6. pc' \in [Replicator -> Control]
  BY Indices, Zenon DEF TypeOK, Send, Control
<1> QED BY <1>3, <1>4, <1>5, <1>6, Zenon DEF TypeOK, Send, receiver

LEMMA TypeSendLost ==
  ASSUME TypeOK, NEW n \in Node, NEW p \in Node, NEW i \in Inc, SendLost(n, p, i)
  PROVE  TypeOK'
<1>1. pc' \in [Replicator -> Control]
  BY Indices, Zenon DEF TypeOK, SendLost, Control
<1> QED BY <1>1, Zenon DEF TypeOK, SendLost, network, receiver

LEMMA TypeSendFail ==
  ASSUME TypeOK, NEW n \in Node, NEW p \in Node, NEW i \in Inc, SendFail(n, p, i)
  PROVE  TypeOK'
<1>1. <<n, p>> \in Link /\ <<n, p, i>> \in Replicator
  BY Indices, Zenon 
<1>2. conn' \in [Link -> 0..MaxConns] /\ faults' \in Nat
  BY <1>1, Constants, SMTT(60) DEF SendFail, TypeOK
<1>3. broken' \in [Link -> BOOLEAN]
  BY <1>1, Zenon DEF SendFail, TypeOK
<1>4. pc' \in [Replicator -> Control]
  BY <1>1, Zenon DEF SendFail, TypeOK, Control
<1>5. job' \in [Replicator -> Job]
  BY <1>1, Constants, Zenon DEF SendFail, TypeOK
<1> QED BY <1>2, <1>3, <1>4, <1>5, Zenon DEF TypeOK, SendFail, receiver

LEMMA TypeStoreCursor ==
  ASSUME TypeOK, NEW n \in Node, NEW p \in Node, NEW i \in Inc, StoreCursor(n, p, i)
  PROVE  TypeOK'
<1>1. <<n, p>> \in Link /\ <<n, p, i>> \in Replicator
  BY Indices, Zenon 
<1>2. job[<<n, p, i>>].last + (job[<<n, p, i>>].hi - job[<<n, p, i>>].lo + 1) \in Nat
  BY Jobs, SMTT(60) DEF Job
<1>3. cursor' \in [Link -> Nat \cup {Absent}]
  BY <1>1, <1>2, Zenon DEF StoreCursor, TypeOK
<1>4. pc' \in [Replicator -> Control]
  BY <1>1, Zenon DEF StoreCursor, TypeOK, Control
<1>5. job' \in [Replicator -> Job]
  BY <1>1, Constants, Zenon DEF StoreCursor, TypeOK
<1> QED BY <1>3, <1>4, <1>5, Zenon DEF TypeOK, StoreCursor, network, receiver

LEMMA TypeCloseIdle ==
  ASSUME TypeOK, NEW n \in Node, NEW p \in Node, CloseIdle(n, p)
  PROVE  TypeOK'
<1>1. <<n, p>> \in Link
  BY Indices, Zenon 
<1>2. conn' \in [Link -> 0..MaxConns]
  BY <1>1, Constants, Zenon DEF TypeOK, CloseIdle
<1>3. broken' \in [Link -> BOOLEAN]
  BY <1>1, Zenon DEF TypeOK, CloseIdle
<1> QED BY <1>2, <1>3, Zenon DEF TypeOK, CloseIdle, sender, receiver

(* What Receive takes from the stream.                                     *)
LEMMA ReceiveEffect ==
  ASSUME TypeOK, NEW n \in Node, NEW p \in Node, NEW c \in Conn, Receive(n, p, c)
  PROVE  LET b == Head(stream[<<n, p, c>>])
         IN  /\ b = stream[<<n, p, c>>][1] /\ b \in Batch
             /\ Len(stream[<<n, p, c>>]) \in Nat \ {0}
             /\ Tail(stream[<<n, p, c>>]) \in Seq(Batch)
             /\ [base |-> b.base, lo |-> b.lo, hi |-> b.hi] \in Rest
<1> DEFINE q == stream[<<n, p, c>>]
<1>1. q \in Seq(Batch) /\ q # << >>
  BY Handlers, Zenon DEF Receive
<1>2. Head(q) = q[1] /\ Head(q) \in Batch /\ Len(q) \in Nat \ {0} /\ Tail(q) \in Seq(Batch)
  BY <1>1, SMTT(60) 
<1>3. [base |-> Head(q).base, lo |-> Head(q).lo, hi |-> Head(q).hi] \in Rest
  BY <1>2, Zenon DEF Batch, Rest
<1> QED BY <1>2, <1>3, Zenon 

LEMMA TypeReceive ==
  ASSUME TypeOK, NEW n \in Node, NEW p \in Node, NEW c \in Conn, Receive(n, p, c)
  PROVE  TypeOK'
<1> DEFINE b == Head(stream[<<n, p, c>>])
<1>1. b \in Batch /\ Tail(stream[<<n, p, c>>]) \in Seq(Batch)
      /\ [base |-> b.base, lo |-> b.lo, hi |-> b.hi] \in Rest
  BY ReceiveEffect, Zenon 
<1>2. <<n, p, c>> \in Handler /\ <<p, n>> \in Link
  BY Indices, Zenon 
<1>3. b.hs \in Nat \cup {Absent}
  BY <1>1, Zenon DEF Batch
<1>4. cursor' \in [Link -> Nat \cup {Absent}]
  BY <1>2, <1>3, Zenon DEF Receive, TypeOK
<1>5. rx' \in [Handler -> Rest]
  BY <1>1, <1>2, Zenon DEF Receive, TypeOK
<1>6. stream' \in [Handler -> Seq(Batch)]
  BY <1>1, <1>2, Zenon DEF Receive, TypeOK
<1> QED BY <1>4, <1>5, <1>6, Zenon DEF TypeOK, Receive, sender

(* A handler that is not idle is at an entry of its batch and moves on to  *)
(* the next.                                                               *)
LEMMA AdvancedEffect ==
  ASSUME TypeOK, NEW n \in Node, NEW p \in Node, NEW c \in Conn,
         rx[<<n, p, c>>] # Idle
  PROVE  /\ Current(n, p, c) \in Nat /\ Current(n, p, c) <= rx[<<n, p, c>>].hi
         /\ rx[<<n, p, c>>].hi \in Nat /\ rx[<<n, p, c>>].base \in Nat
         /\ Place(n, p, c) \in Nat
         /\ Advanced(n, p, c) \in [Handler -> Rest]
         /\ Advanced(n, p, c)[<<n, p, c>>] \in
              {Idle, [base |-> rx[<<n, p, c>>].base, lo |-> Current(n, p, c) + 1,
                      hi |-> rx[<<n, p, c>>].hi]}
         /\ Advanced(n, p, c)[<<n, p, c>>] = Idle => Current(n, p, c) = rx[<<n, p, c>>].hi
         /\ \A h \in Handler : h # <<n, p, c>> => Advanced(n, p, c)[h] = rx[h]
<1> DEFINE r == rx[<<n, p, c>>]
           rest == [base |-> r.base, lo |-> r.lo + 1, hi |-> r.hi]
           next == IF r.lo = r.hi THEN Idle ELSE [r EXCEPT !.lo = r.lo + 1]
<1>1. r \in [base : Nat, lo : Nat, hi : Nat] /\ r.lo <= r.hi
  BY Handlers, Zenon DEF Rest
<1>2. next \in Rest /\ next \in {Idle, rest} /\ (next = Idle => r.lo = r.hi)
  <2>1. [r EXCEPT !.lo = r.lo + 1] = rest
    BY <1>1, SMTT(60)
  <2>2. rest # Idle \/ r.lo = r.hi
    BY <1>1, SMTT(60) DEF Idle
  <2>3. r.lo # r.hi => rest \in Rest
    BY <1>1, SMTT(60) DEF Rest
  <2>4. Idle \in Rest
    BY Constants, Zenon
  <2> HIDE DEF rest, r
  <2> QED BY <2>1, <2>2, <2>3, <2>4, Zenon
<1>3. Advanced(n, p, c) = [rx EXCEPT ![<<n, p, c>>] = next]
  BY Zenon DEF Advanced, Current
<1>4. rx \in [Handler -> Rest] /\ <<n, p, c>> \in Handler
  BY Indices, Zenon DEF TypeOK
<1>5. Place(n, p, c) \in Nat
  BY <1>1, SMTT(60) DEF Place, Current
<1> HIDE DEF next
<1>6. Advanced(n, p, c) \in [Handler -> Rest]
  BY <1>2, <1>3, <1>4, Zenon 
<1>7. Advanced(n, p, c)[<<n, p, c>>] = next
      /\ \A h \in Handler : h # <<n, p, c>> => Advanced(n, p, c)[h] = rx[h]
  BY <1>3, <1>4, Zenon 
<1> QED BY <1>1, <1>2, <1>5, <1>6, <1>7, Zenon DEF Current

LEMMA TypeApplyEntry ==
  ASSUME TypeOK, NEW n \in Node, NEW p \in Node, NEW c \in Conn, ApplyEntry(n, p, c)
  PROVE  TypeOK'
<1>1. /\ Current(n, p, c) \in Nat /\ Place(n, p, c) \in Nat
      /\ Advanced(n, p, c) \in [Handler -> Rest]
  BY AdvancedEffect, Zenon DEF ApplyEntry
<1>2. <<p, n>> \in Link
  BY Indices, Zenon 
<1>3. twice' \in [Link -> SUBSET Nat]
  BY <1>1, <1>2, Zenon DEF ApplyEntry, TypeOK
<1>4. applied' \in [Link -> SUBSET Nat]
  BY <1>1, <1>2, Zenon DEF ApplyEntry, TypeOK
<1>5. seen' \in [Link -> Nat]
  BY <1>1, <1>2, Zenon DEF ApplyEntry, TypeOK
<1>6. rx' \in [Handler -> Rest]
  BY <1>1, Zenon DEF ApplyEntry
<1> QED BY <1>3, <1>4, <1>5, <1>6, Zenon DEF TypeOK, ApplyEntry, sender, network

LEMMA TypeRejectEntry ==
  ASSUME TypeOK, NEW n \in Node, NEW p \in Node, NEW c \in Conn, RejectEntry(n, p, c)
  PROVE  TypeOK'
<1>1. /\ Current(n, p, c) \in Nat /\ Place(n, p, c) \in Nat
      /\ Advanced(n, p, c) \in [Handler -> Rest]
  BY AdvancedEffect, Zenon DEF RejectEntry
<1>2. <<p, n>> \in Link
  BY Indices, Zenon 
<1>3. rejected' \in [Link -> SUBSET Nat]
  BY <1>1, <1>2, Zenon DEF RejectEntry, TypeOK
<1>5. faults' \in Nat
  BY SMTT(60) DEF RejectEntry, TypeOK
<1>4. rx' \in [Handler -> Rest]
  BY <1>1, Zenon DEF RejectEntry
<1> QED BY <1>3, <1>4, <1>5, Zenon DEF TypeOK, RejectEntry, sender, network

LEMMA TypeBreakConn ==
  ASSUME TypeOK, NEW n \in Node, NEW p \in Node, BreakConn(n, p)
  PROVE  TypeOK'
<1> DEFINE c == conn[<<n, p>>]
<1>1. c \in Conn
  <2>1. c \in 0..MaxConns /\ c # 0
    BY Links, Zenon DEF BreakConn
  <2> QED BY <2>1, ReplicationAssumption, SMTT(60) DEF Conn
<1>2. <<n, p>> \in Link /\ <<n, p, c>> \in Handler
  BY <1>1, Indices, Zenon 
<1>3. stream[<<n, p, c>>] \in Seq(Batch)
  BY <1>1, Handlers, Zenon 
<1>4. PICK k \in 0..Len(stream[<<n, p, c>>]) :
        stream' = [stream EXCEPT ![<<n, p, c>>] = SubSeq(stream[<<n, p, c>>], 1, k)]
  BY Zenon DEF BreakConn
<1>5. SubSeq(stream[<<n, p, c>>], 1, k) \in Seq(Batch)
  BY <1>3, SMTT(60) 
<1>6. stream' \in [Handler -> Seq(Batch)]
  BY <1>2, <1>4, <1>5, Zenon DEF TypeOK
<1>7. broken' \in [Link -> BOOLEAN]
  BY <1>2, Zenon DEF BreakConn, TypeOK
<1>8. faults' \in Nat
  BY SMTT(60) DEF BreakConn, TypeOK
<1> QED BY <1>6, <1>7, <1>8, Zenon DEF TypeOK, BreakConn, sender, receiver

LEMMA TypeRestart ==
  ASSUME TypeOK, NEW n \in Node, Restart(n)
  PROVE  TypeOK'
<1>0. << >> \in Seq(Ops) /\ << >> \in Seq(Batch)
  OBVIOUS
<1>1. faults' \in Nat
  BY SMTT(60) DEF Restart, TypeOK
<1>9. base' \in [Node -> Nat] /\ \A m \in Node : base'[m] <= Len(log[m])
  <2>1. Len(log[n]) \in Nat /\ Len(log[n]) <= Len(log[n])
    <3>1. Len(log[n]) \in Nat
      BY Logs, Zenon
    <3> QED BY <3>1, SMTT(60)
  <2> QED BY <2>1, Zenon DEF Restart, TypeOK
<1>2. /\ cursor' \in [Link -> Nat \cup {Absent}]
      /\ seen' \in [Link -> Nat]
      /\ peerStops' \in [Link -> 0..MaxJoins]
      /\ conn' \in [Link -> 0..MaxConns]
  BY Constants, Zenon DEF Restart, TypeOK
<1>3. pc' \in [Replicator -> Control]
  BY Zenon DEF Restart, TypeOK, Control
<1>4. job' \in [Replicator -> Job]
  BY Constants, Zenon DEF Restart, TypeOK
<1>5. broken' \in [Link -> BOOLEAN]
  BY Zenon DEF Restart, TypeOK
<1>6. stream' \in [Handler -> Seq(Batch)]
  BY <1>0, Zenon DEF Restart, TypeOK
<1>7. rx' \in [Handler -> Rest]
  BY Constants, Zenon DEF Restart, TypeOK
<1> QED BY <1>1, <1>2, <1>3, <1>4, <1>5, <1>6, <1>7, <1>9, Zenon DEF TypeOK, Restart

LEMMA TypeStep ==
  ASSUME TypeOK, [Next]_vars
  PROVE  TypeOK'
<1>1. CASE UNCHANGED vars
  BY <1>1, Zenon DEF TypeOK, vars, sender, network, receiver
<1> QED
  BY <1>1, TypeLogAppend, TypeNotifyJoin, TypeCheck, TypeLoad, TypeRead, TypeAsk,
     TypeSend, TypeStoreCursor, TypeSendFail, TypeCloseIdle, TypeReceive, TypeApplyEntry,
     TypeRejectEntry, Zenon DEF Next, Replicate

LEMMA TypeFailureStep ==
  ASSUME TypeOK, [Next \/ Break \/ Leave \/ Reboot]_vars
  PROVE  TypeOK'
BY TypeStep, TypeNotifyLeave, TypeSendLost, TypeBreakConn, TypeRestart, Zenon
   DEF Break, Leave, Reboot

(* The state stays well typed, whatever fails: in particular a batch is    *)
(* never empty, and StoreCursor never moves the cursor below zero.         *)
THEOREM TypeCorrect == FailureSpec => []TypeOK
<1>1. TypeOK /\ [Next \/ Break \/ Leave \/ Reboot]_vars => TypeOK'
  BY TypeFailureStep, Zenon 
<1> QED BY TypeInit, <1>1, PTL DEF FailureSpec

(***************************************************************************)
(* Replication implements Delivery                                         *)
(***************************************************************************)

(* The invariant for one link, which most actions touch only one of.       *)
LinkLogged(n, p) ==
  /\ \A i \in Inc :
       /\ pc[<<n, p, i>>] # "none" => n # p
       /\ pc[<<n, p, i>>] \in {"ask", "send"} => Logged(n, p, base[n], job[<<n, p, i>>])
  /\ \A c \in Conn :
       /\ rx[<<n, p, c>>] # Idle => InLog(n, p, rx[<<n, p, c>>])
       /\ \A j \in 1..Len(stream[<<n, p, c>>]) : InLog(n, p, stream[<<n, p, c>>][j])

LEMMA LinkByLink == OnlyLogged <=> \A n, p \in Node : LinkLogged(n, p)
BY Zenon DEF OnlyLogged, LinkLogged

LEMMA LoggedInit == Init => OnlyLogged
<1> SUFFICES ASSUME Init, NEW n \in Node, NEW p \in Node
             PROVE  LinkLogged(n, p)
  BY LinkByLink, Zenon
<1>1. \A i \in Inc : pc[<<n, p, i>>] = "none"
  BY Indices, Zenon DEF Init
<1>2. \A c \in Conn : rx[<<n, p, c>>] = Idle /\ stream[<<n, p, c>>] = << >>
  BY Indices, Zenon DEF Init
<1>3. \A c \in Conn : 1..Len(stream[<<n, p, c>>]) = {}
  BY <1>2, SMTT(60)
<1> QED BY <1>1, <1>2, <1>3, Zenon DEF LinkLogged

(* A step preserves the invariant of a link if the log of n only grows and *)
(* whatever is new on the link is in it.                                   *)
LEMMA LinkKept ==
  ASSUME TypeOK, NEW n \in Node, NEW p \in Node, LinkLogged(n, p),
         Len(log'[n]) \in Nat, Len(log[n]) <= Len(log'[n]),
         \A i \in Inc : pc'[<<n, p, i>>] # "none" => n # p,
         \A i \in Inc : pc'[<<n, p, i>>] \in {"ask", "send"} =>
           \/ /\ pc[<<n, p, i>>] \in {"ask", "send"} /\ base'[n] = base[n]
              /\ job'[<<n, p, i>>].lo = job[<<n, p, i>>].lo
              /\ job'[<<n, p, i>>].hi = job[<<n, p, i>>].hi
           \/ Logged(n, p, base[n], job[<<n, p, i>>])',
         \A c \in Conn :
           \/ rx'[<<n, p, c>>] \in {rx[<<n, p, c>>], Idle}
           \/ InLog(n, p, rx[<<n, p, c>>])',
         \A c \in Conn : \A j \in 1..Len(stream'[<<n, p, c>>]) :
           \/ \E k \in 1..Len(stream[<<n, p, c>>]) :
                stream'[<<n, p, c>>][j] = stream[<<n, p, c>>][k]
           \/ InLog(n, p, stream[<<n, p, c>>][j])'
  PROVE  LinkLogged(n, p)'
<1>0. Len(log[n]) \in Nat /\ base[n] \in Nat
  BY Logs, Zenon
<1>1. ASSUME NEW i \in Inc, pc'[<<n, p, i>>] \in {"ask", "send"}
      PROVE  Logged(n, p, base[n], job[<<n, p, i>>])'
  <2>1. ASSUME pc[<<n, p, i>>] \in {"ask", "send"}, base'[n] = base[n],
               job'[<<n, p, i>>].lo = job[<<n, p, i>>].lo,
               job'[<<n, p, i>>].hi = job[<<n, p, i>>].hi
        PROVE  Logged(n, p, base[n], job[<<n, p, i>>])'
    <3>1. Logged(n, p, base[n], job[<<n, p, i>>])
      BY <2>1, Zenon DEF LinkLogged
    <3>2. job[<<n, p, i>>].hi \in Nat
      BY Jobs, Zenon DEF Job
    <3>3. base[n] + job[<<n, p, i>>].hi <= Len(log[n])
      BY <3>1, Zenon DEF Logged
    <3>4. base[n] + job[<<n, p, i>>].hi <= Len(log'[n])
      BY <1>0, <3>2, <3>3, SMTT(60)
    <3> QED BY <2>1, <3>1, <3>4, Zenon DEF Logged
  <2> QED BY <1>1, <2>1, Zenon
<1>2. ASSUME NEW c \in Conn, rx'[<<n, p, c>>] # Idle
      PROVE  InLog(n, p, rx[<<n, p, c>>])'
  <2>1. CASE rx'[<<n, p, c>>] = rx[<<n, p, c>>]
    <3>1. InLog(n, p, rx[<<n, p, c>>])
      BY <1>2, <2>1, Zenon DEF LinkLogged
    <3>2. rx[<<n, p, c>>].hi \in Nat /\ rx[<<n, p, c>>].base \in Nat
      BY <1>2, <2>1, Handlers, Zenon DEF Rest
    <3>3. rx[<<n, p, c>>].base + rx[<<n, p, c>>].hi <= Len(log[n])
      BY <3>1, Zenon DEF InLog, Logged
    <3>4. rx[<<n, p, c>>].base + rx[<<n, p, c>>].hi <= Len(log'[n])
      BY <1>0, <3>2, <3>3, SMTT(60)
    <3> QED BY <2>1, <3>1, <3>4, Zenon DEF InLog, Logged
  <2> QED BY <1>2, <2>1, Zenon
<1>3. ASSUME NEW c \in Conn, NEW j \in 1..Len(stream'[<<n, p, c>>])
      PROVE  InLog(n, p, stream[<<n, p, c>>][j])'
  <2>1. ASSUME NEW k \in 1..Len(stream[<<n, p, c>>]),
               stream'[<<n, p, c>>][j] = stream[<<n, p, c>>][k]
        PROVE  InLog(n, p, stream[<<n, p, c>>][j])'
    <3> DEFINE b == stream[<<n, p, c>>][k]
    <3>1. InLog(n, p, b)
      BY Zenon DEF LinkLogged
    <3>2. stream[<<n, p, c>>] \in Seq(Batch)
      BY Handlers, Zenon
    <3>3. b \in Batch
      BY <3>2, SMTT(60)
    <3>4. b.hi \in Nat /\ b.base \in Nat
      BY <3>3, Zenon DEF Batch
    <3>5. b.base + b.hi <= Len(log[n])
      BY <3>1, Zenon DEF InLog, Logged
    <3>6. b.base + b.hi <= Len(log'[n])
      <4> HIDE DEF b
      <4> QED BY <1>0, <3>4, <3>5, SMTT(60)
    <3> QED BY <2>1, <3>1, <3>6, Zenon DEF InLog, Logged
  <2> QED BY <1>3, <2>1, Zenon
<1> QED BY <1>1, <1>2, <1>3, Zenon DEF LinkLogged

LEMMA SameLog ==
  ASSUME TypeOK, UNCHANGED log, NEW n \in Node
  PROVE  Len(log'[n]) \in Nat /\ Len(log[n]) <= Len(log'[n])
<1>1. Len(log[n]) \in Nat
  BY Logs, Zenon
<1> QED BY <1>1, SMTT(60)

(* A step that leaves the streams, the handlers and the log as they are,   *)
(* and gives no replicator entries to send.                                *)
LEMMA LoggedControl ==
  ASSUME TypeOK, OnlyLogged, UNCHANGED <<log, base, stream, rx>>,
         \A n, p \in Node, i \in Inc :
           /\ pc'[<<n, p, i>>] # "none" => pc[<<n, p, i>>] # "none"
           /\ pc'[<<n, p, i>>] \in {"ask", "send"} =>
                /\ pc[<<n, p, i>>] \in {"ask", "send"}
                /\ job'[<<n, p, i>>].lo = job[<<n, p, i>>].lo
                /\ job'[<<n, p, i>>].hi = job[<<n, p, i>>].hi
  PROVE  OnlyLogged'
<1> SUFFICES ASSUME NEW n \in Node, NEW p \in Node
             PROVE  LinkLogged(n, p)'
  BY Zenon DEF OnlyLogged, LinkLogged
<1>1. LinkLogged(n, p)
  BY LinkByLink, Zenon
<1>2. \A i \in Inc : pc'[<<n, p, i>>] # "none" => n # p
  BY <1>1, Zenon DEF LinkLogged
<1>3. Len(log'[n]) \in Nat /\ Len(log[n]) <= Len(log'[n])
  BY SameLog, Zenon
<1>4. \A c \in Conn : /\ rx'[<<n, p, c>>] = rx[<<n, p, c>>]
                       /\ stream'[<<n, p, c>>] = stream[<<n, p, c>>]
  BY Zenon
<1> QED BY <1>1, <1>2, <1>3, <1>4, LinkKept, Zenon

LEMMA LoggedAppend ==
  ASSUME TypeOK, OnlyLogged, NEW n \in Node, NEW op \in Ops, LogAppend(n, op)
  PROVE  OnlyLogged'
<1> SUFFICES ASSUME NEW m \in Node, NEW q \in Node
             PROVE  LinkLogged(m, q)'
  BY Zenon DEF OnlyLogged, LinkLogged
<1>1. LinkLogged(m, q)
  BY LinkByLink, Zenon
<1>2. log[m] \in Seq(Ops) /\ Len(log[m]) \in Nat
  BY Logs, Zenon
<1>3. log'[m] = IF m = n THEN Append(log[m], op) ELSE log[m]
  BY Zenon DEF LogAppend, TypeOK
<1>4. Len(log'[m]) \in Nat /\ Len(log[m]) <= Len(log'[m])
  BY <1>2, <1>3, SMTT(60)
<1>5. \A i \in Inc : pc'[<<m, q, i>>] # "none" => pc[<<m, q, i>>] # "none"
  BY Indices, Zenon DEF LogAppend, Woken
<1>6. \A i \in Inc : pc'[<<m, q, i>>] \in {"ask", "send"} => pc[<<m, q, i>>] \in {"ask", "send"}
  BY Indices, Zenon DEF LogAppend, Woken
<1>7. \A i \in Inc : pc'[<<m, q, i>>] # "none" => m # q
  BY <1>1, <1>5, Zenon DEF LinkLogged
<1>8. UNCHANGED <<base, job, rx, stream>>
  BY Zenon DEF LogAppend, network, receiver
<1> QED BY <1>1, <1>4, <1>6, <1>7, <1>8, LinkKept, Zenon

LEMMA LoggedJoin ==
  ASSUME TypeOK, OnlyLogged, NEW n \in Node, NEW p \in Node, NotifyJoin(n, p)
  PROVE  OnlyLogged'
<1> SUFFICES ASSUME NEW m \in Node, NEW q \in Node
             PROVE  LinkLogged(m, q)'
  BY Zenon DEF OnlyLogged, LinkLogged
<1>1. LinkLogged(m, q)
  BY LinkByLink, Zenon
<1>2. \A i \in Inc : pc'[<<m, q, i>>] = pc[<<m, q, i>>]
                       \/ (m = n /\ q = p /\ pc'[<<m, q, i>>] = "check")
  BY Indices, Zenon DEF NotifyJoin, TypeOK
<1>3. \A i \in Inc : pc'[<<m, q, i>>] # "none" => m # q
  BY <1>1, <1>2, Zenon DEF LinkLogged, NotifyJoin
<1>4. \A i \in Inc : pc'[<<m, q, i>>] \in {"ask", "send"} => pc[<<m, q, i>>] \in {"ask", "send"}
  BY <1>2, Zenon
<1>5. UNCHANGED <<log, base, job, rx, stream>>
  BY Zenon DEF NotifyJoin, network, receiver
<1>6. Len(log'[m]) \in Nat /\ Len(log[m]) <= Len(log'[m])
  BY <1>5, SameLog, Zenon
<1> QED BY <1>1, <1>3, <1>4, <1>5, <1>6, LinkKept, Zenon

LEMMA LoggedLeave ==
  ASSUME TypeOK, OnlyLogged, NEW n \in Node, NEW p \in Node, NotifyLeave(n, p)
  PROVE  OnlyLogged'
<1>1. UNCHANGED <<log, base, job, rx, stream>>
  BY Zenon DEF NotifyLeave, receiver
<1>2. PICK new \in WokenUnlocked(n) : pc' = new
  BY Zenon DEF NotifyLeave
<1>3. \A h \in Replicator : new[h] = pc[h] \/ (pc[h] = "wait" /\ new[h] = "check")
  <2>1. \A h \in Replicator :
          Woken(n)[h] = pc[h] \/ (pc[h] = "wait" /\ Woken(n)[h] = "check")
    BY Zenon DEF Woken
  <2>2. Woken(n) \in [Replicator -> Control]
    BY WokenType, Zenon
  <2>3. ASSUME NEW g \in Replicator, pc[g] = "wait",
               new = [Woken(n) EXCEPT ![g] = "wait"]
        PROVE  \A h \in Replicator : new[h] = pc[h] \/ (pc[h] = "wait" /\ new[h] = "check")
    BY <2>1, <2>2, <2>3, Zenon
  <2> QED BY <2>1, <2>3, Zenon DEF WokenUnlocked
<1> QED BY <1>1, <1>2, <1>3, Indices, LoggedControl, Zenon

LEMMA LoggedCheck ==
  ASSUME TypeOK, OnlyLogged, NEW n \in Node, NEW p \in Node, NEW i \in Inc,
         Check(n, p, i)
  PROVE  OnlyLogged'
<1>1. UNCHANGED <<log, base, job, rx, stream>>
  BY Zenon DEF Check, CheckStop, CheckData, CheckWait, network, receiver
<1>2. \A h \in Replicator : pc'[h] = pc[h]
           \/ (pc[h] = "check" /\ pc'[h] \in {"done", "load", "wait"})
  BY Indices, Zenon DEF Check, CheckStop, CheckData, CheckWait, TypeOK
<1> QED BY <1>1, <1>2, Indices, LoggedControl, Zenon

LEMMA LoggedLoad ==
  ASSUME TypeOK, OnlyLogged, NEW n \in Node, NEW p \in Node, NEW i \in Inc,
         Load(n, p, i)
  PROVE  OnlyLogged'
<1>1. UNCHANGED <<log, base, rx, stream>>
  BY Zenon DEF Load, network, receiver
<1>2. \A h \in Replicator : \/ pc'[h] = pc[h] /\ job'[h] = job[h]
                            \/ pc[h] = "load" /\ pc'[h] = "read"
  BY Indices, Zenon DEF Load, TypeOK
<1> QED BY <1>1, <1>2, Indices, LoggedControl, Zenon

LEMMA LoggedRead ==
  ASSUME TypeOK, OnlyLogged, NEW n \in Node, NEW p \in Node, NEW i \in Inc,
         Read(n, p, i)
  PROVE  OnlyLogged'
<1> DEFINE last == job[<<n, p, i>>].last
           first == First(n, last)
<1>0. UNCHANGED <<log, base, rx, stream>> /\ pc[<<n, p, i>>] = "read"
  BY Zenon DEF Read, network, receiver
<1>1. n # p
  BY <1>0, Zenon DEF OnlyLogged
<1>2. /\ first \in Nat \ {0}
      /\ ReadsNothing(n, p, i) \/ \E hi \in Nat : ReadsUpTo(n, p, i, last, first, hi)
  BY ReadEffect, Zenon
<1>3. CASE ReadsNothing(n, p, i)
  <2>1. \A h \in Replicator : \/ pc'[h] = pc[h] /\ job'[h] = job[h]
                              \/ pc[h] = "read" /\ pc'[h] = "check"
    BY <1>0, <1>3, Indices, Zenon DEF TypeOK, ReadsNothing
  <2> QED BY <1>0, <2>1, Indices, LoggedControl, Zenon
<1>4. ASSUME NEW hi \in Nat, ReadsUpTo(n, p, i, last, first, hi)
      PROVE  OnlyLogged'
  <2>1. /\ pc' = [pc EXCEPT ![<<n, p, i>>] = "ask"]
        /\ job' = [job EXCEPT ![<<n, p, i>>] =
                     [last |-> last, lo |-> first, hi |-> hi, hs |-> 0]]
        /\ base[n] + hi <= Len(log[n])
    BY <1>4, Zenon DEF ReadsUpTo
  <2> HIDE DEF first, last
  <2>2. job'[<<n, p, i>>] = [last |-> last, lo |-> first, hi |-> hi, hs |-> 0]
    BY <2>1, Indices, Zenon DEF TypeOK
  <2>3. job'[<<n, p, i>>].lo = first /\ job'[<<n, p, i>>].hi = hi
    BY <2>2, SMTT(60)
  <2>4. 1 <= first
    BY <1>2, SMTT(60)
  <2>5. Logged(n, p, base[n], job[<<n, p, i>>])'
    BY <1>0, <1>1, <2>1, <2>3, <2>4, Zenon DEF Logged
  <2> SUFFICES ASSUME NEW m \in Node, NEW q \in Node
               PROVE  LinkLogged(m, q)'
    BY Zenon DEF OnlyLogged, LinkLogged
  <2>6. LinkLogged(m, q)
    BY LinkByLink, Zenon
  <2>7. \A x \in Inc : <<m, q, x>> # <<n, p, i>> =>
          pc'[<<m, q, x>>] = pc[<<m, q, x>>] /\ job'[<<m, q, x>>] = job[<<m, q, x>>]
    BY <2>1, Indices, Zenon DEF TypeOK
  <2>8. \A x \in Inc : pc'[<<m, q, x>>] # "none" => m # q
    BY <1>1, <2>6, <2>7, Zenon DEF LinkLogged
  <2>9. ASSUME NEW x \in Inc, pc'[<<m, q, x>>] \in {"ask", "send"}
        PROVE  \/ /\ pc[<<m, q, x>>] \in {"ask", "send"} /\ base'[m] = base[m]
                  /\ job'[<<m, q, x>>].lo = job[<<m, q, x>>].lo
                  /\ job'[<<m, q, x>>].hi = job[<<m, q, x>>].hi
               \/ Logged(m, q, base[m], job[<<m, q, x>>])'
    <3>1. CASE <<m, q, x>> = <<n, p, i>>
      <4>1. m = n /\ q = p /\ x = i
        BY <3>1, Zenon
      <4> QED BY <2>5, <4>1, Zenon
    <3> QED BY <1>0, <2>7, <2>9, <3>1, Zenon
  <2>10. Len(log'[m]) \in Nat /\ Len(log[m]) <= Len(log'[m])
    BY <1>0, SameLog, Zenon
  <2> QED BY <1>0, <2>6, <2>8, <2>9, <2>10, LinkKept, Zenon
<1> HIDE DEF first, last
<1> QED BY <1>3, <1>4, <1>2, Zenon

LEMMA LoggedAsk ==
  ASSUME TypeOK, OnlyLogged, NEW n \in Node, NEW p \in Node, NEW i \in Inc,
         Ask(n, p, i)
  PROVE  OnlyLogged'
<1>1. UNCHANGED <<log, base, rx, stream>> /\ pc[<<n, p, i>>] = "ask"
  BY Zenon DEF Ask, network, receiver
<1>2. \A h \in Replicator :
        \/ pc'[h] = pc[h] /\ job'[h] = job[h]
        \/ h = <<n, p, i>> /\ pc'[h] = "send"
  BY Indices, Zenon DEF Ask, TypeOK
<1>3. job'[<<n, p, i>>].lo = job[<<n, p, i>>].lo /\ job'[<<n, p, i>>].hi = job[<<n, p, i>>].hi
  <2>1. job'[<<n, p, i>>] = [job[<<n, p, i>>] EXCEPT !.hs = seen[<<n, p>>]]
    BY Indices, Zenon DEF Ask, TypeOK
  <2>2. job[<<n, p, i>>] \in Job
    BY Jobs, Zenon
  <2> QED BY <2>1, <2>2, SMTT(60) DEF Job
<1> QED BY <1>1, <1>2, <1>3, Indices, LoggedControl, Zenon

LEMMA LoggedSend ==
  ASSUME TypeOK, OnlyLogged, NEW n \in Node, NEW p \in Node, NEW i \in Inc,
         Send(n, p, i)
  PROVE  OnlyLogged'
<1> DEFINE c == SendConn(n, p)
           b == SentBatch(n, p, i)
<1>1. UNCHANGED <<log, base, job, rx>>
  BY Zenon DEF Send, receiver
<1>2. \A h \in Replicator : pc'[h] = pc[h] \/ (pc[h] = "send" /\ pc'[h] = "store")
  BY Indices, Zenon DEF Send, TypeOK
<1>3. c \in Conn /\ <<n, p, c>> \in Handler
      /\ stream' = [stream EXCEPT ![<<n, p, c>>] = Append(stream[<<n, p, c>>], b)]
  <2>1. c \in Conn
    BY SendEffect, Zenon
  <2>2. <<n, p, c>> \in Handler
    BY <2>1, Indices, Zenon
  <2>3. stream' = [stream EXCEPT ![<<n, p, SendConn(n, p)>>] =
              Append(stream[<<n, p, SendConn(n, p)>>], SentBatch(n, p, i))]
    BY Zenon DEF Send, SendConn, SentBatch
  <2> QED BY <2>1, <2>2, <2>3, Zenon
<1>4. Logged(n, p, base[n], job[<<n, p, i>>])
  BY Zenon DEF Send, OnlyLogged
<1>5. b.base = base[n] /\ b.lo = job[<<n, p, i>>].lo /\ b.hi = job[<<n, p, i>>].hi
  BY Zenon DEF SentBatch
<1> HIDE DEF c, b
<1> SUFFICES ASSUME NEW m \in Node, NEW q \in Node
             PROVE  LinkLogged(m, q)'
  BY Zenon DEF OnlyLogged, LinkLogged
<1>6. LinkLogged(m, q)
  BY LinkByLink, Zenon
<1>7. Len(log'[m]) \in Nat /\ Len(log[m]) <= Len(log'[m])
  BY <1>1, SameLog, Zenon
<1>8. ASSUME NEW d \in Conn, NEW j \in 1..Len(stream'[<<m, q, d>>])
      PROVE  \/ \E k \in 1..Len(stream[<<m, q, d>>]) :
                  stream'[<<m, q, d>>][j] = stream[<<m, q, d>>][k]
             \/ InLog(m, q, stream[<<m, q, d>>][j])'
  <2>1. CASE <<m, q, d>> # <<n, p, c>>
    <3>1. stream'[<<m, q, d>>] = stream[<<m, q, d>>]
      BY <1>3, <2>1, Indices, Zenon DEF TypeOK
    <3> QED BY <1>8, <3>1, Zenon
  <2>2. CASE <<m, q, d>> = <<n, p, c>>
    <3>1. m = n /\ q = p /\ d = c
      BY <2>2, Zenon
    <3>2. stream'[<<n, p, c>>] = Append(stream[<<n, p, c>>], b)
      BY <1>3, Zenon DEF TypeOK
    <3>3. stream[<<n, p, c>>] \in Seq(Batch)
      BY <1>3, Handlers, Zenon
    <3>4. j \in 1..Len(stream'[<<n, p, c>>])
      BY <1>8, <3>1, Zenon
    <3>5. \/ j \in 1..Len(stream[<<n, p, c>>])
             /\ stream'[<<n, p, c>>][j] = stream[<<n, p, c>>][j]
          \/ stream'[<<n, p, c>>][j] = b
      BY <3>2, <3>3, <3>4, SMTT(60)
    <3>6. CASE stream'[<<n, p, c>>][j] = b
      BY <1>1, <1>4, <1>5, <3>1, <3>6, Zenon DEF InLog, Logged
    <3> QED BY <3>1, <3>5, <3>6, Zenon
  <2> QED BY <2>1, <2>2, Zenon
<1>9. \A x \in Inc : pc'[<<m, q, x>>] # "none" => m # q
  BY <1>2, <1>6, Indices, Zenon DEF LinkLogged
<1>10. \A x \in Inc : pc'[<<m, q, x>>] \in {"ask", "send"} => pc[<<m, q, x>>] \in {"ask", "send"}
  BY <1>2, Indices, Zenon
<1> QED BY <1>1, <1>6, <1>7, <1>8, <1>9, <1>10, LinkKept, Zenon

(* The other steps of a replicator and of its client send nothing.         *)
LEMMA LoggedSender ==
  ASSUME TypeOK, OnlyLogged, NEW n \in Node, NEW p \in Node, NEW i \in Inc,
         \/ SendLost(n, p, i) \/ SendFail(n, p, i)
         \/ StoreCursor(n, p, i)
  PROVE  OnlyLogged'
<1>1. UNCHANGED <<log, base, rx, stream>>
  BY Zenon DEF SendLost, SendFail, StoreCursor, network, receiver
<1>2. \A h \in Replicator :
        \/ pc'[h] = pc[h] /\ job'[h] = job[h]
        \/ pc[h] \in {"send", "store"} /\ pc'[h] \in {"store", "check"}
  <2>1. CASE SendLost(n, p, i)
    BY <2>1, Indices, Zenon DEF SendLost, TypeOK
  <2>2. CASE SendFail(n, p, i)
    BY <2>2, Indices, Zenon DEF SendFail, TypeOK
  <2>3. CASE StoreCursor(n, p, i)
    BY <2>3, Indices, Zenon DEF StoreCursor, TypeOK
  <2> QED BY <2>1, <2>2, <2>3, Zenon
<1> QED BY <1>1, <1>2, Indices, LoggedControl, Zenon

LEMMA LoggedCloseIdle ==
  ASSUME TypeOK, OnlyLogged, NEW n \in Node, NEW p \in Node, CloseIdle(n, p)
  PROVE  OnlyLogged'
<1>1. UNCHANGED <<log, base, pc, job, rx, stream>>
  BY Zenon DEF CloseIdle, sender, receiver
<1> QED BY <1>1, LoggedControl, Zenon

(* A step that changes one handler and its stream, and no replicator: the  *)
(* stream loses batches, the handler holds one of them or the rest of one. *)
LEMMA LoggedHandler ==
  ASSUME TypeOK, OnlyLogged, UNCHANGED <<log, base, pc, job>>,
         NEW n \in Node, NEW p \in Node, NEW c \in Conn,
         \A h \in Handler : h # <<n, p, c>> => rx'[h] = rx[h] /\ stream'[h] = stream[h],
         \/ rx'[<<n, p, c>>] \in {rx[<<n, p, c>>], Idle}
         \/ InLog(n, p, rx[<<n, p, c>>])',
         \A j \in 1..Len(stream'[<<n, p, c>>]) :
           \E k \in 1..Len(stream[<<n, p, c>>]) :
             stream'[<<n, p, c>>][j] = stream[<<n, p, c>>][k]
  PROVE  OnlyLogged'
<1> SUFFICES ASSUME NEW m \in Node, NEW q \in Node
             PROVE  LinkLogged(m, q)'
  BY Zenon DEF OnlyLogged, LinkLogged
<1>1. LinkLogged(m, q)
  BY LinkByLink, Zenon
<1>2. \A i \in Inc : pc'[<<m, q, i>>] # "none" => m # q
  BY <1>1, Zenon DEF LinkLogged
<1>3. Len(log'[m]) \in Nat /\ Len(log[m]) <= Len(log'[m])
  BY SameLog, Zenon
<1>4. ASSUME NEW d \in Conn
      PROVE  /\ \/ rx'[<<m, q, d>>] \in {rx[<<m, q, d>>], Idle}
                \/ InLog(m, q, rx[<<m, q, d>>])'
             /\ \A j \in 1..Len(stream'[<<m, q, d>>]) :
                  \E k \in 1..Len(stream[<<m, q, d>>]) :
                    stream'[<<m, q, d>>][j] = stream[<<m, q, d>>][k]
  <2>1. CASE <<m, q, d>> # <<n, p, c>>
    BY <2>1, Indices, Zenon
  <2>2. CASE <<m, q, d>> = <<n, p, c>>
    <3>1. m = n /\ q = p /\ d = c
      BY <2>2, Zenon
    <3>2. <<m, q, d>> = <<n, p, c>> /\ m = n /\ q = p
      BY <3>1, Zenon
    <3>3. \/ rx'[<<m, q, d>>] \in {rx[<<m, q, d>>], Idle}
          \/ InLog(m, q, rx[<<m, q, d>>])'
      <4>1. CASE rx'[<<n, p, c>>] \in {rx[<<n, p, c>>], Idle}
        BY <2>2, <4>1, Zenon
      <4>2. CASE InLog(n, p, rx[<<n, p, c>>])'
        BY <3>1, <4>2, Zenon
      <4> QED BY <4>1, <4>2, Zenon
    <3>4. \A j \in 1..Len(stream'[<<m, q, d>>]) :
            \E k \in 1..Len(stream[<<m, q, d>>]) :
              stream'[<<m, q, d>>][j] = stream[<<m, q, d>>][k]
      BY <2>2, Zenon
    <3> QED BY <3>3, <3>4, Zenon
  <2> QED BY <2>1, <2>2, Zenon
<1> QED BY <1>1, <1>2, <1>3, <1>4, LinkKept, Zenon

LEMMA LoggedReceive ==
  ASSUME TypeOK, OnlyLogged, NEW n \in Node, NEW p \in Node, NEW c \in Conn,
         Receive(n, p, c)
  PROVE  OnlyLogged'
<1> DEFINE q == stream[<<n, p, c>>]
<1>1. UNCHANGED <<log, base, pc, job>>
  BY Zenon DEF Receive, sender
<1>2. q \in Seq(Batch) /\ q # << >> /\ <<n, p, c>> \in Handler
  BY Handlers, Indices, Zenon DEF Receive
<1>3. stream'[<<n, p, c>>] = Tail(q)
      /\ rx'[<<n, p, c>>] = [base |-> Head(q).base, lo |-> Head(q).lo, hi |-> Head(q).hi]
  BY <1>2, Zenon DEF Receive, TypeOK
<1>4. \A h \in Handler : h # <<n, p, c>> => rx'[h] = rx[h] /\ stream'[h] = stream[h]
  BY <1>2, Zenon DEF Receive, TypeOK
<1>5. Head(q) = q[1] /\ 1 \in 1..Len(q)
  BY <1>2, SMTT(60)
<1>6. InLog(n, p, q[1])
  BY <1>5, Zenon DEF OnlyLogged
<1>7. InLog(n, p, rx[<<n, p, c>>])'
  <2>1. /\ rx'[<<n, p, c>>].lo = q[1].lo /\ rx'[<<n, p, c>>].hi = q[1].hi
        /\ rx'[<<n, p, c>>].base = q[1].base
    BY <1>3, <1>5, SMTT(60)
  <2> QED BY <1>1, <1>6, <2>1, Zenon DEF InLog, Logged
<1>8. ASSUME NEW j \in 1..Len(Tail(q))
      PROVE  \E k \in 1..Len(q) : Tail(q)[j] = q[k]
  <2>1. j + 1 \in 1..Len(q) /\ Tail(q)[j] = q[j + 1]
    BY <1>2, SMTT(60)
  <2> QED BY <2>1, Zenon
<1> HIDE DEF q
<1>9. \A j \in 1..Len(stream'[<<n, p, c>>]) :
        \E k \in 1..Len(q) : stream'[<<n, p, c>>][j] = q[k]
  BY <1>3, <1>8, Zenon
<1> USE DEF q
<1> QED BY <1>1, <1>4, <1>7, <1>9, LoggedHandler, Zenon

LEMMA LoggedAdvance ==
  ASSUME TypeOK, OnlyLogged, NEW n \in Node, NEW p \in Node, NEW c \in Conn,
         rx[<<n, p, c>>] # Idle, rx' = Advanced(n, p, c),
         UNCHANGED <<log, base, pc, job, stream>>
  PROVE  OnlyLogged'
<1> DEFINE r == rx[<<n, p, c>>]
           rest == [base |-> r.base, lo |-> Current(n, p, c) + 1, hi |-> r.hi]
<1>1. InLog(n, p, r)
  BY Zenon DEF OnlyLogged
<1>2. /\ Current(n, p, c) \in Nat /\ rx'[<<n, p, c>>] \in {Idle, rest}
      /\ \A h \in Handler : h # <<n, p, c>> => rx'[h] = rx[h]
  BY AdvancedEffect, Zenon
<1>3. CASE rx'[<<n, p, c>>] = rest
  <2>1. /\ rx'[<<n, p, c>>].lo = Current(n, p, c) + 1
        /\ rx'[<<n, p, c>>].hi = r.hi /\ rx'[<<n, p, c>>].base = r.base
    <3> HIDE DEF r
    <3> QED BY <1>3, SMTT(60)
  <2>2. 1 <= rx'[<<n, p, c>>].lo
    BY <1>2, <2>1, SMTT(60)
  <2>3. InLog(n, p, rx[<<n, p, c>>])'
    BY <1>1, <2>1, <2>2, Zenon DEF InLog, Logged
  <2> QED BY <1>2, <2>3, LoggedHandler, Zenon
<1>4. CASE rx'[<<n, p, c>>] = Idle
  BY <1>2, <1>4, LoggedHandler, Zenon
<1> QED BY <1>2, <1>3, <1>4, Zenon

LEMMA LoggedBreakConn ==
  ASSUME TypeOK, OnlyLogged, NEW n \in Node, NEW p \in Node, BreakConn(n, p)
  PROVE  OnlyLogged'
<1> DEFINE c == conn[<<n, p>>]
           q == stream[<<n, p, c>>]
<1>1. c \in Conn
  <2>1. c \in 0..MaxConns /\ c # 0
    BY Links, Zenon DEF BreakConn
  <2> QED BY <2>1, ReplicationAssumption, SMTT(60) DEF Conn
<1>2. <<n, p, c>> \in Handler /\ q \in Seq(Batch)
  BY <1>1, Indices, Handlers, Zenon
<1>3. PICK k \in 0..Len(q) : stream' = [stream EXCEPT ![<<n, p, c>>] = SubSeq(q, 1, k)]
  BY Zenon DEF BreakConn
<1>4. ASSUME NEW j \in 1..Len(SubSeq(q, 1, k))
      PROVE  j \in 1..Len(q) /\ SubSeq(q, 1, k)[j] = q[j]
  BY <1>2, SMTT(60)
<1>5. stream'[<<n, p, c>>] = SubSeq(q, 1, k)
      /\ \A h \in Handler : h # <<n, p, c>> => stream'[h] = stream[h]
  BY <1>2, <1>3, Zenon DEF TypeOK
<1>6. UNCHANGED <<log, base, pc, job, rx>>
  BY Zenon DEF BreakConn, sender, receiver
<1> HIDE DEF c, q
<1>7. \A j \in 1..Len(stream'[<<n, p, c>>]) :
        \E l \in 1..Len(q) : stream'[<<n, p, c>>][j] = q[l]
  BY <1>4, <1>5, Zenon
<1>8. q = stream[<<n, p, c>>]
  BY Zenon DEF q
<1>9. \A h \in Handler : h # <<n, p, c>> => rx'[h] = rx[h] /\ stream'[h] = stream[h]
  BY <1>5, <1>6, Zenon
<1> QED BY <1>1, <1>6, <1>7, <1>8, <1>9, LoggedHandler, Zenon

(* What was on its way to the node is dropped.  What it had sent refers to *)
(* the log that it had, and none of its replicators has anything to send.  *)
LEMMA LoggedRestart ==
  ASSUME TypeOK, OnlyLogged, NEW r \in Node, Restart(r)
  PROVE  OnlyLogged'
<1> SUFFICES ASSUME NEW n \in Node, NEW p \in Node
             PROVE  LinkLogged(n, p)'
  BY Zenon DEF OnlyLogged, LinkLogged
<1>0. LinkLogged(n, p)
  BY LinkByLink, Zenon
<1>1. \A i \in Inc : pc'[<<n, p, i>>] # "none" => n # p
  <2>1. \A i \in Inc : pc'[<<n, p, i>>] # "none" => pc[<<n, p, i>>] # "none"
    BY Indices, Zenon DEF Restart
  <2> QED BY <1>0, <2>1, Zenon DEF LinkLogged
<1>2. Len(log'[n]) \in Nat /\ Len(log[n]) <= Len(log'[n])
  BY SameLog, Zenon DEF Restart
<1>3. ASSUME NEW i \in Inc, pc'[<<n, p, i>>] \in {"ask", "send"}
      PROVE  /\ pc[<<n, p, i>>] \in {"ask", "send"} /\ base'[n] = base[n]
             /\ job'[<<n, p, i>>] = job[<<n, p, i>>]
  <2>1. <<n, p, i>>[1] = n /\ <<n, p, i>> \in Replicator
    BY Indices, Zenon
  <2>2. n # r
    BY <1>3, <2>1, Zenon DEF Restart
  <2>3. pc'[<<n, p, i>>] = pc[<<n, p, i>>] /\ job'[<<n, p, i>>] = job[<<n, p, i>>]
    BY <2>1, <2>2, Zenon DEF Restart
  <2>4. base'[n] = base[n]
    BY <2>2, Zenon DEF Restart, TypeOK
  <2> QED BY <1>3, <2>3, <2>4, Zenon
<1>4. ASSUME NEW c \in Conn
      PROVE  /\ rx'[<<n, p, c>>] \in {rx[<<n, p, c>>], Idle}
             /\ stream'[<<n, p, c>>] \in {stream[<<n, p, c>>], << >>}
  BY Indices, Zenon DEF Restart
<1>5. \A c \in Conn : \A j \in 1..Len(stream'[<<n, p, c>>]) :
        \E k \in 1..Len(stream[<<n, p, c>>]) :
          stream'[<<n, p, c>>][j] = stream[<<n, p, c>>][k]
  <2>1. 1..Len(<< >>) = {}
    BY SMTT(60)
  <2> QED BY <1>4, <2>1, Zenon
<1> QED BY <1>0, <1>1, <1>2, <1>3, <1>4, <1>5, LinkKept, Zenon

LEMMA LoggedStep ==
  ASSUME TypeOK, OnlyLogged, [Next \/ Break \/ Leave \/ Reboot]_vars
  PROVE  OnlyLogged'
<1>1. CASE UNCHANGED vars
  <2>1. UNCHANGED <<log, base, pc, job, rx, stream>>
    BY <1>1, Zenon DEF vars, sender, network, receiver
  <2> QED BY <2>1, LoggedControl, Zenon
<1>2. ASSUME NEW n \in Node, NEW p \in Node, NEW c \in Conn,
             ApplyEntry(n, p, c) \/ RejectEntry(n, p, c)
      PROVE  OnlyLogged'
  <2>1. rx[<<n, p, c>>] # Idle /\ rx' = Advanced(n, p, c)
        /\ UNCHANGED <<log, base, pc, job, stream>>
    BY <1>2, Zenon DEF ApplyEntry, RejectEntry, sender, network
  <2> QED BY <2>1, LoggedAdvance, Zenon
<1>3. CASE Next
  BY <1>2, <1>3, LoggedAppend, LoggedJoin, LoggedCheck, LoggedLoad, LoggedRead, LoggedAsk,
     LoggedSend, LoggedSender, LoggedCloseIdle, LoggedReceive, Zenon DEF Next, Replicate
<1>4. CASE Break \/ Leave \/ Reboot
  BY <1>4, LoggedBreakConn, LoggedSender, LoggedLeave, LoggedRestart, Zenon
     DEF Break, Leave, Reboot
<1> QED BY <1>1, <1>3, <1>4, Zenon

(* The steps of Delivery that the steps of Replication are.                *)
LEMMA HandleStep ==
  ASSUME TypeOK, OnlyLogged, NEW n \in Node, NEW p \in Node, NEW c \in Conn,
         ApplyEntry(n, p, c) \/ RejectEntry(n, p, c)
  PROVE  D!Next
<1> DEFINE s == Place(n, p, c)
<1>1. InLog(n, p, rx[<<n, p, c>>])
  BY Zenon DEF OnlyLogged, ApplyEntry, RejectEntry
<1>2. s \in 1..Len(log[n]) /\ p # n
  <2>1. rx[<<n, p, c>>] \in Rest /\ rx[<<n, p, c>>] # Idle /\ Len(log[n]) \in Nat
    BY Handlers, Logs, Zenon DEF ApplyEntry, RejectEntry
  <2>2. /\ rx[<<n, p, c>>].lo \in Nat /\ rx[<<n, p, c>>].hi \in Nat
        /\ rx[<<n, p, c>>].base \in Nat /\ rx[<<n, p, c>>].lo <= rx[<<n, p, c>>].hi
    BY <2>1, Zenon DEF Rest
  <2> QED BY <1>1, <2>1, <2>2, SMTT(60) DEF InLog, Logged, Place, Current
<1>3. <<p, n>> \in Link
  BY Indices, Zenon
<1>4. UNCHANGED log
  BY Zenon DEF ApplyEntry, RejectEntry
<1>5. ASSUME NEW l \in Link
      PROVE  applied'[l] \cup rejected'[l] =
               IF l = <<p, n>> THEN applied[l] \cup rejected[l] \cup {s}
               ELSE applied[l] \cup rejected[l]
  <2>1. CASE ApplyEntry(n, p, c)
    <3>1. applied'[l] = (IF l = <<p, n>> THEN applied[l] \cup {s} ELSE applied[l])
          /\ rejected'[l] = rejected[l]
      BY <2>1, Zenon DEF ApplyEntry, TypeOK
    <3> QED BY <3>1, Zenon
  <2>2. CASE RejectEntry(n, p, c)
    <3>1. rejected'[l] = (IF l = <<p, n>> THEN rejected[l] \cup {s} ELSE rejected[l])
          /\ applied'[l] = applied[l]
      BY <2>2, Zenon DEF RejectEntry, TypeOK
    <3> QED BY <3>1, Zenon
  <2> QED BY <2>1, <2>2, Zenon
<1> HIDE DEF s
<1>6. handled' = [handled EXCEPT ![<<p, n>>] = @ \cup {s}]
  BY <1>3, <1>5, Zenon DEF handled
<1>7. D!Handle(p, n, s)
  BY <1>2, <1>4, <1>6, Zenon DEF D!Handle
<1> QED BY <1>2, <1>7, Zenon DEF D!Next

LEMMA DeliveryStep ==
  ASSUME TypeOK, OnlyLogged, [Next \/ Break \/ Leave \/ Reboot]_vars
  PROVE  [D!Next]_(D!vars)
<1>1. UNCHANGED <<log, applied, rejected>> => UNCHANGED D!vars
  BY Zenon DEF D!vars, handled
<1>2. ASSUME NEW n \in Node, NEW op \in Ops, LogAppend(n, op)
      PROVE  D!Next
  <2>1. UNCHANGED handled
    BY <1>2, Zenon DEF LogAppend, receiver, handled
  <2>2. D!Write(n, op)
    BY <1>2, <2>1, Zenon DEF D!Write, LogAppend
  <2> QED BY <2>2, Zenon DEF D!Next
<1>3. ASSUME NEW n \in Node, NEW p \in Node, NEW i \in Inc,
             Replicate(n, p, i) \/ SendFail(n, p, i) \/ SendLost(n, p, i)
      PROVE  UNCHANGED <<log, applied, rejected>>
  BY <1>3, Zenon DEF Replicate, Check, CheckStop, CheckData, CheckWait, Load, Read,
     Ask, Send, StoreCursor, SendFail, SendLost, receiver
<1>4. ASSUME NEW n \in Node, NEW p \in Node,
             NotifyJoin(n, p) \/ CloseIdle(n, p) \/ BreakConn(n, p) \/ NotifyLeave(n, p)
      PROVE  UNCHANGED <<log, applied, rejected>>
  BY <1>4, Zenon DEF NotifyJoin, CloseIdle, BreakConn, NotifyLeave, receiver
<1>5. ASSUME NEW n \in Node, NEW p \in Node, NEW c \in Conn, Receive(n, p, c)
      PROVE  UNCHANGED <<log, applied, rejected>>
  BY <1>5, Zenon DEF Receive
<1>6. UNCHANGED vars => UNCHANGED <<log, applied, rejected>>
  BY Zenon DEF vars, receiver
<1>7. ASSUME NEW n \in Node, Restart(n)
      PROVE  UNCHANGED <<log, applied, rejected>>
  BY <1>7, Zenon DEF Restart
<1>8. CASE Next
  BY <1>1, <1>2, <1>3, <1>4, <1>5, <1>8, HandleStep, Zenon DEF Next
<1>9. CASE Break \/ Leave \/ Reboot
  BY <1>1, <1>3, <1>4, <1>7, <1>9, Zenon DEF Break, Leave, Reboot
<1> QED BY <1>1, <1>6, <1>8, <1>9, Zenon

(* Whatever fails, replication implements Delivery: a node handles only    *)
(* entries that another node has logged, in this or in an earlier run of   *)
(* its process, and what it has handled stays handled.                     *)
THEOREM Implements == FailureSpec => ImplementsDelivery
<1>1. Init => D!Init
  <2> SUFFICES ASSUME Init PROVE D!Init
    OBVIOUS
  <2>1. handled = [l \in Node \X Node |-> {}]
    <3>1. \A l \in Link : applied[l] \cup rejected[l] = {}
      BY Zenon DEF Init
    <3> QED BY <3>1, Zenon DEF handled, Link
  <2> QED BY <2>1, Zenon DEF D!Init, Init
<1>2. DeliveryInv /\ [Next \/ Break \/ Leave \/ Reboot]_vars => DeliveryInv'
  BY TypeFailureStep, LoggedStep, Zenon DEF DeliveryInv
<1>3. DeliveryInv /\ [Next \/ Break \/ Leave \/ Reboot]_vars => [D!Next]_(D!vars)
  BY DeliveryStep, Zenon DEF DeliveryInv
<1>4. Init => DeliveryInv
  BY TypeInit, LoggedInit, Zenon DEF DeliveryInv
<1> QED BY <1>1, <1>2, <1>3, <1>4, PTL DEF FailureSpec, ImplementsDelivery, D!Spec

(***************************************************************************)
(* The cursor of a replicator is never ahead of what was replicated        *)
(* (NoGap), for any number of nodes, entries, connections and failed       *)
(* sends.  First what a step does to each part of the state; then that an  *)
(* entry, once accounted for, stays so; then that ReplicationInv, whose    *)
(* parts are the places a cursor can come from, is inductive.              *)
(***************************************************************************)

LEMMA AppendFacts ==
  ASSUME NEW S, NEW q \in Seq(S), NEW b \in S
  PROVE  /\ Len(Append(q, b)) = Len(q) + 1 /\ Len(q) \in Nat
         /\ \A j \in 1..Len(q) : Append(q, b)[j] = q[j]
         /\ Append(q, b)[Len(q) + 1] = b
OBVIOUS

LEMMA TailFacts ==
  ASSUME NEW S, NEW q \in Seq(S), q # << >>
  PROVE  /\ Len(q) \in Nat \ {0} /\ Len(Tail(q)) = Len(q) - 1
         /\ \A j \in 1..Len(Tail(q)) : Tail(q)[j] = q[j + 1]
OBVIOUS

(***************************************************************************)
(* What a step does to each part of the state                              *)
(***************************************************************************)

(* The steps that leave what is sent, received and handled alone.          *)
Quiet == UNCHANGED <<log, base, stream, rx, seen, applied, rejected>>

LEMMA QuietSteps ==
  ASSUME NEW n \in Node, NEW p \in Node, NEW i \in Inc,
         \/ NotifyJoin(n, p) \/ Check(n, p, i)
         \/ Load(n, p, i) \/ Read(n, p, i) \/ Ask(n, p, i)
         \/ StoreCursor(n, p, i) \/ SendFail(n, p, i) \/ CloseIdle(n, p)
  PROVE  Quiet
<1>1. CASE NotifyJoin(n, p)
  BY <1>1, Zenon DEF NotifyJoin, Quiet, network, receiver
<1>2. CASE Check(n, p, i)
  BY <1>2, Zenon DEF Check, CheckStop, CheckData, CheckWait, Quiet, network, receiver
<1>3. CASE Load(n, p, i) \/ Read(n, p, i) \/ Ask(n, p, i)
  BY <1>3, Zenon DEF Load, Read, Ask, Quiet, network, receiver
<1>4. CASE StoreCursor(n, p, i)
  BY <1>4, Zenon DEF StoreCursor, Quiet, network, receiver
<1>5. CASE SendFail(n, p, i)
  BY <1>5, Zenon DEF SendFail, Quiet, network, receiver
<1>6. CASE CloseIdle(n, p)
  BY <1>6, Zenon DEF CloseIdle, Quiet, network, receiver
<1> QED BY <1>1, <1>2, <1>3, <1>4, <1>5, <1>6, Zenon 

(* The kinds of step, as far as messages are concerned.                    *)
LEMMA Kinds ==
  ASSUME [Next]_vars
  PROVE  \/ Quiet
         \/ \E m \in Node, op \in Ops : LogAppend(m, op)
         \/ \E m, q \in Node, i \in Inc : Send(m, q, i)
         \/ \E m, q \in Node, d \in Conn : Receive(m, q, d)
         \/ \E m, q \in Node, d \in Conn : ApplyEntry(m, q, d)
         \/ \E m, q \in Node, d \in Conn : RejectEntry(m, q, d)
<1>1. CASE UNCHANGED vars
  BY <1>1, Zenon DEF vars, network, receiver, Quiet
<1>2. 1 \in Inc
  BY ReplicationAssumption, SMTT(60) DEF Inc
<1> QED BY <1>1, <1>2, QuietSteps, Zenon DEF Next, Replicate

(* The batches of a connection: those it had, and the one just sent.       *)
LEMMA StreamStep ==
  ASSUME TypeOK, [Next]_vars, NEW n \in Node, NEW p \in Node, NEW c \in Conn,
         NEW j \in 1..Len(stream'[<<n, p, c>>])
  PROVE  \/ \E k \in 1..Len(stream[<<n, p, c>>]) :
              stream'[<<n, p, c>>][j] = stream[<<n, p, c>>][k]
         \/ \E i \in Inc : Send(n, p, i) /\ stream'[<<n, p, c>>][j] = SentBatch(n, p, i)
<1> DEFINE h == <<n, p, c>>
<1>0. h \in Handler /\ stream \in [Handler -> Seq(Batch)]
  BY Indices, Zenon DEF TypeOK
<1>1. CASE stream'[h] = stream[h]
  BY <1>1, Zenon 
<1>2. ASSUME NEW m \in Node, NEW q \in Node, NEW i \in Inc, Send(m, q, i),
             stream'[h] # stream[h]
      PROVE  \/ \E k \in 1..Len(stream[h]) : stream'[h][j] = stream[h][k]
             \/ Send(n, p, i) /\ stream'[h][j] = SentBatch(n, p, i)
  <2> DEFINE g == <<m, q, SendConn(m, q)>>
  <2>0. SendConn(m, q) \in Conn /\ SentBatch(m, q, i) \in Batch
    BY <1>2, SendEffect, Zenon 
  <2>1. stream' = [stream EXCEPT ![g] = Append(stream[g], SentBatch(m, q, i))]
    BY <1>2, Zenon DEF Send, SendConn, SentBatch
  <2>2. g \in Handler
    BY <2>0, Indices, Zenon 
  <2>3. h = g /\ m = n /\ q = p
    <3> HIDE DEF g
    <3>1. h = g
      BY <1>0, <1>2, <2>1, <2>2, Zenon 
    <3> QED BY <3>1, Zenon DEF g
  <2>4. stream'[h] = Append(stream[h], SentBatch(n, p, i))
    BY <1>0, <2>1, <2>2, <2>3, Zenon 
  <2>5. /\ Len(stream'[h]) = Len(stream[h]) + 1 /\ Len(stream[h]) \in Nat
        /\ \A k \in 1..Len(stream[h]) : stream'[h][k] = stream[h][k]
        /\ stream'[h][Len(stream[h]) + 1] = SentBatch(n, p, i)
    <3>1. stream[h] \in Seq(Batch) /\ SentBatch(n, p, i) \in Batch
      BY <1>0, <2>0, <2>3, Zenon 
    <3> QED BY <2>4, <3>1, AppendFacts, SMTT(60) 
  <2>6. j \in 1..Len(stream[h]) \/ j = Len(stream[h]) + 1
    BY <2>5, SMTT(60) 
  <2> QED BY <1>2, <2>3, <2>5, <2>6, Zenon 
<1>3. ASSUME NEW m \in Node, NEW q \in Node, NEW d \in Conn, Receive(m, q, d),
             stream'[h] # stream[h]
      PROVE  \E k \in 1..Len(stream[h]) : stream'[h][j] = stream[h][k]
  <2> DEFINE g == <<m, q, d>>
  <2>1. stream' = [stream EXCEPT ![g] = Tail(stream[g])] /\ g \in Handler /\ stream[g] # << >>
    BY <1>3, Indices, Zenon DEF Receive
  <2>2. h = g /\ stream'[h] = Tail(stream[h])
    <3> HIDE DEF g, h
    <3> QED BY <1>0, <1>3, <2>1, Zenon 
  <2>3. /\ Len(stream[h]) \in Nat \ {0} /\ Len(Tail(stream[h])) = Len(stream[h]) - 1
        /\ \A k \in 1..Len(Tail(stream[h])) : Tail(stream[h])[k] = stream[h][k + 1]
    <3>1. stream[h] \in Seq(Batch) /\ stream[h] # << >>
      BY <1>0, <2>1, <2>2, Zenon 
    <3> HIDE DEF h
    <3> QED BY <3>1, TailFacts, Zenon 
  <2>4. j + 1 \in 1..Len(stream[h]) /\ stream'[h][j] = stream[h][j + 1]
    <3>1. j \in 1..Len(stream'[h])
      OBVIOUS
    <3> HIDE DEF h, g
    <3> QED BY <2>2, <2>3, <3>1, SMTT(60) 
  <2> QED BY <2>4, Zenon 
<1>4. CASE stream' = stream
  BY <1>1, <1>4, Zenon 
<1> QED BY <1>1, <1>2, <1>3, <1>4, Kinds, ZenonT(40)
     DEF Quiet, LogAppend, ApplyEntry, RejectEntry, network

(* The rest of a batch shrinks or is that of the batch just received.      *)
LEMMA RxStep ==
  ASSUME TypeOK, [Next]_vars, NEW n \in Node, NEW p \in Node, NEW c \in Conn
  PROVE  \/ rx'[<<n, p, c>>].hi = rx[<<n, p, c>>].hi
         \/ rx'[<<n, p, c>>] = Idle
         \/ /\ 1 \in 1..Len(stream[<<n, p, c>>])
            /\ rx'[<<n, p, c>>].hi = stream[<<n, p, c>>][1].hi
<1> DEFINE h == <<n, p, c>>
<1>0. h \in Handler /\ rx \in [Handler -> Rest]
  BY Indices, Zenon DEF TypeOK
<1>1. CASE rx' = rx
  BY <1>1, Zenon 
<1>2. ASSUME NEW m \in Node, NEW q \in Node, NEW d \in Conn, Receive(m, q, d),
             rx'[h] # rx[h]
      PROVE  1 \in 1..Len(stream[h]) /\ rx'[h].hi = stream[h][1].hi
  <2> DEFINE g == <<m, q, d>>
             r == [base |-> Head(stream[g]).base,
                   lo |-> Head(stream[g]).lo, hi |-> Head(stream[g]).hi]
  <2>1. rx' = [rx EXCEPT ![g] = r] /\ g \in Handler
    BY <1>2, Indices, Zenon DEF Receive
  <2>2. Head(stream[g]) = stream[g][1] /\ Len(stream[g]) \in Nat \ {0}
    BY <1>2, ReceiveEffect, ZenonT(40) 
  <2>3. h = g /\ rx'[h] = r
    <3> HIDE DEF g, h, r
    <3> QED BY <1>0, <1>2, <2>1, Zenon 
  <2>4. 1 \in 1..Len(stream[h])
    <3> HIDE DEF g, h
    <3> QED BY <2>2, <2>3, SMTT(60) 
  <2>5. rx'[h].hi = stream[h][1].hi
    BY <2>2, <2>3, SMTT(60) 
  <2> QED BY <2>4, <2>5, Zenon 
<1>3. ASSUME NEW m \in Node, NEW q \in Node, NEW d \in Conn,
             rx[<<m, q, d>>] # Idle, rx' = Advanced(m, q, d)
      PROVE  rx'[h].hi = rx[h].hi \/ rx'[h] = Idle
  <2>1. CASE h = <<m, q, d>>
    <3>1. rx'[h] \in {Idle, [base |-> rx[h].base, lo |-> Current(m, q, d) + 1,
                             hi |-> rx[h].hi]}
      BY <1>3, <2>1, AdvancedEffect, ZenonT(40) 
    <3> QED BY <3>1, SMTT(60) 
  <2>2. CASE h # <<m, q, d>>
    <3>1. \A g \in Handler : g # <<m, q, d>> => Advanced(m, q, d)[g] = rx[g]
      BY <1>3, AdvancedEffect, ZenonT(40) 
    <3> HIDE DEF h
    <3> QED BY <1>0, <1>3, <2>2, <3>1, Zenon 
  <2> QED BY <2>1, <2>2, Zenon 
<1>4. ASSUME NEW m \in Node, NEW q \in Node, NEW d \in Conn,
             ApplyEntry(m, q, d) \/ RejectEntry(m, q, d)
      PROVE  rx'[h].hi = rx[h].hi \/ rx'[h] = Idle
  <2>1. rx[<<m, q, d>>] # Idle /\ rx' = Advanced(m, q, d)
    BY <1>4, Zenon DEF ApplyEntry, RejectEntry
  <2> QED BY <1>3, <2>1, Zenon 
<1>5. CASE Quiet
  BY <1>1, <1>5, Zenon DEF Quiet
<1>6. ASSUME NEW m \in Node, NEW op \in Ops, LogAppend(m, op) PROVE rx' = rx
  BY <1>6, Zenon DEF LogAppend, receiver
<1>7. ASSUME NEW m \in Node, NEW q \in Node, NEW i \in Inc, Send(m, q, i)
      PROVE  rx' = rx
  BY <1>7, Zenon DEF Send, receiver
<1> HIDE DEF h
<1>8. rx'[h].hi = rx[h].hi \/ rx'[h] = Idle
        \/ (1 \in 1..Len(stream[h]) /\ rx'[h].hi = stream[h][1].hi)
  BY <1>2, <1>4, <1>5, <1>6, <1>7, Kinds, Zenon DEF Quiet
<1> QED BY <1>8, Zenon DEF h

(* What p has recorded of n grows only to an entry that it is applying.    *)
LEMMA SeenStep ==
  ASSUME TypeOK, [Next]_vars, NEW n \in Node, NEW p \in Node
  PROVE  \/ seen'[<<p, n>>] = seen[<<p, n>>]
         \/ \E c \in Conn : /\ rx[<<n, p, c>>] # Idle
                            /\ rx[<<n, p, c>>].hi \in Nat
                            /\ seen'[<<p, n>>] <= rx[<<n, p, c>>].hi
                            /\ seen'[<<p, n>>] \in Nat
<1>0. <<p, n>> \in Link /\ seen \in [Link -> Nat]
  BY Indices, Zenon DEF TypeOK
<1>1. CASE seen' = seen
  BY <1>1, Zenon 
<1>2. ASSUME NEW m \in Node, NEW q \in Node, NEW d \in Conn, ApplyEntry(m, q, d),
             seen'[<<p, n>>] # seen[<<p, n>>]
      PROVE  \E c \in Conn : /\ rx[<<n, p, c>>] # Idle
                             /\ rx[<<n, p, c>>].hi \in Nat
                             /\ seen'[<<p, n>>] <= rx[<<n, p, c>>].hi
                             /\ seen'[<<p, n>>] \in Nat
  <2>1. /\ rx[<<m, q, d>>] # Idle /\ Current(m, q, d) \in Nat
        /\ Current(m, q, d) <= rx[<<m, q, d>>].hi /\ rx[<<m, q, d>>].hi \in Nat
    BY <1>2, AdvancedEffect, Zenon DEF ApplyEntry
  <2>2. seen' = [seen EXCEPT ![<<q, m>>] = Current(m, q, d)] /\ <<q, m>> \in Link
    BY <1>2, Indices, Zenon DEF ApplyEntry
  <2>3. <<p, n>> = <<q, m>> /\ seen'[<<p, n>>] = Current(m, q, d)
    <3> DEFINE a == <<p, n>>
               b == <<q, m>>
    <3>1. a \in Link /\ b \in Link /\ seen' = [seen EXCEPT ![b] = Current(m, q, d)]
          /\ seen'[a] # seen[a]
      BY <1>0, <1>2, <2>2, Zenon 
    <3> HIDE DEF a, b
    <3>2. a = b /\ seen'[a] = Current(m, q, d)
      BY <1>0, <3>1, Zenon 
    <3> QED BY <3>2, Zenon DEF a, b
  <2>4. p = q /\ n = m
    BY <2>3, Zenon 
  <2> QED BY <2>1, <2>3, <2>4, Zenon 
<1>3. CASE Quiet
  BY <1>1, <1>3, Zenon DEF Quiet
<1>4. ASSUME NEW m \in Node, NEW op \in Ops, LogAppend(m, op) PROVE seen' = seen
  BY <1>4, Zenon DEF LogAppend, receiver
<1>5. ASSUME NEW m \in Node, NEW q \in Node, NEW i \in Inc, Send(m, q, i)
      PROVE  seen' = seen
  BY <1>5, Zenon DEF Send, receiver
<1>6. ASSUME NEW m \in Node, NEW q \in Node, NEW d \in Conn,
             Receive(m, q, d) \/ RejectEntry(m, q, d)
      PROVE  seen' = seen
  BY <1>6, Zenon DEF Receive, RejectEntry
<1> QED BY <1>1, <1>2, <1>3, <1>4, <1>5, <1>6, Kinds, Zenon 

(* Where a cursor comes from.                                              *)
LEMMA CursorStep ==
  ASSUME TypeOK, [Next]_vars, NEW n \in Node, NEW p \in Node
  PROVE  \/ cursor'[<<n, p>>] = cursor[<<n, p>>]
         \/ cursor'[<<n, p>>] = LastSeq(n, p)
         \/ \E i \in Inc : /\ pc[<<n, p, i>>] = "store"
                           /\ cursor'[<<n, p>>] = job[<<n, p, i>>].last
                                + (job[<<n, p, i>>].hi - job[<<n, p, i>>].lo + 1)
         \/ \E c \in Conn : /\ 1 \in 1..Len(stream[<<p, n, c>>])
                            /\ stream[<<p, n, c>>][1].hs # Absent
                            /\ cursor'[<<n, p>>] = stream[<<p, n, c>>][1].hs
<1> DEFINE a == <<n, p>>
<1>0. a \in Link /\ cursor \in [Link -> Nat \cup {Absent}]
  BY Indices, Zenon DEF TypeOK
<1>1. CASE cursor' = cursor
  BY <1>1, Zenon 
<1>2. ASSUME NEW m \in Node, NEW q \in Node, NEW v,
             cursor' = [cursor EXCEPT ![<<m, q>>] = v], cursor'[a] # cursor[a]
      PROVE  m = n /\ q = p /\ cursor'[a] = v
  <2> DEFINE b == <<m, q>>
  <2>1. b \in Link /\ cursor' = [cursor EXCEPT ![b] = v]
    BY <1>2, Indices, Zenon 
  <2> HIDE DEF a, b
  <2>2. a = b /\ cursor'[a] = v
    BY <1>0, <1>2, <2>1, Zenon 
  <2> QED BY <2>2, Zenon DEF a, b
<1>3. ASSUME NEW m \in Node, NEW q \in Node, NEW i \in Inc, Load(m, q, i),
             cursor'[a] # cursor[a]
      PROVE  cursor'[a] = LastSeq(n, p)
  <2>1. cursor' = [cursor EXCEPT ![<<m, q>>] = LastSeq(m, q)]
    BY <1>3, Zenon DEF Load
  <2> HIDE DEF a
  <2> QED BY <1>2, <1>3, <2>1, Zenon 
<1>4. ASSUME NEW m \in Node, NEW q \in Node, NEW i \in Inc, StoreCursor(m, q, i),
             cursor'[a] # cursor[a]
      PROVE  /\ pc[<<n, p, i>>] = "store"
             /\ cursor'[a] = job[<<n, p, i>>].last
                               + (job[<<n, p, i>>].hi - job[<<n, p, i>>].lo + 1)
  <2> DEFINE v == job[<<m, q, i>>].last + (job[<<m, q, i>>].hi - job[<<m, q, i>>].lo + 1)
  <2>1. cursor' = [cursor EXCEPT ![<<m, q>>] = v] /\ pc[<<m, q, i>>] = "store"
    BY <1>4, Zenon DEF StoreCursor
  <2>2. m = n /\ q = p /\ cursor'[a] = v
    <3> HIDE DEF a, v
    <3> QED BY <1>2, <1>4, <2>1, Zenon 
  <2> QED BY <2>1, <2>2, Zenon 
<1>5. ASSUME NEW m \in Node, NEW q \in Node, NEW d \in Conn, Receive(m, q, d),
             cursor'[a] # cursor[a]
      PROVE  /\ 1 \in 1..Len(stream[<<p, n, d>>])
             /\ stream[<<p, n, d>>][1].hs # Absent
             /\ cursor'[a] = stream[<<p, n, d>>][1].hs
  <2> DEFINE b == Head(stream[<<m, q, d>>])
  <2>1. b = stream[<<m, q, d>>][1] /\ Len(stream[<<m, q, d>>]) \in Nat \ {0}
    BY <1>5, ReceiveEffect, ZenonT(40) 
  <2>2. b.hs # Absent /\ cursor' = [cursor EXCEPT ![<<q, m>>] = b.hs]
    BY <1>5, Zenon DEF Receive
  <2>3. q = n /\ m = p /\ cursor'[a] = b.hs
    <3> HIDE DEF a, b
    <3> QED BY <1>2, <1>5, <2>2, Zenon 
  <2> HIDE DEF b
  <2>4. /\ 1 \in 1..Len(stream[<<m, q, d>>]) /\ stream[<<m, q, d>>][1].hs # Absent
        /\ cursor'[a] = stream[<<m, q, d>>][1].hs
    BY <2>1, <2>2, <2>3, SMTT(60) 
  <2> QED BY <2>3, <2>4, Zenon 
<1>6. CASE UNCHANGED vars
  BY <1>1, <1>6, Zenon DEF vars
<1>7. ASSUME NEW m \in Node, NEW op \in Ops, LogAppend(m, op)
      PROVE  cursor' = cursor
  BY <1>7, Zenon DEF LogAppend
<1>8. ASSUME NEW m \in Node, NEW q \in Node, NotifyJoin(m, q) \/ CloseIdle(m, q)
      PROVE  cursor' = cursor
  BY <1>8, Zenon DEF NotifyJoin, CloseIdle
<1>9. ASSUME NEW m \in Node, NEW q \in Node, NEW i \in Inc,
             \/ Check(m, q, i) \/ Read(m, q, i) \/ Ask(m, q, i)
             \/ Send(m, q, i) \/ SendFail(m, q, i)
      PROVE  cursor' = cursor
  BY <1>9, Zenon DEF Check, CheckStop, CheckData, CheckWait, Read, Ask, Send, SendFail
<1>10. ASSUME NEW m \in Node, NEW q \in Node, NEW d \in Conn,
              ApplyEntry(m, q, d) \/ RejectEntry(m, q, d)
       PROVE  cursor' = cursor
  BY <1>10, Zenon DEF ApplyEntry, RejectEntry
<1>11. \/ cursor' = cursor
       \/ \E m, q \in Node, i \in Inc : Load(m, q, i) \/ StoreCursor(m, q, i)
       \/ \E m, q \in Node, d \in Conn : Receive(m, q, d)
  BY <1>6, <1>7, <1>8, <1>9, <1>10, Zenon DEF Next, Replicate, vars
<1> QED BY <1>1, <1>3, <1>4, <1>5, <1>11, ZenonT(40) 

(* How a replicator comes to hold a position, and a batch from there on.   *)
LEMMA JobStep ==
  ASSUME TypeOK, [Next]_vars, NEW n \in Node, NEW p \in Node, NEW i \in Inc,
         pc'[<<n, p, i>>] \in {"read", "ask", "send", "store"}
  PROVE  \/ pc'[<<n, p, i>>] = pc[<<n, p, i>>] /\ job'[<<n, p, i>>] = job[<<n, p, i>>]
         \/ /\ Load(n, p, i) /\ pc'[<<n, p, i>>] = "read"
            /\ job'[<<n, p, i>>].last = LastSeq(n, p)
         \/ /\ Read(n, p, i) /\ pc'[<<n, p, i>>] = "ask" /\ pc[<<n, p, i>>] = "read"
            /\ job'[<<n, p, i>>].last = job[<<n, p, i>>].last
            /\ job'[<<n, p, i>>].lo = First(n, job[<<n, p, i>>].last)
         \/ /\ Ask(n, p, i) /\ pc'[<<n, p, i>>] = "send" /\ pc[<<n, p, i>>] = "ask"
            /\ job'[<<n, p, i>>] = [job[<<n, p, i>>] EXCEPT !.hs = seen[<<n, p>>]]
         \/ /\ Send(n, p, i) /\ pc'[<<n, p, i>>] = "store" /\ pc[<<n, p, i>>] = "send"
            /\ job'[<<n, p, i>>] = job[<<n, p, i>>]
<1> DEFINE g == <<n, p, i>>
<1>0. g \in Replicator /\ pc \in [Replicator -> Control] /\ job \in [Replicator -> Job]
  BY Indices, Zenon DEF TypeOK
<1> DEFINE Same == pc'[g] = pc[g] /\ job'[g] = job[g]
<1>1. pc'[g] \in {"read", "ask", "send", "store"}
  OBVIOUS
<1>2. ASSUME NEW m \in Node, pc' = Woken(m), job' = job
      PROVE  Same
  <2> HIDE DEF g
  <2> QED BY <1>0, <1>1, <1>2, Zenon DEF Woken
<1>3. ASSUME NEW m \in Node, NEW op \in Ops, LogAppend(m, op)
      PROVE  Same
  BY <1>2, <1>3, Zenon DEF LogAppend
<1>4. ASSUME NEW m \in Node, NEW q \in Node, NotifyJoin(m, q)
      PROVE  Same
  <2> DEFINE r == <<m, q, started[<<m, q>>] + 1>>
  <2>0. started[<<m, q>>] \in 0..MaxJoins /\ started[<<m, q>>] < MaxJoins
    BY <1>4, Links, Zenon DEF NotifyJoin
  <2>1. started[<<m, q>>] + 1 \in Inc
    BY <2>0, ReplicationAssumption, SMTT(60) DEF Inc
  <2>2. r \in Replicator /\ pc' = [pc EXCEPT ![r] = "check"] /\ job' = job
    BY <1>4, <2>1, Indices, Zenon DEF NotifyJoin
  <2> HIDE DEF g, r
  <2> QED BY <1>0, <1>1, <2>2, Zenon 
<1>5. ASSUME NEW m \in Node, NEW q \in Node, NEW k \in Inc, Check(m, q, k)
      PROVE  Same
  <2> DEFINE r == <<m, q, k>>
  <2>1. r \in Replicator /\ job' = job
    BY <1>5, Indices, Zenon DEF Check, CheckStop, CheckData, CheckWait
  <2>2. PICK v \in {"done", "load", "wait"} : pc' = [pc EXCEPT ![r] = v]
    BY <1>5, Zenon DEF Check, CheckStop, CheckData, CheckWait
  <2> HIDE DEF g, r
  <2> QED BY <1>0, <1>1, <2>1, <2>2, Zenon 
<1>6. ASSUME NEW m \in Node, NEW q \in Node, NEW k \in Inc,
             StoreCursor(m, q, k) \/ SendFail(m, q, k)
      PROVE  Same
  <2> DEFINE r == <<m, q, k>>
  <2>1. /\ r \in Replicator /\ pc' = [pc EXCEPT ![r] = "check"]
        /\ job' = [job EXCEPT ![r] = NoJob]
    BY <1>6, Indices, Zenon DEF StoreCursor, SendFail
  <2> HIDE DEF g, r
  <2> QED BY <1>0, <1>1, <2>1, Zenon 
<1>7. ASSUME NEW m \in Node, NEW q \in Node, NEW k \in Inc, ~Same, NEW v, NEW j,
             pc' = [pc EXCEPT ![<<m, q, k>>] = v], job' = [job EXCEPT ![<<m, q, k>>] = j]
      PROVE  m = n /\ q = p /\ k = i /\ pc'[g] = v /\ job'[g] = j
  <2> DEFINE r == <<m, q, k>>
  <2>1. /\ r \in Replicator
        /\ pc' = [pc EXCEPT ![r] = v] /\ job' = [job EXCEPT ![r] = j]
    BY <1>7, Indices, Zenon 
  <2>2. r = g /\ pc'[g] = v /\ job'[g] = j
    <3> HIDE DEF g, r
    <3>1. r = g
      BY <1>0, <1>7, <2>1, Zenon 
    <3> QED BY <1>0, <2>1, <3>1, Zenon 
  <2> QED BY <2>2, Zenon 
<1>13. ASSUME NEW m \in Node, NEW q \in Node, NEW k \in Inc, Load(m, q, k), ~Same
       PROVE  Load(n, p, i) /\ pc'[g] = "read" /\ job'[g].last = LastSeq(n, p)
  <2> DEFINE j == [NoJob EXCEPT !.last = LastSeq(m, q)]
  <2>1. /\ pc' = [pc EXCEPT ![<<m, q, k>>] = "read"]
        /\ job' = [job EXCEPT ![<<m, q, k>>] = j]
    BY <1>13, Zenon DEF Load
  <2>2. j.last = LastSeq(m, q)
    BY SMTT(60) DEF NoJob
  <2> HIDE DEF j, Same, g
  <2>3. m = n /\ q = p /\ k = i /\ pc'[g] = "read" /\ job'[g] = j
    BY <1>7, <1>13, <2>1, Zenon 
  <2> QED BY <1>13, <2>2, <2>3, Zenon 
<1>14. ASSUME NEW m \in Node, NEW q \in Node, NEW k \in Inc, Read(m, q, k), ~Same
       PROVE  /\ Read(n, p, i) /\ pc'[g] = "ask" /\ pc[g] = "read"
              /\ job'[g].last = job[g].last /\ job'[g].lo = First(n, job[g].last)
  <2> DEFINE last == job[<<m, q, k>>].last
             first == First(m, last)
  <2>1. ReadsNothing(m, q, k) \/ \E hi \in Nat : ReadsUpTo(m, q, k, last, first, hi)
    BY <1>14, ReadEffect, Zenon 
  <2>2. pc[<<m, q, k>>] = "read"
    BY <1>14, Zenon DEF Read
  <2>3. ASSUME ReadsNothing(m, q, k) PROVE FALSE
    <3>1. pc'[g] = "check"
      <4> HIDE DEF Same, g
      <4> QED BY <1>7, <1>14, <2>3, Zenon DEF ReadsNothing
    <3> QED BY <1>1, <3>1, Zenon 
  <2>4. ASSUME NEW hi \in Nat, ReadsUpTo(m, q, k, last, first, hi)
        PROVE  /\ m = n /\ q = p /\ k = i /\ pc'[g] = "ask"
               /\ job'[g].last = last /\ job'[g].lo = first
    <3> DEFINE j == [last |-> last, lo |-> first, hi |-> hi, hs |-> 0]
    <3>1. /\ pc' = [pc EXCEPT ![<<m, q, k>>] = "ask"]
          /\ job' = [job EXCEPT ![<<m, q, k>>] = j]
      BY <2>4, Zenon DEF ReadsUpTo
    <3> HIDE DEF last, first
    <3>2. j.last = last /\ j.lo = first
      BY Zenon 
    <3> HIDE DEF j, Same, g
    <3> QED BY <1>7, <1>14, <3>1, <3>2, Zenon 
  <2>5. /\ m = n /\ q = p /\ k = i /\ pc'[g] = "ask"
        /\ job'[g].last = last /\ job'[g].lo = first
    <3> HIDE DEF last, first, g
    <3> QED BY <2>1, <2>3, <2>4, Zenon 
  <2> QED BY <1>14, <2>2, <2>5, Zenon 
<1>15. ASSUME NEW m \in Node, NEW q \in Node, NEW k \in Inc, Ask(m, q, k), ~Same
       PROVE  /\ Ask(n, p, i) /\ pc'[g] = "send" /\ pc[g] = "ask"
              /\ job'[g] = [job[g] EXCEPT !.hs = seen[<<n, p>>]]
  <2> DEFINE j == [job[<<m, q, k>>] EXCEPT !.hs = seen[<<m, q>>]]
  <2>1. /\ pc' = [pc EXCEPT ![<<m, q, k>>] = "send"]
        /\ job' = [job EXCEPT ![<<m, q, k>>] = j] /\ pc[<<m, q, k>>] = "ask"
    BY <1>15, Zenon DEF Ask
  <2>2. m = n /\ q = p /\ k = i /\ pc'[g] = "send" /\ job'[g] = j
    <3> HIDE DEF j, Same, g
    <3> QED BY <1>7, <1>15, <2>1, Zenon 
  <2> QED BY <1>15, <2>1, <2>2, Zenon 
<1>8. ASSUME NEW m \in Node, NEW q \in Node, NEW k \in Inc, Send(m, q, k), ~Same
      PROVE  /\ Send(n, p, i) /\ pc'[g] = "store" /\ pc[g] = "send"
             /\ job'[g] = job[g]
  <2> DEFINE r == <<m, q, k>>
  <2>1. /\ r \in Replicator /\ pc' = [pc EXCEPT ![r] = "store"] /\ job' = job
        /\ pc[r] = "send"
    BY <1>8, Indices, Zenon DEF Send
  <2>2. r = g /\ pc'[g] = "store" /\ pc[g] = "send" /\ job'[g] = job[g]
    <3> HIDE DEF g, r
    <3>1. r = g
      BY <1>0, <1>8, <2>1, Zenon 
    <3> QED BY <1>0, <2>1, <3>1, Zenon 
  <2>3. m = n /\ q = p /\ k = i
    BY <2>2, Zenon 
  <2> QED BY <1>8, <2>2, <2>3, Zenon 
<1>9. ASSUME NEW m \in Node, NEW q \in Node, NEW d \in Conn,
              \/ CloseIdle(m, q) \/ Receive(m, q, d) \/ ApplyEntry(m, q, d)
              \/ RejectEntry(m, q, d) \/ UNCHANGED vars
       PROVE  Same
  BY <1>9, Zenon DEF CloseIdle, Receive, ApplyEntry, RejectEntry, vars, sender
<1>10. 1 \in Conn
  BY ReplicationAssumption, SMTT(60) DEF Conn
<1> HIDE DEF Same
<1>11. \/ Same
       \/ \E m, q \in Node, k \in Inc :
            Load(m, q, k) \/ Read(m, q, k) \/ Ask(m, q, k) \/ Send(m, q, k)
  BY <1>3, <1>4, <1>5, <1>6, <1>9, <1>10, Zenon DEF Next, Replicate
<1>12. CASE Same
  BY <1>12, Zenon DEF Same
<1> QED BY <1>8, <1>11, <1>12, <1>13, <1>14, <1>15, Zenon 

(***************************************************************************)
(* An entry that is accounted for stays so                                 *)
(***************************************************************************)

LEMMA OnConnSend ==
  ASSUME TypeOK, NEW n \in Node, NEW p \in Node, NEW c \in Conn, NEW s \in Nat,
         OnConn(n, p, c, s), NEW m \in Node, NEW q \in Node, NEW i \in Inc,
         Send(m, q, i)
  PROVE  OnConn(n, p, c, s)'
<1> DEFINE h == <<n, p, c>>
           g == <<m, q, SendConn(m, q)>>
<1>1. /\ h \in Handler /\ stream \in [Handler -> Seq(Batch)]
      /\ rx' = rx /\ base' = base
  BY Indices, Zenon DEF TypeOK, Send, receiver
<1>2. SendConn(m, q) \in Conn /\ SentBatch(m, q, i) \in Batch
  BY SendEffect, Zenon 
<1>3. stream' = [stream EXCEPT ![g] = Append(stream[g], SentBatch(m, q, i))]
  BY Zenon DEF Send, SendConn, SentBatch
<1>4. g \in Handler
  BY <1>2, Indices, Zenon 
<1>5. \A j \in 1..Len(stream[h]) : j \in 1..Len(stream'[h]) /\ stream'[h][j] = stream[h][j]
  <2> HIDE DEF g, h
  <2>1. CASE g = h
    <3>1. stream'[h] = Append(stream[h], SentBatch(m, q, i)) /\ stream[h] \in Seq(Batch)
      BY <1>1, <1>3, <1>4, <2>1, Zenon 
    <3>2. /\ Len(stream'[h]) = Len(stream[h]) + 1 /\ Len(stream[h]) \in Nat
          /\ \A j \in 1..Len(stream[h]) : stream'[h][j] = stream[h][j]
      BY <1>2, <3>1, AppendFacts, SMTT(60) 
    <3> QED BY <3>2, SMTT(60) 
  <2>2. CASE g # h
    BY <1>1, <1>3, <1>4, <2>2, Zenon 
  <2> QED BY <2>1, <2>2, Zenon 
<1>6. CASE Holds(n, rx[h], s)
  BY <1>1, <1>6, Zenon DEF OnConn, Holds
<1>7. ASSUME NEW j \in 1..Len(stream[h]), Holds(n, stream[h][j], s)
      PROVE  OnConn(n, p, c, s)'
  BY <1>1, <1>5, <1>7, Zenon DEF OnConn, Holds
<1> QED BY <1>6, <1>7, Zenon DEF OnConn

LEMMA OnConnReceive ==
  ASSUME TypeOK, NEW n \in Node, NEW p \in Node, NEW c \in Conn, NEW s \in Nat,
         OnConn(n, p, c, s), NEW m \in Node, NEW q \in Node, NEW d \in Conn,
         Receive(m, q, d)
  PROVE  OnConn(n, p, c, s)'
<1> DEFINE h == <<n, p, c>>
           g == <<m, q, d>>
           r == [base |-> Head(stream[g]).base,
                   lo |-> Head(stream[g]).lo, hi |-> Head(stream[g]).hi]
<1>1. /\ h \in Handler /\ g \in Handler /\ stream \in [Handler -> Seq(Batch)]
      /\ rx \in [Handler -> Rest]
  BY Indices, Zenon DEF TypeOK
<1>2. /\ stream' = [stream EXCEPT ![g] = Tail(stream[g])] /\ stream[g] # << >>
      /\ rx' = [rx EXCEPT ![g] = r] /\ rx[g] = Idle /\ base' = base
  BY Zenon DEF Receive
<1>3. CASE g # h
  <2>1. stream'[h] = stream[h] /\ rx'[h] = rx[h]
    <3> HIDE DEF g, h, r
    <3> QED BY <1>1, <1>2, <1>3, Zenon 
  <2> QED BY <1>2, <2>1, Zenon DEF OnConn, Holds
<1>4. CASE g = h
  <2>1. /\ Head(stream[h]) = stream[h][1] /\ Len(stream[h]) \in Nat \ {0}
        /\ Len(Tail(stream[h])) = Len(stream[h]) - 1
        /\ \A j \in 1..Len(Tail(stream[h])) : Tail(stream[h])[j] = stream[h][j + 1]
    <3>1. stream[h] \in Seq(Batch) /\ stream[h] # << >>
      BY <1>1, <1>2, <1>4, Zenon 
    <3> HIDE DEF h
    <3> QED BY <3>1, TailFacts, SMTT(60) 
  <2>2. stream'[h] = Tail(stream[h]) /\ rx'[h] = r
    <3> HIDE DEF g, h, r
    <3> QED BY <1>1, <1>2, <1>4, Zenon 
  <2>3. /\ rx'[h].lo = stream[h][1].lo /\ rx'[h].hi = stream[h][1].hi
        /\ rx'[h].base = stream[h][1].base
    BY <1>4, <2>1, <2>2, SMTT(60) 
  <2>4. PICK j \in 1..Len(stream[h]) : Holds(n, stream[h][j], s)
    <3>1. rx[h] = Idle
      BY <1>2, <1>4, Zenon 
    <3>2. ~Holds(n, rx[h], s)
      BY <3>1, SMTT(60) DEF Holds, Idle
    <3> QED BY <3>2, Zenon DEF OnConn
  <2>5. CASE j = 1
    BY <1>2, <2>3, <2>4, <2>5, Zenon DEF OnConn, Holds
  <2>6. CASE j # 1
    <3>1. j - 1 \in 1..Len(stream'[h]) /\ stream'[h][j - 1] = stream[h][j]
      <4> HIDE DEF h, g, r
      <4>1. j - 1 \in 1..Len(Tail(stream[h])) /\ (j - 1) + 1 = j
        BY <2>1, <2>6, SMTT(60) 
      <4> QED BY <2>1, <2>2, <4>1, Zenon 
    <3> QED BY <1>2, <2>4, <3>1, Zenon DEF OnConn, Holds
  <2> QED BY <2>5, <2>6, Zenon 
<1> QED BY <1>3, <1>4, Zenon 

LEMMA OnConnAdvance ==
  ASSUME TypeOK, NEW n \in Node, NEW p \in Node, NEW c \in Conn, NEW s \in Nat,
         OnConn(n, p, c, s), NEW m \in Node, NEW q \in Node, NEW d \in Conn,
         rx[<<m, q, d>>] # Idle, rx' = Advanced(m, q, d), stream' = stream, base' = base
  PROVE  \/ OnConn(n, p, c, s)'
         \/ m = n /\ q = p /\ base[n] + s = Place(m, q, d)
<1> DEFINE h == <<n, p, c>>
<1>1. CASE h # <<m, q, d>>
  <2>1. h \in Handler
    BY Indices, Zenon 
  <2>2. \A k \in Handler : k # <<m, q, d>> => Advanced(m, q, d)[k] = rx[k]
    BY AdvancedEffect, ZenonT(40) 
  <2>3. rx'[h] = rx[h]
    <3> HIDE DEF h
    <3> QED BY <1>1, <2>1, <2>2, Zenon 
  <2> QED BY <2>3, Zenon DEF OnConn, Holds
<1>2. CASE h = <<m, q, d>>
  <2>1. m = n /\ q = p /\ d = c
    BY <1>2, Zenon 
  <2>2. /\ Current(n, p, c) \in Nat /\ rx[h].hi \in Nat
        /\ rx'[h] \in {Idle, [base |-> rx[h].base, lo |-> Current(n, p, c) + 1,
                              hi |-> rx[h].hi]}
        /\ rx'[h] = Idle => Current(n, p, c) = rx[h].hi
    BY <2>1, AdvancedEffect, ZenonT(40) 
  <2>3. CASE Holds(n, rx[h], s)
    <3>1. Current(n, p, c) = rx[h].lo /\ Place(n, p, c) = rx[h].base + Current(n, p, c)
      BY Zenon DEF Current, Place
    <3>2. rx[h].base = base[n] /\ s \in rx[h].lo..rx[h].hi
      BY <2>3, Zenon DEF Holds
    <3>3. \/ s = Current(n, p, c)
          \/ rx'[h].base = rx[h].base /\ s \in rx'[h].lo..rx'[h].hi
      <4> HIDE DEF h
      <4> QED BY <2>2, <3>1, <3>2, SMTT(60) 
    <3> QED BY <2>1, <3>1, <3>2, <3>3, Zenon DEF OnConn, Holds
  <2>4. CASE ~Holds(n, rx[h], s)
    BY <2>4, Zenon DEF OnConn, Holds
  <2> QED BY <2>3, <2>4, Zenon 
<1> QED BY <1>1, <1>2, Zenon 

LEMMA AccountedStep ==
  ASSUME TypeOK, [Next]_vars, NEW n \in Node, NEW p \in Node, NEW s \in Nat,
         Accounted(n, p, s)
  PROVE  Accounted(n, p, s)'
<1>0. /\ <<p, n>> \in Link /\ applied \in [Link -> SUBSET Nat]
      /\ rejected \in [Link -> SUBSET Nat]
  BY Indices, Zenon DEF TypeOK
<1>1. CASE Quiet
  BY <1>1, Zenon DEF Quiet, Accounted, Handled, InFlight, OnConn, Holds, Overwritten,
               Earliest, NextSeq
<1>2. ASSUME NEW m \in Node, NEW op \in Ops, LogAppend(m, op)
      PROVE  Accounted(n, p, s)'
  <2>1. /\ stream' = stream /\ rx' = rx /\ applied' = applied /\ rejected' = rejected
        /\ log' = [log EXCEPT ![m] = Append(log[m], op)] /\ base' = base
    BY <1>2, Zenon DEF LogAppend, network, receiver
  <2>2. /\ Len(log'[n]) \in {Len(log[n]), Len(log[n]) + 1} /\ Len(log[n]) \in Nat
        /\ base[n] \in Nat
    <3>1. log[n] \in Seq(Ops) /\ log[m] \in Seq(Ops) /\ log \in [Node -> Seq(Ops)]
      BY Zenon DEF TypeOK
    <3>2. Len(Append(log[m], op)) = Len(log[m]) + 1 /\ Len(log[n]) \in Nat
      BY <3>1, AppendFacts, ZenonT(40) 
    <3>3. base[n] \in Nat
      BY Logs, Zenon 
    <3> QED BY <2>1, <3>1, <3>2, <3>3, Zenon 
  <2>3. Overwritten(n, s) => Overwritten(n, s)'
    BY <2>1, <2>2, ReplicationAssumption, SMTT(60) DEF Overwritten, Earliest, NextSeq
  <2>4. Handled(n, p, s) => Handled(n, p, s)'
    BY <2>1, Zenon DEF Handled
  <2>5. InFlight(n, p, s) => InFlight(n, p, s)'
    BY <2>1, Zenon DEF InFlight, OnConn, Holds
  <2> QED BY <2>3, <2>4, <2>5, Zenon DEF Accounted
<1>3. ASSUME NEW m \in Node, NEW q \in Node, NEW i \in Inc, Send(m, q, i)
      PROVE  Accounted(n, p, s)'
  <2>1. log' = log /\ base' = base /\ applied' = applied /\ rejected' = rejected
    BY <1>3, Zenon DEF Send, receiver
  <2>2. InFlight(n, p, s) => InFlight(n, p, s)'
    BY <1>3, OnConnSend, Zenon DEF InFlight
  <2> QED BY <2>1, <2>2, Zenon DEF Accounted, Handled, Overwritten, Earliest, NextSeq
<1>4. ASSUME NEW m \in Node, NEW q \in Node, NEW d \in Conn, Receive(m, q, d)
      PROVE  Accounted(n, p, s)'
  <2>1. log' = log /\ base' = base /\ applied' = applied /\ rejected' = rejected
    BY <1>4, Zenon DEF Receive
  <2>2. InFlight(n, p, s) => InFlight(n, p, s)'
    BY <1>4, OnConnReceive, Zenon DEF InFlight
  <2> QED BY <2>1, <2>2, Zenon DEF Accounted, Handled, Overwritten, Earliest, NextSeq
<1>5. ASSUME NEW m \in Node, NEW q \in Node, NEW d \in Conn,
             ApplyEntry(m, q, d) \/ RejectEntry(m, q, d)
      PROVE  Accounted(n, p, s)'
  <2>1. /\ log' = log /\ base' = base /\ stream' = stream
        /\ rx[<<m, q, d>>] # Idle /\ rx' = Advanced(m, q, d)
    BY <1>5, Zenon DEF ApplyEntry, RejectEntry, network
  <2>2. <<q, m>> \in Link
    BY Indices, Zenon 
  <2>3. \/ /\ applied' = [applied EXCEPT ![<<q, m>>] =
                            applied[<<q, m>>] \cup {Place(m, q, d)}]
           /\ rejected' = rejected
        \/ /\ rejected' = [rejected EXCEPT ![<<q, m>>] =
                             rejected[<<q, m>>] \cup {Place(m, q, d)}]
           /\ applied' = applied
    BY <1>5, Zenon DEF ApplyEntry, RejectEntry
  <2>4. Place(m, q, d) \in applied'[<<q, m>>] \cup rejected'[<<q, m>>]
    BY <1>0, <2>2, <2>3, Zenon 
  <2>5. applied[<<p, n>>] \subseteq applied'[<<p, n>>]
        /\ rejected[<<p, n>>] \subseteq rejected'[<<p, n>>]
    BY <1>0, <2>2, <2>3, Zenon 
  <2>6. Handled(n, p, s) => Handled(n, p, s)'
    BY <2>1, <2>5, Zenon DEF Handled
  <2>7. Overwritten(n, s) => Overwritten(n, s)'
    BY <2>1, Zenon DEF Overwritten, Earliest, NextSeq
  <2>8. ASSUME NEW c \in Conn, OnConn(n, p, c, s)
        PROVE  OnConn(n, p, c, s)' \/ Handled(n, p, s)'
    <3>1. OnConn(n, p, c, s)' \/ (m = n /\ q = p /\ base[n] + s = Place(m, q, d))
      <4>1. rx[<<m, q, d>>] # Idle /\ rx' = Advanced(m, q, d)
        BY <2>1, Zenon 
      <4>2. stream' = stream /\ base' = base
        BY <2>1, Zenon 
      <4> QED BY <2>8, <4>1, <4>2, OnConnAdvance, SMTT(60)
    <3> QED BY <2>1, <2>4, <3>1, Zenon DEF Handled
  <2> QED BY <2>6, <2>7, <2>8, Zenon DEF Accounted, InFlight
<1> QED BY <1>1, <1>2, <1>3, <1>4, <1>5, Kinds, Zenon 

LEMMA CoveredStep ==
  ASSUME TypeOK, [Next]_vars, NEW n \in Node, NEW p \in Node, NEW k \in Int,
         Covered(n, p, k)
  PROVE  Covered(n, p, k)'
BY AccountedStep, SMTT(60) DEF Covered

LEMMA CoveredLess ==
  ASSUME NEW n \in Node, NEW p \in Node, NEW k \in Int, NEW l \in Int, l <= k,
         Covered(n, p, k)
  PROVE  Covered(n, p, l)
BY SMTT(60) DEF Covered

(***************************************************************************)
(* The invariant                                                           *)
(***************************************************************************)

LEMMA InvInit == Init => ReplicationInv
<1> SUFFICES ASSUME Init PROVE ReplicationInv
  OBVIOUS
<1>1. TypeOK
  BY TypeInit, Zenon 
<1>2. ASSUME NEW n \in Node, NEW p \in Node
      PROVE  /\ cursor[<<n, p>>] = Absent /\ seen[<<n, p>>] = 0
             /\ conn[<<n, p>>] = 0 /\ dialled[<<n, p>>] = 0
             /\ \A i \in Inc : pc[<<n, p, i>>] = "none"
             /\ \A c \in Conn : rx[<<n, p, c>>] = Idle /\ stream[<<n, p, c>>] = << >>
  BY Indices, Zenon DEF Init
<1>3. Len(<< >>) = 0 /\ 1..0 = {} /\ 1..Absent = {} /\ Idle.hi = 0
  BY SMTT(60) DEF Absent, Idle
<1>4. NoGap
  BY <1>2, <1>3, Zenon DEF NoGap, Covered
<1>5. RecordsCovered
  BY <1>2, <1>3, Zenon DEF RecordsCovered, Covered
<1>6. BatchesCovered
  BY <1>2, <1>3, Zenon DEF BatchesCovered, Covered
<1>7. JobsCovered
  BY <1>2, ZenonT(40) DEF JobsCovered
<1>8. HandshakeFirst
  <2>1. \A c \in Conn : ~(c <= 0)
    BY SMTT(60) DEF Conn
  <2>2. ASSUME NEW n \in Node, NEW p \in Node, NEW c \in Conn
        PROVE  FreshConn(p, n, c)
    BY <1>2, <2>1, Zenon DEF FreshConn
  <2>3. ASSUME NEW n \in Node, NEW p \in Node
        PROVE  conn[<<n, p>>] <= dialled[<<n, p>>] /\ seen[<<n, p>>] = 0
    BY <1>2, SMTT(60) 
  <2> QED BY <2>2, <2>3, Zenon DEF HandshakeFirst
<1> QED BY <1>1, <1>4, <1>5, <1>6, <1>7, <1>8, Zenon DEF ReplicationInv

(* Where replication resumes is covered: without a cursor nothing has been *)
(* recorded from the peer, and it resumes from the start.                  *)
LEMMA ResumeCovered ==
  ASSUME ReplicationInv, NEW n \in Node, NEW p \in Node
  PROVE  Covered(n, p, LastSeq(n, p))
<1>1. CASE cursor[<<n, p>>] # Absent
  BY <1>1, Zenon DEF ReplicationInv, NoGap, LastSeq
<1>2. CASE cursor[<<n, p>>] = Absent
  <2>1. LastSeq(n, p) = 0
    BY <1>2, Zenon DEF ReplicationInv, HandshakeFirst, LastSeq
  <2> QED BY <2>1, SMTT(60) DEF Covered
<1> QED BY <1>1, <1>2, Zenon 

(* The entries of a batch that has just been sent are in flight, those     *)
(* before it were covered.                                                 *)
LEMMA SentCovered ==
  ASSUME ReplicationInv, [Next]_vars, NEW n \in Node, NEW p \in Node, NEW i \in Inc,
         Send(n, p, i), NEW k, k = job[<<n, p, i>>].hi
  PROVE  Covered(n, p, k)'
<1> DEFINE lo == job[<<n, p, i>>].lo
           h == <<n, p, SendConn(n, p)>>
           b == SentBatch(n, p, i)
<1>0. TypeOK
  BY Zenon DEF ReplicationInv
<1>1. lo \in Nat /\ k \in Nat
  BY <1>0, Jobs, Zenon DEF Job
<1>2. Covered(n, p, lo - 1)
  BY Zenon DEF ReplicationInv, JobsCovered, Send
<1>3. \A s \in 1..(lo - 1) : Accounted(n, p, s)'
  <2> SUFFICES ASSUME NEW s \in 1..(lo - 1) PROVE Accounted(n, p, s)'
    OBVIOUS
  <2>1. s \in Nat /\ Accounted(n, p, s)
    BY <1>1, <1>2, SMTT(60) DEF Covered
  <2> QED BY <1>0, <2>1, AccountedStep, Zenon 
<1>4. ASSUME NEW s \in Nat, lo <= s, s <= k
      PROVE  Accounted(n, p, s)'
  <2>1. /\ SendConn(n, p) \in Conn /\ b \in Batch
        /\ stream[h] \in Seq(Batch) /\ h \in Handler /\ stream \in [Handler -> Seq(Batch)]
    BY <1>0, SendEffect, Handlers, Indices, Zenon DEF TypeOK
  <2>2. stream' = [stream EXCEPT ![h] = Append(stream[h], b)]
    BY Zenon DEF Send, SendConn, SentBatch
  <2>3. stream'[h] = Append(stream[h], b)
    <3> HIDE DEF h, b
    <3> QED BY <2>1, <2>2, Zenon 
  <2>4. Len(stream'[h]) = Len(stream[h]) + 1 /\ Len(stream[h]) \in Nat
        /\ stream'[h][Len(stream[h]) + 1] = b
    <3> HIDE DEF h, b
    <3>1. stream[h] \in Seq(Batch) /\ b \in Batch
      BY <2>1, Zenon 
    <3>2. /\ Len(Append(stream[h], b)) = Len(stream[h]) + 1 /\ Len(stream[h]) \in Nat
          /\ Append(stream[h], b)[Len(stream[h]) + 1] = b
      BY <3>1, AppendFacts, ZenonT(40) 
    <3> QED BY <2>3, <3>2, Zenon 
  <2>5. b.base = base'[n] /\ b.lo = lo /\ b.hi = k
    BY Zenon DEF SentBatch, Send
  <2>6. Len(stream[h]) + 1 \in 1..Len(stream'[h])
        /\ stream'[h][Len(stream[h]) + 1].base = base'[n]
        /\ s \in stream'[h][Len(stream[h]) + 1].lo..stream'[h][Len(stream[h]) + 1].hi
    <3> HIDE DEF h, b, lo
    <3>1. Len(stream[h]) + 1 \in 1..Len(stream'[h])
          /\ s \in b.lo..b.hi
      BY <1>1, <1>4, <2>4, <2>5, SMTT(60) 
    <3> QED BY <2>4, <2>5, <3>1, Zenon 
  <2>7. \E c \in Conn : \E j \in 1..Len(stream'[<<n, p, c>>]) :
          /\ stream'[<<n, p, c>>][j].base = base'[n]
          /\ s \in stream'[<<n, p, c>>][j].lo..stream'[<<n, p, c>>][j].hi
    BY <2>1, <2>6, Zenon 
  <2> QED BY <2>7, Zenon DEF Accounted, InFlight, OnConn, Holds
<1>5. ASSUME NEW s \in 1..k PROVE Accounted(n, p, s)'
  <2> HIDE DEF lo
  <2>1. s \in Nat /\ (s \in 1..(lo - 1) \/ (lo <= s /\ s <= k))
    BY <1>1, SMTT(60) 
  <2> QED BY <1>3, <1>4, <2>1, Zenon 
<1> QED BY <1>5, Zenon DEF Covered

LEMMA NoGapStep ==
  ASSUME ReplicationInv, [Next]_vars
  PROVE  NoGap'
<1> SUFFICES ASSUME NEW n \in Node, NEW p \in Node, NEW k, k = cursor'[<<n, p>>]
             PROVE  Covered(n, p, k)'
  BY Zenon DEF NoGap, Covered
<1>0. TypeOK
  BY Zenon DEF ReplicationInv
<1>1. SUFFICES k \in Int /\ Covered(n, p, k)
  BY <1>0, <1>1, CoveredStep, Zenon 
<1>2. CASE k = cursor[<<n, p>>]
  BY <1>0, <1>2, Links, SMTT(60) DEF ReplicationInv, NoGap, Absent
<1>3. CASE k = LastSeq(n, p)
  BY <1>0, <1>3, Resume, ResumeCovered, SMTT(60) 
<1>4. ASSUME NEW i \in Inc, pc[<<n, p, i>>] = "store",
             k = job[<<n, p, i>>].last + (job[<<n, p, i>>].hi - job[<<n, p, i>>].lo + 1)
      PROVE  k \in Int /\ Covered(n, p, k)
  <2> DEFINE j == job[<<n, p, i>>]
  <2>1. /\ Covered(n, p, j.hi) /\ j.last + 1 <= j.lo
        /\ j.last \in Nat /\ j.lo \in Nat /\ j.hi \in Nat
    BY <1>0, <1>4, Jobs, Zenon DEF ReplicationInv, JobsCovered, Job
  <2>2. k \in Int /\ k <= j.hi
    BY <1>4, <2>1, SMTT(60) 
  <2> QED BY <2>1, <2>2, CoveredLess, SMTT(60) 
<1>5. ASSUME NEW c \in Conn, 1 \in 1..Len(stream[<<p, n, c>>]),
             k = stream[<<p, n, c>>][1].hs
      PROVE  k \in Int /\ Covered(n, p, k)
  <2>1. Covered(n, p, k)
    BY <1>5, Zenon DEF ReplicationInv, RecordsCovered
  <2>2. stream[<<p, n, c>>][1] \in Batch
    BY <1>0, <1>5, Handlers, SMTT(60) 
  <2> QED BY <1>5, <2>1, <2>2, SMTT(60) DEF Batch, Absent
<1> QED BY <1>0, <1>2, <1>3, <1>4, <1>5, CursorStep, Zenon 

LEMMA RecordsStep ==
  ASSUME ReplicationInv, [Next]_vars
  PROVE  RecordsCovered'
<1>0. TypeOK
  BY Zenon DEF ReplicationInv
<1>1. ASSUME NEW n \in Node, NEW p \in Node, NEW k, k = seen'[<<p, n>>]
      PROVE  Covered(n, p, k)'
  <2>1. CASE k = seen[<<p, n>>]
    <3>1. seen[<<p, n>>] \in Nat
      BY <1>0, Links, Zenon
    <3>2. k \in Int
      BY <2>1, <3>1
    <3>3. Covered(n, p, k)
      BY <2>1, Zenon DEF ReplicationInv, RecordsCovered
    <3> QED BY <1>0, <3>2, <3>3, CoveredStep, Zenon
  <2>2. ASSUME NEW c \in Conn, rx[<<n, p, c>>].hi \in Nat,
               k <= rx[<<n, p, c>>].hi, k \in Nat
        PROVE  Covered(n, p, k)'
    <3>1. Covered(n, p, rx[<<n, p, c>>].hi)
      BY Zenon DEF ReplicationInv, BatchesCovered
    <3>2. k \in Int /\ rx[<<n, p, c>>].hi \in Int
      BY <2>2
    <3>3. Covered(n, p, k)
      BY <2>2, <3>1, <3>2, CoveredLess, Zenon
    <3> QED BY <1>0, <3>2, <3>3, CoveredStep, Zenon
  <2> QED BY <1>0, <1>1, <2>1, <2>2, SeenStep, Zenon 
<1>2. ASSUME NEW n \in Node, NEW p \in Node, NEW c \in Conn,
             NEW j \in 1..Len(stream'[<<p, n, c>>]), NEW k,
             k = stream'[<<p, n, c>>][j].hs
      PROVE  Covered(n, p, k)'
  <2>1. SUFFICES k \in Int /\ Covered(n, p, k)
    BY <1>0, <2>1, CoveredStep, Zenon 
  <2>2. ASSUME NEW l \in 1..Len(stream[<<p, n, c>>]),
               stream'[<<p, n, c>>][j] = stream[<<p, n, c>>][l]
        PROVE  k \in Int /\ Covered(n, p, k)
    <3>1. Covered(n, p, k)
      BY <1>2, <2>2, Zenon DEF ReplicationInv, RecordsCovered
    <3>2. stream[<<p, n, c>>][l] \in Batch
      BY <1>0, Handlers, SMTT(60) 
    <3> QED BY <1>2, <2>2, <3>1, <3>2, SMTT(60) DEF Batch, Absent
  <2>3. ASSUME NEW i \in Inc, Send(p, n, i),
               stream'[<<p, n, c>>][j] = SentBatch(p, n, i)
        PROVE  k \in Int /\ Covered(n, p, k)
    <3>1. k \in {job[<<p, n, i>>].hs, Absent}
      BY <1>2, <2>3, SMTT(60) DEF SentBatch
    <3>2. job[<<p, n, i>>].hs \in Nat
      BY <1>0, Jobs, Zenon DEF Job
    <3>3. Covered(n, p, job[<<p, n, i>>].hs)
      BY <2>3, Zenon DEF ReplicationInv, JobsCovered, Send
    <3>4. Covered(n, p, Absent)
      BY SMTT(60) DEF Covered, Absent
    <3> QED BY <3>1, <3>2, <3>3, <3>4, SMTT(60) DEF Absent
  <2> QED BY <1>0, <2>2, <2>3, StreamStep, Zenon 
<1>3. RecordsCovered' <=>
        \A n, p \in Node :
          /\ \A s \in 1..seen'[<<p, n>>] : Accounted(n, p, s)'
          /\ \A c \in Conn : \A j \in 1..Len(stream'[<<p, n, c>>]) :
               \A s \in 1..stream'[<<p, n, c>>][j].hs : Accounted(n, p, s)'
  BY Zenon DEF RecordsCovered, Covered
<1>4. ASSUME NEW n \in Node, NEW p \in Node
      PROVE  \A s \in 1..seen'[<<p, n>>] : Accounted(n, p, s)'
  BY <1>1, Zenon DEF Covered
<1>5. ASSUME NEW n \in Node, NEW p \in Node, NEW c \in Conn,
             NEW j \in 1..Len(stream'[<<p, n, c>>])
      PROVE  \A s \in 1..stream'[<<p, n, c>>][j].hs : Accounted(n, p, s)'
  BY <1>2, Zenon DEF Covered
<1> QED BY <1>3, <1>4, <1>5, Zenon 

LEMMA BatchesStep ==
  ASSUME ReplicationInv, [Next]_vars
  PROVE  BatchesCovered'
<1>0. TypeOK
  BY Zenon DEF ReplicationInv
<1>1. ASSUME NEW n \in Node, NEW p \in Node, NEW c \in Conn, NEW k,
             k = rx'[<<n, p, c>>].hi
      PROVE  Covered(n, p, k)'
  <2>1. SUFFICES k \in Int /\ Covered(n, p, k)
    BY <1>0, <2>1, CoveredStep, Zenon 
  <2>2. CASE k = rx[<<n, p, c>>].hi
    <3>1. rx[<<n, p, c>>].hi \in Nat
      BY <1>0, Handlers, SMTT(60) DEF Rest, Idle
    <3> QED BY <2>2, <3>1, SMTT(60) DEF ReplicationInv, BatchesCovered
  <2>3. CASE rx'[<<n, p, c>>] = Idle
    <3>1. k = 0
      BY <1>1, <2>3, SMTT(60) DEF Idle
    <3> QED BY <3>1, SMTT(60) DEF Covered
  <2>4. CASE 1 \in 1..Len(stream[<<n, p, c>>]) /\ k = stream[<<n, p, c>>][1].hi
    <3>1. stream[<<n, p, c>>][1] \in Batch
      BY <1>0, <2>4, Handlers, SMTT(60) 
    <3>2. k \in Int
      BY <2>4, <3>1, SMTT(60) DEF Batch
    <3> QED BY <2>4, <3>2, Zenon DEF ReplicationInv, BatchesCovered
  <2> QED BY <1>0, <1>1, <2>2, <2>3, <2>4, RxStep, Zenon 
<1>2. ASSUME NEW n \in Node, NEW p \in Node, NEW c \in Conn,
             NEW j \in 1..Len(stream'[<<n, p, c>>]), NEW k,
             k = stream'[<<n, p, c>>][j].hi
      PROVE  Covered(n, p, k)'
  <2>1. ASSUME NEW l \in 1..Len(stream[<<n, p, c>>]),
               stream'[<<n, p, c>>][j] = stream[<<n, p, c>>][l]
        PROVE  Covered(n, p, k)'
    <3>1. Covered(n, p, k)
      BY <1>2, <2>1, Zenon DEF ReplicationInv, BatchesCovered
    <3>2. stream[<<n, p, c>>][l] \in Batch
      BY <1>0, Handlers, SMTT(60) 
    <3>3. k \in Int
      BY <1>2, <2>1, <3>2, SMTT(60) DEF Batch
    <3> QED BY <1>0, <3>1, <3>3, CoveredStep, Zenon 
  <2>2. ASSUME NEW i \in Inc, Send(n, p, i), stream'[<<n, p, c>>][j] = SentBatch(n, p, i)
        PROVE  Covered(n, p, k)'
    <3>1. k = job[<<n, p, i>>].hi
      BY <1>2, <2>2, SMTT(60) DEF SentBatch
    <3> QED BY <2>2, <3>1, SentCovered, Zenon 
  <2> QED BY <1>0, <2>1, <2>2, StreamStep, Zenon 
<1>3. BatchesCovered' <=>
        \A n, p \in Node, c \in Conn :
          /\ \A s \in 1..rx'[<<n, p, c>>].hi : Accounted(n, p, s)'
          /\ \A j \in 1..Len(stream'[<<n, p, c>>]) :
               \A s \in 1..stream'[<<n, p, c>>][j].hi : Accounted(n, p, s)'
  BY Zenon DEF BatchesCovered, Covered
<1>4. ASSUME NEW n \in Node, NEW p \in Node, NEW c \in Conn
      PROVE  \A s \in 1..rx'[<<n, p, c>>].hi : Accounted(n, p, s)'
  BY <1>1, Zenon DEF Covered
<1>5. ASSUME NEW n \in Node, NEW p \in Node, NEW c \in Conn,
             NEW j \in 1..Len(stream'[<<n, p, c>>])
      PROVE  \A s \in 1..stream'[<<n, p, c>>][j].hi : Accounted(n, p, s)'
  BY <1>2, Zenon DEF Covered
<1> QED BY <1>3, <1>4, <1>5, Zenon 

LEMMA JobsStep ==
  ASSUME ReplicationInv, [Next]_vars
  PROVE  JobsCovered'
<1>0. TypeOK /\ TypeOK'
  BY TypeStep, Zenon DEF ReplicationInv
<1> DEFINE Sound(n, p, i, j) ==
      /\ pc'[<<n, p, i>>] = "read" => \A s \in 1..j.last : Accounted(n, p, s)'
      /\ pc'[<<n, p, i>>] \in {"ask", "send"} =>
           \A s \in 1..(j.lo - 1) : Accounted(n, p, s)'
      /\ pc'[<<n, p, i>>] = "send"  => \A s \in 1..j.hs : Accounted(p, n, s)'
      /\ pc'[<<n, p, i>>] = "store" => \A s \in 1..j.hi : Accounted(n, p, s)'
      /\ pc'[<<n, p, i>>] \in {"ask", "send", "store"} => j.last + 1 <= j.lo
<1>e. ASSUME \A n, p \in Node, i \in Inc : Sound(n, p, i, job'[<<n, p, i>>])
      PROVE  JobsCovered'
  BY <1>e, Zenon DEF JobsCovered, Covered
<1> SUFFICES ASSUME NEW n \in Node, NEW p \in Node, NEW i \in Inc
             PROVE  Sound(n, p, i, job'[<<n, p, i>>])
  BY <1>e, Zenon 
<1> SUFFICES ASSUME pc'[<<n, p, i>>] \in {"read", "ask", "send", "store"},
                    NEW j, j = job'[<<n, p, i>>]
             PROVE  Sound(n, p, i, j)
  BY Zenon 
<1> DEFINE was == job[<<n, p, i>>]
<1>a. ASSUME NEW a \in Node, NEW b \in Node, NEW k \in Int, Covered(a, b, k)
      PROVE  \A s \in 1..k : Accounted(a, b, s)'
  BY <1>0, <1>a, CoveredStep, Zenon DEF Covered
<1>b. was \in Job
  BY <1>0, Jobs, Zenon 
<1>c. /\ was.last \in Nat /\ was.lo - 1 \in Int /\ was.hi \in Int /\ was.hs \in Int
      /\ was.lo \in Nat
  BY <1>b, SMTT(60) DEF Job
<1>d. /\ pc[<<n, p, i>>] = "read" => Covered(n, p, was.last)
      /\ pc[<<n, p, i>>] \in {"ask", "send"} => Covered(n, p, was.lo - 1)
      /\ pc[<<n, p, i>>] = "send" => Covered(p, n, was.hs)
      /\ pc[<<n, p, i>>] = "store" => Covered(n, p, was.hi)
      /\ pc[<<n, p, i>>] \in {"ask", "send", "store"} => was.last + 1 <= was.lo
  BY Zenon DEF ReplicationInv, JobsCovered
<1>1. CASE pc'[<<n, p, i>>] = pc[<<n, p, i>>] /\ j = was
  <2>1. was.last \in Int
    BY <1>c, SMTT(60) 
  <2> HIDE DEF was
  <2> QED BY <1>1, <1>a, <1>c, <1>d, <2>1, Zenon 
<1>2. CASE pc'[<<n, p, i>>] = "read" /\ j.last = LastSeq(n, p)
  <2>1. LastSeq(n, p) \in Int
    BY <1>0, Resume, SMTT(60) 
  <2>2. \A s \in 1..j.last : Accounted(n, p, s)'
    BY <1>2, <1>a, <2>1, ResumeCovered, Zenon 
  <2> QED BY <1>2, <2>2, Zenon 
<1>3. CASE /\ pc'[<<n, p, i>>] = "ask" /\ pc[<<n, p, i>>] = "read"
           /\ j.last = was.last /\ j.lo = First(n, was.last)
  <2> HIDE DEF was
  <2>1. Earliest(n) \in Nat
    BY <1>0, Logs, Zenon 
  <2>2. ASSUME NEW s \in 1..(j.lo - 1) PROVE Accounted(n, p, s)'
    <3>1. s \in Nat /\ (s \in 1..was.last \/ s < Earliest(n))
      BY <1>3, <1>c, <2>1, SMTT(60) DEF First
    <3>2. Accounted(n, p, s)
      BY <1>3, <1>d, <3>1, Zenon DEF Covered, Accounted, Overwritten
    <3> QED BY <1>0, <3>1, <3>2, AccountedStep, Zenon 
  <2>3. j.last + 1 <= j.lo
    BY <1>3, <1>c, <2>1, SMTT(60) DEF First
  <2> QED BY <1>3, <2>2, <2>3, Zenon 
<1>4. CASE /\ pc'[<<n, p, i>>] = "send" /\ pc[<<n, p, i>>] = "ask"
           /\ j = [was EXCEPT !.hs = seen[<<n, p>>]]
  <2> HIDE DEF was
  <2>1. j.lo = was.lo /\ j.last = was.last /\ j.hs = seen[<<n, p>>]
    BY <1>4, <1>b, SMTT(60) DEF Job
  <2>2. \A s \in 1..(j.lo - 1) : Accounted(n, p, s)'
    BY <1>4, <1>a, <1>c, <1>d, <2>1, Zenon 
  <2>3. j.last + 1 <= j.lo
    BY <1>4, <1>d, <2>1, Zenon 
  <2>4. \A s \in 1..j.hs : Accounted(p, n, s)'
    <3>1. j.hs \in Int
      BY <1>0, <2>1, Links, SMTT(60) 
    <3>2. Covered(p, n, j.hs)
      BY <2>1, Zenon DEF ReplicationInv, RecordsCovered
    <3> QED BY <1>a, <3>1, <3>2, Zenon 
  <2> QED BY <1>4, <2>2, <2>3, <2>4, Zenon 
<1>5. CASE /\ Send(n, p, i) /\ pc'[<<n, p, i>>] = "store" /\ pc[<<n, p, i>>] = "send"
           /\ j = was
  <2>1. \A s \in 1..j.hi : Accounted(n, p, s)'
    BY <1>5, SentCovered, Zenon DEF Covered
  <2>2. j.last + 1 <= j.lo
    BY <1>5, <1>d, Zenon 
  <2> QED BY <1>5, <2>1, <2>2, Zenon 
<1> QED BY <1>0, <1>1, <1>2, <1>3, <1>4, <1>5, JobStep, Zenon 

(* What neither a send nor a receive on a connection leaves as it is.      *)
LEMMA UntouchedConn ==
  ASSUME TypeOK, [Next]_vars, NEW n \in Node, NEW p \in Node, NEW c \in Conn,
         \A i \in Inc : ~Send(n, p, i), ~Receive(n, p, c)
  PROVE  /\ stream'[<<n, p, c>>] = stream[<<n, p, c>>]
         /\ dialled'[<<n, p>>] = dialled[<<n, p>>]
         /\ rx[<<n, p, c>>] = Idle => rx'[<<n, p, c>>] = Idle
<1> DEFINE h == <<n, p, c>>
           l == <<n, p>>
           Untouched == /\ stream'[h] = stream[h] /\ dialled'[l] = dialled[l]
                        /\ rx[h] = Idle => rx'[h] = Idle
<1>0. /\ h \in Handler /\ l \in Link /\ stream \in [Handler -> Seq(Batch)]
      /\ rx \in [Handler -> Rest] /\ dialled \in [Link -> 0..MaxConns]
  BY Indices, Zenon DEF TypeOK
<1>1. ASSUME NEW m \in Node, NEW q \in Node, NEW i \in Inc, Send(m, q, i)
      PROVE  Untouched
  <2> DEFINE g == <<m, q, SendConn(m, q)>>
             k == <<m, q>>
             d == IF conn[k] = 0 THEN SendConn(m, q) ELSE dialled[k]
             a == Append(stream[g], SentBatch(m, q, i))
  <2>1. g # h /\ k # l
    BY <1>1, Zenon 
  <2>2. stream' = [stream EXCEPT ![g] = a]
    BY <1>1, Zenon DEF Send, SendConn, SentBatch
  <2>3. dialled' = [dialled EXCEPT ![k] = d]
    BY <1>1, Zenon DEF Send, SendConn
  <2>4. rx' = rx
    BY <1>1, Zenon DEF Send, receiver
  <2> HIDE DEF g, h, k, l, d, a
  <2> QED BY <1>0, <2>1, <2>2, <2>3, <2>4, Zenon 
<1>2. ASSUME NEW m \in Node, NEW q \in Node, NEW d \in Conn, Receive(m, q, d)
      PROVE  Untouched
  <2> DEFINE g == <<m, q, d>>
             r == [base |-> Head(stream[g]).base,
                   lo |-> Head(stream[g]).lo, hi |-> Head(stream[g]).hi]
  <2>1. g # h
    BY <1>2, Zenon 
  <2>2. /\ stream' = [stream EXCEPT ![g] = Tail(stream[g])]
        /\ rx' = [rx EXCEPT ![g] = r] /\ dialled' = dialled
    BY <1>2, Zenon DEF Receive
  <2> HIDE DEF g, h, r, l
  <2> QED BY <1>0, <2>1, <2>2, Zenon 
<1>3. ASSUME NEW m \in Node, NEW q \in Node, NEW d \in Conn,
             ApplyEntry(m, q, d) \/ RejectEntry(m, q, d)
      PROVE  Untouched
  <2> DEFINE g == <<m, q, d>>
  <2>1. /\ stream' = stream /\ dialled' = dialled
        /\ rx[g] # Idle /\ rx' = Advanced(m, q, d)
    BY <1>3, Zenon DEF ApplyEntry, RejectEntry, network
  <2>2. \A x \in Handler : x # g => Advanced(m, q, d)[x] = rx[x]
    BY <2>1, AdvancedEffect, ZenonT(40) 
  <2> HIDE DEF g, h, l
  <2> QED BY <1>0, <2>1, <2>2, Zenon 
<1>4. ASSUME NEW m \in Node, NEW op \in Ops, LogAppend(m, op)
      PROVE  Untouched
  BY <1>4, Zenon DEF LogAppend, network, receiver
<1>5. ASSUME UNCHANGED vars PROVE Untouched
  BY <1>5, Zenon DEF vars, network, receiver
<1>6. ASSUME NEW m \in Node, NEW q \in Node, NotifyJoin(m, q) \/ CloseIdle(m, q)
      PROVE  Untouched
  BY <1>6, Zenon DEF NotifyJoin, CloseIdle, network, receiver
<1>7. ASSUME NEW m \in Node, NEW q \in Node, NEW i \in Inc,
             \/ Check(m, q, i) \/ Load(m, q, i) \/ Read(m, q, i) \/ Ask(m, q, i)
             \/ StoreCursor(m, q, i) \/ SendFail(m, q, i)
      PROVE  Untouched
  BY <1>7, Zenon DEF Check, CheckStop, CheckData, CheckWait, Load, Read, Ask,
              StoreCursor, SendFail,
              network, receiver
<1>8. Untouched
  <2> HIDE DEF Untouched, h, l
  <2> QED BY <1>1, <1>2, <1>3, <1>4, <1>5, <1>6, <1>7, Zenon DEF Next, Replicate
<1> QED BY <1>8, Zenon 

(* A connection in use is one that was dialled.                            *)
LEMMA DialledStep ==
  ASSUME TypeOK, [Next]_vars, NEW n \in Node, NEW p \in Node,
         conn[<<n, p>>] <= dialled[<<n, p>>]
  PROVE  conn'[<<n, p>>] <= dialled'[<<n, p>>]
<1> DEFINE l == <<n, p>>
           Ok == conn'[l] <= dialled'[l]
<1>0. /\ l \in Link /\ conn \in [Link -> 0..MaxConns] /\ dialled \in [Link -> 0..MaxConns]
      /\ conn[l] \in Nat /\ dialled[l] \in Nat /\ conn[l] <= dialled[l]
  <2>1. conn[l] \in 0..MaxConns /\ dialled[l] \in 0..MaxConns /\ MaxConns \in Nat
    BY Links, ReplicationAssumption, Zenon 
  <2>2. l \in Link
    BY Indices, Zenon 
  <2> QED BY <2>1, <2>2, SMTT(60) DEF TypeOK
<1>1. ASSUME NEW m \in Node, NEW q \in Node, NEW i \in Inc, Send(m, q, i)
      PROVE  Ok
  <2> DEFINE k == <<m, q>>
             a == SendConn(m, q)
             d == IF conn[k] = 0 THEN a ELSE dialled[k]
  <2>1. conn' = [conn EXCEPT ![k] = a] /\ dialled' = [dialled EXCEPT ![k] = d]
    BY <1>1, Zenon DEF Send, SendConn
  <2>2. a \in Conn
    BY <1>1, SendEffect, Zenon 
  <2>3. a \in Nat
    BY <2>2, ReplicationAssumption, SMTT(60) DEF Conn
  <2>4. k = l => a <= d
    BY <1>0, <2>3, SMTT(60) DEF SendConn
  <2> HIDE DEF k, l, a, d
  <2> QED BY <1>0, <2>1, <2>4, Zenon 
<1>2. ASSUME NEW m \in Node, NEW q \in Node, conn' = [conn EXCEPT ![<<m, q>>] = 0],
             dialled' = dialled
      PROVE  Ok
  <2> HIDE DEF l
  <2> QED BY <1>0, <1>2, SMTT(60) 
<1>3. ASSUME NEW m \in Node, NEW q \in Node, NEW i \in Inc,
             SendFail(m, q, i) \/ CloseIdle(m, q)
      PROVE  Ok
  BY <1>2, <1>3, Zenon DEF SendFail, CloseIdle
<1>4. CASE conn' = conn /\ dialled' = dialled
  BY <1>0, <1>4, Zenon 
<1>5. ASSUME NEW m \in Node, NEW op \in Ops, LogAppend(m, op)
      PROVE  Ok
  BY <1>4, <1>5, Zenon DEF LogAppend, network
<1>6. ASSUME UNCHANGED vars PROVE Ok
  BY <1>4, <1>6, Zenon DEF vars, network
<1>7. ASSUME NEW m \in Node, NEW q \in Node, NEW i \in Inc,
             \/ NotifyJoin(m, q) \/ Check(m, q, i) \/ Load(m, q, i)
             \/ Read(m, q, i) \/ Ask(m, q, i) \/ StoreCursor(m, q, i)
      PROVE  Ok
  BY <1>4, <1>7, Zenon DEF NotifyJoin, Check, CheckStop, CheckData, CheckWait, Load,
                    Read, Ask, StoreCursor, network
<1>8. ASSUME NEW m \in Node, NEW q \in Node, NEW d \in Conn,
             Receive(m, q, d) \/ ApplyEntry(m, q, d) \/ RejectEntry(m, q, d)
      PROVE  Ok
  BY <1>4, <1>8, Zenon DEF Receive, ApplyEntry, RejectEntry, network
<1>9. 1 \in Inc
  BY ReplicationAssumption, SMTT(60) DEF Inc
<1>10. Ok
  <2> HIDE DEF Ok, l
  <2> QED BY <1>1, <1>3, <1>5, <1>6, <1>7, <1>8, <1>9, Zenon DEF Next, Replicate
<1> QED BY <1>10, Zenon 

LEMMA HandshakeStep ==
  ASSUME ReplicationInv, [Next]_vars
  PROVE  HandshakeFirst'
<1>0. TypeOK /\ TypeOK'
  BY TypeStep, Zenon DEF ReplicationInv
<1>1. ASSUME NEW n \in Node, NEW p \in Node
      PROVE  conn'[<<n, p>>] <= dialled'[<<n, p>>]
  BY <1>0, DialledStep, Zenon DEF ReplicationInv, HandshakeFirst
<1>2. ASSUME NEW n \in Node, NEW p \in Node, cursor'[<<n, p>>] = Absent
      PROVE  seen'[<<n, p>>] = 0 /\ \A c \in Conn : FreshConn(p, n, c)'
  <2>1. cursor[<<n, p>>] = Absent
    <3>1. LastSeq(n, p) # Absent
      BY <1>0, Resume, SMTT(60) DEF Absent
    <3>2. ASSUME NEW i \in Inc
          PROVE  job[<<n, p, i>>].last
                   + (job[<<n, p, i>>].hi - job[<<n, p, i>>].lo + 1) # Absent
      <4>1. job[<<n, p, i>>] \in Job
        BY <1>0, Jobs, Zenon 
      <4> QED BY <4>1, SMTT(60) DEF Job, Absent
    <3> QED BY <1>0, <1>2, <3>1, <3>2, CursorStep, Zenon 
  <2>2. seen[<<n, p>>] = 0 /\ \A c \in Conn : FreshConn(p, n, c)
    BY <2>1, Zenon DEF ReplicationInv, HandshakeFirst
  <2>3. seen'[<<n, p>>] = 0
    <3>1. \A c \in Conn : rx[<<p, n, c>>] = Idle
      BY <2>2, Zenon DEF FreshConn
    <3> QED BY <1>0, <2>2, <3>1, SeenStep, Zenon 
  <2>4. ASSUME NEW c \in Conn PROVE ~Receive(p, n, c)
    <3> SUFFICES ASSUME Receive(p, n, c) PROVE FALSE
      OBVIOUS
    <3> DEFINE b == Head(stream[<<p, n, c>>])
    <3>1. c \in Nat /\ dialled[<<p, n>>] \in Nat
      BY <1>0, Links, ReplicationAssumption, SMTT(60) DEF Conn
    <3>2. stream[<<p, n, c>>][1].hs # Absent
      <4>1. stream[<<p, n, c>>] # << >>
        BY Zenon DEF Receive
      <4>2. c > dialled[<<p, n>>] \/ c <= dialled[<<p, n>>]
        BY <3>1, SMTT(60) 
      <4>3. FreshConn(p, n, c)
        BY <2>2, Zenon 
      <4> QED BY <4>1, <4>2, <4>3, Zenon DEF FreshConn
    <3>3. b = stream[<<p, n, c>>][1] /\ b \in Batch
      BY <1>0, ReceiveEffect, Zenon 
    <3>4. cursor' = [cursor EXCEPT ![<<n, p>>] = b.hs]
      BY <3>2, <3>3, Zenon DEF Receive
    <3>5. <<n, p>> \in Link /\ cursor \in [Link -> Nat \cup {Absent}]
      BY <1>0, Indices, Zenon DEF TypeOK
    <3>6. cursor'[<<n, p>>] = b.hs
      <4> DEFINE l == <<n, p>>
      <4> HIDE DEF b, l
      <4>1. cursor'[l] = b.hs
        BY <3>4, <3>5, Zenon DEF l
      <4> QED BY <4>1, Zenon DEF l
    <3> QED BY <1>2, <3>2, <3>3, <3>6, Zenon 
  <2>5. ASSUME NEW c \in Conn PROVE FreshConn(p, n, c)'
    <3> DEFINE h == <<p, n, c>>
               l == <<p, n>>
    <3>0. FreshConn(p, n, c)
      BY <2>2, Zenon 
    <3>1. CASE \A i \in Inc : ~Send(p, n, i)
      <4>1. /\ stream'[h] = stream[h] /\ dialled'[l] = dialled[l]
            /\ rx[h] = Idle => rx'[h] = Idle
        BY <1>0, <2>4, <3>1, UntouchedConn, Zenon 
      <4> QED BY <3>0, <4>1, Zenon DEF FreshConn
    <3>2. ASSUME NEW i \in Inc, Send(p, n, i)
          PROVE  FreshConn(p, n, c)'
      <4> DEFINE d == SendConn(p, n)
                 g == <<p, n, d>>
                 b == SentBatch(p, n, i)
      <4>1. /\ d \in Conn /\ b \in Batch /\ g \in Handler /\ h \in Handler /\ l \in Link
            /\ stream[g] \in Seq(Batch)
        BY <1>0, <3>2, SendEffect, Indices, Handlers, Zenon 
      <4>2. /\ stream' = [stream EXCEPT ![g] = Append(stream[g], b)]
            /\ dialled' = [dialled EXCEPT ![l] = IF conn[l] = 0 THEN d ELSE dialled[l]]
            /\ rx' = rx
        BY <3>2, Zenon DEF Send, SendConn, SentBatch, receiver
      <4>3. dialled'[l] = IF conn[l] = 0 THEN d ELSE dialled[l]
        <5> HIDE DEF l, d
        <5> QED BY <1>0, <4>1, <4>2, Zenon DEF TypeOK
      <4>4. /\ conn[l] \in Nat /\ dialled[l] \in Nat /\ d \in Nat /\ c \in Nat
            /\ conn[l] <= dialled[l]
        <5>1. \A e \in Conn : e \in Nat
          BY SMTT(60) DEF Conn
        <5>2. conn[l] \in Nat /\ dialled[l] \in Nat
          BY <1>0, Links, ReplicationAssumption, SMTT(60) 
        <5>3. conn[l] <= dialled[l]
          BY Zenon DEF ReplicationInv, HandshakeFirst
        <5> QED BY <4>1, <5>1, <5>2, <5>3, Zenon 
      <4>5. CASE c # d
        <5>1. stream'[h] = stream[h]
          <6>1. g # h
            BY <4>5, Zenon 
          <6> HIDE DEF g, h, b
          <6> QED BY <1>0, <4>1, <4>2, <6>1, Zenon DEF TypeOK
        <5>2. c > dialled'[l] => c > dialled[l]
          BY <4>3, <4>4, SMTT(60) DEF SendConn
        <5>3. c <= dialled'[l] => c <= dialled[l]
          BY <4>3, <4>4, <4>5, SMTT(60) DEF SendConn
        <5> QED BY <3>0, <4>2, <5>1, <5>2, <5>3, Zenon DEF FreshConn
      <4>6. CASE c = d
        <5>1. stream'[h] = Append(stream[h], b)
          <6>1. g = h
            BY <4>6, Zenon 
          <6> HIDE DEF g, h, b
          <6> QED BY <1>0, <4>1, <4>2, <6>1, Zenon DEF TypeOK
        <5>2. c <= dialled'[l] /\ ~(c > dialled'[l])
          <6>1. conn[l] # 0 => d = conn[l]
            BY Zenon DEF SendConn
          <6> HIDE DEF d, l
          <6>2. CASE conn[l] = 0
            BY <4>3, <4>4, <4>6, <6>2, SMTT(60) 
          <6>3. CASE conn[l] # 0
            BY <4>3, <4>4, <4>6, <6>1, <6>3, SMTT(60) 
          <6> QED BY <6>2, <6>3, Zenon 
        <5>3. /\ Len(stream'[h]) = Len(stream[h]) + 1 /\ Len(stream[h]) \in Nat
              /\ \A j \in 1..Len(stream[h]) : stream'[h][j] = stream[h][j]
              /\ stream'[h][Len(stream[h]) + 1] = b
              /\ stream'[h] # << >>
          <6>1. stream[h] \in Seq(Batch)
            BY <4>1, <4>6, Zenon 
          <6> HIDE DEF h, b
          <6>2. /\ Len(stream'[h]) = Len(stream[h]) + 1 /\ Len(stream[h]) \in Nat
                /\ \A j \in 1..Len(stream[h]) : stream'[h][j] = stream[h][j]
                /\ stream'[h][Len(stream[h]) + 1] = b
            BY <4>1, <5>1, <6>1, AppendFacts, SMTT(60) 
          <6>3. Len(stream'[h]) # 0
            BY <6>2, SMTT(60) 
          <6>4. stream'[h] # << >>
            BY <6>3, SMTT(60) 
          <6> QED BY <6>2, <6>4, Zenon 
        <5>4. stream'[h][1].hs # Absent
          <6>1. CASE conn[l] = 0
            <7>1. c > dialled[l]
              BY <4>4, <4>6, <6>1, SMTT(60) DEF SendConn
            <7>2. stream[h] = << >>
              BY <3>0, <7>1, Zenon DEF FreshConn
            <7>3. stream'[h][1] = b
              <8>1. Len(stream[h]) + 1 = 1
                BY <7>2, SMTT(60) 
              <8> QED BY <5>3, <8>1, Zenon 
            <7>4. b.hs = job[<<p, n, i>>].hs
              BY <6>1, Zenon DEF SentBatch
            <7>5. job[<<p, n, i>>].hs \in Nat
              BY <1>0, Jobs, Zenon DEF Job
            <7> QED BY <7>3, <7>4, <7>5, SMTT(60) DEF Absent
          <6>2. CASE conn[l] # 0
            <7>1. c <= dialled[l]
              BY <4>4, <4>6, <6>2, Zenon DEF SendConn
            <7>2. stream[h] # << >> /\ stream[h][1].hs # Absent
              BY <3>0, <7>1, Zenon DEF FreshConn
            <7>3. 1 \in 1..Len(stream[h])
              <8>1. stream[h] \in Seq(Batch)
                BY <4>1, <4>6, Zenon 
              <8> HIDE DEF h
              <8> QED BY <7>2, <8>1, TailFacts, SMTT(60) 
            <7> QED BY <5>3, <7>2, <7>3, Zenon 
          <6> QED BY <6>1, <6>2, Zenon 
        <5> QED BY <3>0, <4>2, <5>2, <5>3, <5>4, Zenon DEF FreshConn
      <4> QED BY <4>5, <4>6, Zenon 
    <3> QED BY <3>1, <3>2, Zenon 
  <2> QED BY <2>3, <2>5, Zenon 
<1> QED BY <1>1, <1>2, Zenon DEF HandshakeFirst

(***************************************************************************)
(* The theorem                                                             *)
(***************************************************************************)

LEMMA InvStep == ReplicationInv /\ [Next]_vars => ReplicationInv'
<1> SUFFICES ASSUME ReplicationInv, [Next]_vars PROVE ReplicationInv'
  OBVIOUS
<1>1. TypeOK'
  BY TypeStep, Zenon DEF ReplicationInv
<1> QED BY <1>1, NoGapStep, RecordsStep, BatchesStep, JobsStep, HandshakeStep, Zenon
        DEF ReplicationInv

(* The cursor of a replicator, replicateToPeer's "last replicated Seq", is *)
(* never ahead of what was replicated: every entry up to it was handled by *)
(* the peer, is on its way, or was overwritten in the log before it could  *)
(* be sent.                                                                *)
THEOREM CursorLeavesNoGap == Spec => []NoGap
<1>1. ReplicationInv => NoGap
  BY Zenon DEF ReplicationInv
<1> QED BY InvInit, InvStep, <1>1, PTL DEF Spec
=============================================================================
