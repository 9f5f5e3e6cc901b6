----------------------------- MODULE SenderProofs ----------------------------
(***************************************************************************)
(* Proofs about Sender for every number of replicators, entries and        *)
(* faults.  The inductive invariant is TypeOK /\ WakeInv /\ ConnInv /\     *)
(* NoConnLeak /\ GreetInv.                                                 *)
(***************************************************************************)
EXTENDS Sender, TLAPS

(* A replicator that is about to wait has seen the log as it is as well:   *)
(* it has the mutex.                                                       *)
WakeInv == \A i \in Inc : pc[i] \in {"add", "wait"} => tested[i] = head

(* A replicator in SendBatch has a connection; one that it writes to is    *)
(* the one in conns or is closed, a failed one is closed, and one that was *)
(* dialled and is not registered yet is known to its replicator only.      *)
ConnOf(i) ==
  /\ pc[i] \in Sending => held[i] # 0
  /\ pc[i] \in {"handshake", "mark", "write"} /\ held[i] \in open => held[i] = conns
  /\ pc[i] = "forget" => held[i] \notin open
  /\ pc[i] = "register" =>
       held[i] # conns /\ \A j \in Inc \ {i} : held[j] # held[i]

ConnInv == \A i \in Inc : ConnOf(i)

(* The flag is set before a batch is written, and from then on the         *)
(* replicator that set it has written its handshake, is about to, or has   *)
(* closed the connection.                                                  *)
GreetInv ==
  /\ \A i \in Inc : pc[i] = "write" => held[i] \in handshakeDone
  /\ open \cap wrote \subseteq handshakeDone
  /\ \A c \in open \cap handshakeDone :
       c \in greeted \/ \E i \in Inc : i \in greets /\ held[i] = c /\ pc[i] = "write"

-----------------------------------------------------------------------------
(***************************************************************************)
(* What a step does to the connections                                     *)
(***************************************************************************)

(* Nothing, and no replicator enters or leaves SendBatch.                  *)
Quiet ==
  /\ UNCHANGED <<held, greets, conns, open, handshakeDone, wrote, greeted>>
  /\ \A i \in Inc : pc'[i] # pc[i] => pc[i] \notin Sending /\ pc'[i] \notin Sending

(* The one in conns is closed.                                             *)
Dropped == DropConn /\ UNCHANGED <<pc, held, greets, wrote, greeted>>

Talk(i) ==
  \/ Lookup(i) \/ Connect(i) \/ ConnectFail(i) \/ Register(i) \/ Handshake(i)
  \/ Mark(i) \/ Write(i) \/ WriteFail(i) \/ Forget(i)

LEMMA QuietReplicate ==
  ASSUME TypeOK, NEW i \in Inc,
         Lock(i) \/ Return(i) \/ HasData(i) \/ NoData(i) \/ Wait(i) \/ Load(i)
           \/ StoreCursor(i)
  PROVE  Quiet
<1>1. UNCHANGED <<held, greets, conns, open, handshakeDone, wrote, greeted>>
  BY Zenon DEF Lock, Return, HasData, NoData, Wait, Load, StoreCursor, batch, client,
              history
<1>2. \E from, to \in Control \ Sending : Goto(i, from, to)
  BY SMTT(60) DEF Lock, Return, HasData, NoData, Wait, Load, StoreCursor, Goto, Control,
                  Sending, Locking
<1> QED BY <1>1, <1>2, Zenon DEF Quiet, Goto, TypeOK

LEMMA Steps ==
  ASSUME TypeOK, [Next]_vars
  PROVE  Quiet \/ Dropped \/ \E i \in Inc : Talk(i)
<1>1. CASE LogAppend \/ WakeStopped \/ WakeAll
  <2>1. pc' = Woken
    BY <1>1, Zenon DEF LogAppend, WakeStopped, WakeAll
  <2>2. \A i \in Inc : pc'[i] # pc[i] => pc[i] = "wait" /\ pc'[i] = "lock"
    BY <2>1, Zenon DEF Woken
  <2>3. UNCHANGED <<held, greets, conns, open, handshakeDone, wrote, greeted>>
    BY <1>1, Zenon DEF LogAppend, WakeStopped, WakeAll, batch, client, history
  <2> QED BY <2>2, <2>3, SMTT(60) DEF Quiet, Sending
<1>2. CASE PeerHandshake \/ StopReplicator \/ ForgetPeer \/ Cancel \/ UNCHANGED vars
  BY <1>2, Zenon DEF PeerHandshake, StopReplicator, ForgetPeer, Cancel, vars, Quiet, loop,
                     batch, client, history
<1>3. CASE NotifyJoin
  <2>1. PICK i \in Inc : Goto(i, "none", "lock")
    BY <1>3, Zenon DEF NotifyJoin
  <2>2. \A j \in Inc : pc'[j] # pc[j] => pc[j] = "none" /\ pc'[j] = "lock"
    BY <2>1, Zenon DEF Goto, TypeOK
  <2>3. UNCHANGED <<held, greets, conns, open, handshakeDone, wrote, greeted>>
    BY <1>3, Zenon DEF NotifyJoin, batch, client, history
  <2> QED BY <2>2, <2>3, SMTT(60) DEF Quiet, Sending
<1>4. CASE CloseConn \/ CloseIdle \/ CloseClient
  BY <1>4, Zenon DEF CloseConn, CloseIdle, CloseClient, Dropped, loop, batch, history
<1>5. CASE \E i \in Inc : Replicate(i)
  BY <1>5, QuietReplicate, Zenon DEF Replicate, Talk
<1> QED BY <1>1, <1>2, <1>3, <1>4, <1>5, Zenon DEF Next, NotifyLeave, Close

-----------------------------------------------------------------------------
(***************************************************************************)
(* Connections                                                             *)
(***************************************************************************)
LEMMA Frame ==
  ASSUME TypeOK, NEW i \in Inc, NEW from, NEW to, Goto(i, from, to)
  PROVE  pc[i] = from /\ pc'[i] = to /\ \A j \in Inc \ {i} : pc'[j] = pc[j]
BY Zenon DEF Goto, TypeOK

LEMMA ConnQuiet ==
  ASSUME TypeOK, ConnInv, NoConnLeak, Quiet
  PROVE  ConnInv' /\ NoConnLeak'
<1>1. ASSUME NEW i \in Inc PROVE ConnOf(i)'
  <2>1. CASE pc'[i] = pc[i]
    BY <2>1, Zenon DEF ConnInv, ConnOf, Quiet
  <2>2. CASE pc'[i] # pc[i]
    <3>1. pc'[i] \notin Sending
      BY <2>2, Zenon DEF Quiet
    <3> QED BY <3>1, SMTT(60) DEF ConnOf, Sending
  <2> QED BY <2>1, <2>2, Zenon
<1>2. NoConnLeak'
  BY Zenon DEF NoConnLeak, Quiet
<1> QED BY <1>1, <1>2, Zenon DEF ConnInv

LEMMA ConnDropped ==
  ASSUME TypeOK, ConnInv, NoConnLeak, Dropped
  PROVE  ConnInv' /\ NoConnLeak'
<1>1. ASSUME NEW i \in Inc PROVE ConnOf(i)'
  BY SMTT(60) DEF ConnInv, ConnOf, Dropped, DropConn, Sending
<1>2. NoConnLeak'
  BY Zenon DEF NoConnLeak, Dropped, DropConn
<1> QED BY <1>1, <1>2, Zenon DEF ConnInv

LEMMA ConnTalk ==
  ASSUME TypeOK, ConnInv, NoConnLeak, NEW i \in Inc, Talk(i)
  PROVE  ConnInv' /\ NoConnLeak'
<1>1. CASE Lookup(i)
  <2>1. /\ pc[i] = "dial" /\ pc'[i] = (IF conns # 0 THEN "handshake" ELSE "connect")
        /\ \A j \in Inc \ {i} : pc'[j] = pc[j]
    BY <1>1, Frame, Zenon DEF Lookup
  <2>2. ASSUME NEW j \in Inc PROVE ConnOf(j)'
    BY <1>1, <2>1, SMTT(60) DEF ConnInv, ConnOf, Lookup, batch, client, Sending, TypeOK
  <2>3. NoConnLeak'
    BY <1>1, <2>1, SMTT(60) DEF ConnInv, ConnOf, NoConnLeak, Lookup, batch, client, Sending, TypeOK
  <2> QED BY <2>2, <2>3, Zenon DEF ConnInv
<1>2. CASE Connect(i)
  <2>1. /\ pc[i] = "connect" /\ pc'[i] = "register"
        /\ \A j \in Inc \ {i} : pc'[j] = pc[j]
    BY <1>2, Frame, Zenon DEF Connect
  <2>2. ASSUME NEW j \in Inc PROVE ConnOf(j)'
    <3>1. PICK c \in Conn :
            /\ Unused(c) /\ open' = open \cup {c} /\ held' = [held EXCEPT ![i] = c]
            /\ conns' = conns
      BY <1>2, Zenon DEF Connect
    <3>2. c # 0 /\ c \notin open /\ c # conns /\ \A k \in Inc : held[k] # c
      BY SenderAssumption, <3>1, SMTT(60) DEF Unused, Conn
    <3>3. held'[i] = c /\ \A k \in Inc \ {i} : held'[k] = held[k]
      BY <3>1, Zenon DEF TypeOK
    <3>4. ConnOf(j)
      BY Zenon DEF ConnInv
    <3>5. CASE j = i
      BY <2>1, <3>1, <3>2, <3>3, <3>5, SMTT(60) DEF ConnOf
    <3>6. CASE j # i
      <4>1. pc'[j] = pc[j] /\ held'[j] = held[j]
        BY <2>1, <3>3, <3>6, Zenon
      <4> QED BY <3>1, <3>2, <3>3, <3>4, <4>1, SMTT(60) DEF ConnOf
    <3> QED BY <3>5, <3>6, Zenon
  <2>3. NoConnLeak'
    BY <1>2, <2>1, SMTT(60) DEF ConnInv, ConnOf, NoConnLeak, Connect, batch, client, Sending, TypeOK
  <2> QED BY <2>2, <2>3, Zenon DEF ConnInv
<1>3. CASE ConnectFail(i)
  <2>1. /\ pc[i] = "connect" /\ pc'[i] = "lock"
        /\ \A j \in Inc \ {i} : pc'[j] = pc[j]
    BY <1>3, Frame, Zenon DEF ConnectFail, SendError
  <2>2. ASSUME NEW j \in Inc PROVE ConnOf(j)'
    BY <1>3, <2>1, SMTT(60) DEF ConnInv, ConnOf, ConnectFail, SendError, batch, client, Sending, TypeOK
  <2>3. NoConnLeak'
    BY <1>3, <2>1, SMTT(60) DEF ConnInv, ConnOf, NoConnLeak, ConnectFail, SendError, batch, client, Sending, TypeOK
  <2> QED BY <2>2, <2>3, Zenon DEF ConnInv
<1>4. CASE Register(i)
  <2>1. /\ pc[i] = "register" /\ pc'[i] = "handshake"
        /\ \A j \in Inc \ {i} : pc'[j] = pc[j]
    BY <1>4, Frame, Zenon DEF Register
  <2>2. ASSUME NEW j \in Inc PROVE ConnOf(j)'
    BY <1>4, <2>1, SMTT(60) DEF ConnInv, ConnOf, Register, batch, client, Sending, TypeOK
  <2>3. NoConnLeak'
    <3>1. CASE conns = 0
      <4>1. conns' = held[i] /\ UNCHANGED <<open, held>>
        BY <1>4, <3>1, Zenon DEF Register
      <4>2. 0 \notin open
        BY SenderAssumption, SMTT(60) DEF TypeOK, Conn
      <4>3. ASSUME NEW c \in open', c # conns'
            PROVE  \E k \in Inc : held'[k] = c /\ pc'[k] \in Sending
        <5>1. PICK k \in Inc : held[k] = c /\ pc[k] \in Sending
          BY <3>1, <4>1, <4>2, <4>3, Zenon DEF NoConnLeak
        <5>2. k # i
          BY <4>1, <4>3, <5>1, Zenon
        <5> QED BY <2>1, <4>1, <5>1, <5>2, Zenon
      <4> QED BY <4>3, Zenon DEF NoConnLeak
    <3>2. CASE conns # 0
      <4>1. open' = open \ {held[i]} /\ held' = [held EXCEPT ![i] = conns]
            /\ conns' = conns
        BY <1>4, <3>2, Zenon DEF Register
      <4>2. \A k \in Inc \ {i} : held'[k] = held[k]
        BY <4>1, Zenon DEF TypeOK
      <4>3. ASSUME NEW c \in open', c # conns'
            PROVE  \E k \in Inc : held'[k] = c /\ pc'[k] \in Sending
        <5>1. PICK k \in Inc : held[k] = c /\ pc[k] \in Sending
          BY <4>1, <4>3, Zenon DEF NoConnLeak
        <5>2. k # i
          BY <4>1, <4>3, <5>1, Zenon
        <5> QED BY <2>1, <4>2, <5>1, <5>2, Zenon
      <4> QED BY <4>3, Zenon DEF NoConnLeak
    <3> QED BY <3>1, <3>2, Zenon
  <2> QED BY <2>2, <2>3, Zenon DEF ConnInv
<1>5. CASE Handshake(i)
  <2>1. /\ pc[i] = "handshake" /\ pc'[i] = (IF held[i] \in handshakeDone THEN "write" ELSE "mark")
        /\ \A j \in Inc \ {i} : pc'[j] = pc[j]
    BY <1>5, Frame, Zenon DEF Handshake
  <2>2. ASSUME NEW j \in Inc PROVE ConnOf(j)'
    BY <1>5, <2>1, SMTT(60) DEF ConnInv, ConnOf, Handshake, batch, client, Sending, TypeOK
  <2>3. NoConnLeak'
    BY <1>5, <2>1, SMTT(60) DEF ConnInv, ConnOf, NoConnLeak, Handshake, batch, client, Sending, TypeOK
  <2> QED BY <2>2, <2>3, Zenon DEF ConnInv
<1>6. CASE Mark(i)
  <2>1. /\ pc[i] = "mark" /\ pc'[i] = "write"
        /\ \A j \in Inc \ {i} : pc'[j] = pc[j]
    BY <1>6, Frame, Zenon DEF Mark
  <2>2. ASSUME NEW j \in Inc PROVE ConnOf(j)'
    BY <1>6, <2>1, SMTT(60) DEF ConnInv, ConnOf, Mark, batch, client, Sending, TypeOK
  <2>3. NoConnLeak'
    BY <1>6, <2>1, SMTT(60) DEF ConnInv, ConnOf, NoConnLeak, Mark, batch, client, Sending, TypeOK
  <2> QED BY <2>2, <2>3, Zenon DEF ConnInv
<1>7. CASE Write(i)
  <2>1. /\ pc[i] = "write" /\ pc'[i] = "store"
        /\ \A j \in Inc \ {i} : pc'[j] = pc[j]
    BY <1>7, Frame, Zenon DEF Write
  <2>2. ASSUME NEW j \in Inc PROVE ConnOf(j)'
    BY <1>7, <2>1, SMTT(60) DEF ConnInv, ConnOf, Write, batch, client, Sending, TypeOK
  <2>3. NoConnLeak'
    BY <1>7, <2>1, SMTT(60) DEF ConnInv, ConnOf, NoConnLeak, Write, batch, client, Sending, TypeOK
  <2> QED BY <2>2, <2>3, Zenon DEF ConnInv
<1>8. CASE WriteFail(i)
  <2>1. /\ pc[i] = "write" /\ pc'[i] = "forget"
        /\ \A j \in Inc \ {i} : pc'[j] = pc[j]
    BY <1>8, Frame, Zenon DEF WriteFail
  <2>2. ASSUME NEW j \in Inc PROVE ConnOf(j)'
    BY <1>8, <2>1, SMTT(60) DEF ConnInv, ConnOf, WriteFail, batch, client, Sending, TypeOK
  <2>3. NoConnLeak'
    BY <1>8, <2>1, SMTT(60) DEF ConnInv, ConnOf, NoConnLeak, WriteFail, batch, client, Sending, TypeOK
  <2> QED BY <2>2, <2>3, Zenon DEF ConnInv
<1>9. CASE Forget(i)
  <2>1. /\ pc[i] = "forget" /\ pc'[i] = "lock"
        /\ \A j \in Inc \ {i} : pc'[j] = pc[j]
    BY <1>9, Frame, Zenon DEF Forget, SendError
  <2>2. ASSUME NEW j \in Inc PROVE ConnOf(j)'
    BY <1>9, <2>1, SMTT(60) DEF ConnInv, ConnOf, Forget, SendError, batch, client, Sending, TypeOK
  <2>3. NoConnLeak'
    BY <1>9, <2>1, SMTT(60) DEF ConnInv, ConnOf, NoConnLeak, Forget, SendError, batch, client, Sending, TypeOK
  <2> QED BY <2>2, <2>3, Zenon DEF ConnInv
<1> QED BY <1>1, <1>2, <1>3, <1>4, <1>5, <1>6, <1>7, <1>8, <1>9, Zenon DEF Talk

-----------------------------------------------------------------------------
(***************************************************************************)
(* Handshakes                                                              *)
(***************************************************************************)
LEMMA GreetQuiet ==
  ASSUME TypeOK, GreetInv, Quiet
  PROVE  GreetInv'
<1>1. \A i \in Inc : pc[i] = "write" <=> pc'[i] = "write"
  BY SMTT(60) DEF Quiet, Sending
<1> QED BY <1>1, Zenon DEF GreetInv, Quiet

LEMMA GreetDropped ==
  ASSUME GreetInv, Dropped
  PROVE  GreetInv'
BY Zenon DEF GreetInv, Dropped, DropConn

LEMMA GreetTalk ==
  ASSUME TypeOK, ConnInv, GreetInv, NEW i \in Inc, Talk(i)
  PROVE  GreetInv'
<1>1. CASE Lookup(i)
  <2>1. /\ pc[i] = "dial" /\ pc'[i] = (IF conns # 0 THEN "handshake" ELSE "connect")
        /\ \A j \in Inc \ {i} : pc'[j] = pc[j]
    BY <1>1, Frame, Zenon DEF Lookup
  <2> QED BY <1>1, <2>1, SMTT(60) DEF GreetInv, Lookup, batch, client, history, TypeOK
<1>2. CASE Connect(i)
  <2>1. /\ pc[i] = "connect" /\ pc'[i] = "register"
        /\ \A j \in Inc \ {i} : pc'[j] = pc[j]
    BY <1>2, Frame, Zenon DEF Connect
  <2> QED BY <1>2, <2>1, SMTT(60) DEF GreetInv, Connect, Unused, batch, client, history, TypeOK
<1>3. CASE ConnectFail(i)
  <2>1. /\ pc[i] = "connect" /\ pc'[i] = "lock"
        /\ \A j \in Inc \ {i} : pc'[j] = pc[j]
    BY <1>3, Frame, Zenon DEF ConnectFail, SendError
  <2> QED BY <1>3, <2>1, SMTT(60) DEF GreetInv, ConnectFail, SendError, batch, client, history, TypeOK
<1>4. CASE Register(i)
  <2>1. /\ pc[i] = "register" /\ pc'[i] = "handshake"
        /\ \A j \in Inc \ {i} : pc'[j] = pc[j]
    BY <1>4, Frame, Zenon DEF Register
  <2> QED BY <1>4, <2>1, SMTT(60) DEF GreetInv, Register, batch, client, history, TypeOK
<1>5. CASE Handshake(i)
  <2>1. /\ pc[i] = "handshake" /\ pc'[i] = (IF held[i] \in handshakeDone THEN "write" ELSE "mark")
        /\ \A j \in Inc \ {i} : pc'[j] = pc[j]
    BY <1>5, Frame, Zenon DEF Handshake
  <2> QED BY <1>5, <2>1, SMTT(60) DEF GreetInv, Handshake, batch, client, history, TypeOK
<1>6. CASE Mark(i)
  <2>1. /\ pc[i] = "mark" /\ pc'[i] = "write"
        /\ \A j \in Inc \ {i} : pc'[j] = pc[j]
    BY <1>6, Frame, Zenon DEF Mark
  <2> QED BY <1>6, <2>1, SMTT(60) DEF GreetInv, Mark, batch, client, history, TypeOK
<1>7. CASE Write(i)
  <2>1. /\ pc[i] = "write" /\ pc'[i] = "store"
        /\ \A j \in Inc \ {i} : pc'[j] = pc[j]
    BY <1>7, Frame, Zenon DEF Write
  <2> QED BY <1>7, <2>1, SMTT(60) DEF GreetInv, Write, batch, client, history, TypeOK
<1>8. CASE WriteFail(i)
  <2>1. /\ pc[i] = "write" /\ pc'[i] = "forget"
        /\ \A j \in Inc \ {i} : pc'[j] = pc[j]
    BY <1>8, Frame, Zenon DEF WriteFail
  <2> QED BY <1>8, <2>1, SMTT(60) DEF GreetInv, WriteFail, batch, client, history, TypeOK
<1>9. CASE Forget(i)
  <2>1. /\ pc[i] = "forget" /\ pc'[i] = "lock"
        /\ \A j \in Inc \ {i} : pc'[j] = pc[j]
    BY <1>9, Frame, Zenon DEF Forget, SendError
  <2> QED BY <1>9, <2>1, SMTT(60) DEF GreetInv, Forget, SendError, batch, client, history, TypeOK
<1> QED BY <1>1, <1>2, <1>3, <1>4, <1>5, <1>6, <1>7, <1>8, <1>9, Zenon DEF Talk

-----------------------------------------------------------------------------
(***************************************************************************)
(* Types and the log                                                       *)
(***************************************************************************)
LEMMA TypeTalk ==
  ASSUME TypeOK, ConnInv, NEW i \in Inc, Talk(i)
  PROVE  TypeOK'
<1> USE SenderAssumption
<1>1. CASE Lookup(i) \/ Connect(i) \/ ConnectFail(i) \/ Handshake(i) \/ Forget(i)
  <2>1. pc' \in [Inc -> Control]
    BY <1>1, SMTT(60) DEF Lookup, Connect, ConnectFail, Handshake, Forget, SendError, Goto,
                          TypeOK, Control, Sending
  <2>2. /\ held' \in [Inc -> 0..(MaxJoins + 1)] /\ greets' \subseteq Inc
        /\ conns' \in 0..(MaxJoins + 1) /\ open' \subseteq Conn
        /\ handshakeDone' \subseteq Conn
    <3>1. Conn \subseteq 0..(MaxJoins + 1) /\ 0 \in 0..(MaxJoins + 1)
      BY SMTT(60) DEF Conn
    <3> QED BY <1>1, <3>1, ZenonT(40) DEF Lookup, Connect, ConnectFail, Handshake, Forget,
                                       SendError, TypeOK, batch, client
  <2>3. wrote' \subseteq Conn /\ greeted' \subseteq Conn /\ sent' \in Nat /\ faults' \in Nat
    BY <1>1, SMTT(60) DEF Lookup, Connect, ConnectFail, Handshake, Forget, SendError,
                          TypeOK, history
  <2>4. UNCHANGED <<head, cursor, tested, members, upto>>
    BY <1>1, Zenon DEF Lookup, Connect, ConnectFail, Handshake, Forget, batch
  <2> QED BY <2>1, <2>2, <2>3, <2>4, Zenon DEF TypeOK, members
<1>2. CASE Register(i) \/ Mark(i) \/ Write(i) \/ WriteFail(i)
  <2>1. pc' \in [Inc -> Control]
    BY <1>2, SMTT(60) DEF Register, Mark, Write, WriteFail, Goto, TypeOK, Control, Sending
  <2>2. held[i] \in Conn
    <3>1. pc[i] \in Sending
      BY <1>2, SMTT(60) DEF Register, Mark, Write, WriteFail, Goto, Sending
    <3>2. held[i] # 0
      BY <3>1, Zenon DEF ConnInv, ConnOf
    <3> QED BY <3>2, SMTT(60) DEF TypeOK, Conn
  <2>3. /\ held' \in [Inc -> 0..(MaxJoins + 1)] /\ greets' \subseteq Inc
        /\ conns' \in 0..(MaxJoins + 1) /\ open' \subseteq Conn
    <3>1. Conn \subseteq 0..(MaxJoins + 1) /\ 0 \in 0..(MaxJoins + 1)
      BY SMTT(60) DEF Conn
    <3> QED BY <1>2, <2>2, <3>1, ZenonT(40) DEF Register, Mark, Write, WriteFail, TypeOK, batch,
                                             client
  <2>4. /\ wrote' \subseteq Conn /\ greeted' \subseteq Conn /\ handshakeDone' \subseteq Conn
    BY <1>2, <2>2, Zenon DEF Register, Mark, Write, WriteFail, TypeOK, client, history
  <2>5. sent' \in Nat /\ faults' \in Nat
    BY <1>2, SMTT(60) DEF Register, Mark, Write, WriteFail, TypeOK, history
  <2>6. UNCHANGED <<head, cursor, tested, members, upto>>
    BY <1>2, Zenon DEF Register, Mark, Write, WriteFail, batch
  <2> QED BY <2>1, <2>3, <2>4, <2>5, <2>6, Zenon DEF TypeOK, members
<1> QED BY <1>1, <1>2, Zenon DEF Talk

LEMMA TypeReplicate ==
  ASSUME TypeOK, NEW i \in Inc,
         Lock(i) \/ Return(i) \/ HasData(i) \/ NoData(i) \/ Wait(i) \/ Load(i)
           \/ StoreCursor(i)
  PROVE  TypeOK'
<1>1. pc' \in [Inc -> Control]
  BY SMTT(60) DEF Lock, Return, HasData, NoData, Wait, Load, StoreCursor, Goto, TypeOK,
                  Control, Locking
<1>2. LastSeq \in Nat
  BY SenderAssumption, SMTT(60) DEF LastSeq, TypeOK
<1>3. cursor' \in Nat \cup {Absent} /\ head' = head
  BY <1>2, SMTT(60) DEF Lock, Return, HasData, NoData, Wait, Load, StoreCursor, TypeOK
<1>4. tested' \in [Inc -> Nat] /\ upto' \in [Inc -> Nat]
  BY SMTT(60) DEF Lock, Return, HasData, NoData, Wait, Load, StoreCursor, TypeOK, batch
<1>5. UNCHANGED <<members, held, greets, client, history>>
  BY Zenon DEF Lock, Return, HasData, NoData, Wait, Load, StoreCursor, batch
<1> QED BY <1>1, <1>3, <1>4, <1>5, Zenon DEF TypeOK, members, client, history

LEMMA TypeStep ==
  ASSUME TypeOK, ConnInv, [Next]_vars
  PROVE  TypeOK'
<1> USE SenderAssumption
<1>1. ASSUME Woken \in [Inc -> Control] => pc' \in [Inc -> Control],
             head' \in Nat, cursor' \in Nat \cup {Absent},
             UNCHANGED <<tested, peerStops, stopped, batch, client, history>>,
             leaving' \in {"no", "stop", "wake", "forget"},
             closing' \in {"no", "wake", "client", "closed"}
      PROVE  TypeOK'
  <2>1. Woken \in [Inc -> Control]
    BY SMTT(60) DEF TypeOK, Woken, Control
  <2> QED BY <1>1, <2>1, Zenon DEF TypeOK, batch, client, history
<1>2. CASE LogAppend \/ WakeStopped \/ WakeAll
  BY <1>1, <1>2, SMTT(60) DEF LogAppend, WakeStopped, WakeAll, members, TypeOK
<1>3. CASE PeerHandshake \/ ForgetPeer \/ Cancel \/ UNCHANGED vars
  BY <1>1, <1>3, SMTT(60) DEF PeerHandshake, ForgetPeer, Cancel, vars, loop, members, TypeOK
<1>4. CASE StopReplicator
  BY <1>4, SMTT(60) DEF StopReplicator, loop, batch, client, history, TypeOK, Inc
<1>5. CASE NotifyJoin
  BY <1>5, SMTT(60) DEF NotifyJoin, Goto, batch, client, history, TypeOK, Inc, Control
<1>6. CASE CloseConn \/ CloseIdle \/ CloseClient
  BY <1>6, SMTT(60) DEF CloseConn, CloseIdle, CloseClient, DropConn, loop, members, batch,
                        history, TypeOK
<1>7. CASE \E i \in Inc : Replicate(i)
  BY <1>7, TypeTalk, TypeReplicate, Zenon DEF Replicate, Talk
<1> QED BY <1>2, <1>3, <1>4, <1>5, <1>6, <1>7, Zenon DEF Next, NotifyLeave, Close

(* LogAppend needs the mutex, so that no replicator is between its test    *)
(* and its wait.                                                           *)
LEMMA WakeStep ==
  ASSUME TypeOK, WakeInv, [Next]_vars
  PROVE  WakeInv'
<1>1. CASE LogAppend
  <2>1. \A i \in Inc : pc'[i] \notin {"add", "wait"}
    BY <1>1, SMTT(60) DEF LogAppend, Unlocked, Locking, Woken
  <2> QED BY <2>1, Zenon DEF WakeInv
<1>2. CASE WakeStopped \/ WakeAll
  <2>1. \A i \in Inc : pc'[i] \in {"add", "wait"} => pc[i] = pc'[i]
    BY <1>2, SMTT(60) DEF WakeStopped, WakeAll, Woken
  <2>2. UNCHANGED <<tested, head>>
    BY <1>2, Zenon DEF WakeStopped, WakeAll
  <2> QED BY <2>1, <2>2, Zenon DEF WakeInv
<1>3. CASE UNCHANGED <<pc, tested, head>>
  BY <1>3, Zenon DEF WakeInv
<1>4. CASE NotifyJoin
  BY <1>4, SMTT(60) DEF NotifyJoin, Goto, TypeOK, WakeInv
<1>5. ASSUME NEW i \in Inc, Replicate(i) PROVE WakeInv'
  <2>1. CASE NoData(i)
    BY <2>1, SMTT(60) DEF NoData, Goto, TypeOK, WakeInv
  <2>2. CASE Wait(i)
    BY <2>2, SMTT(60) DEF Wait, Goto, TypeOK, WakeInv
  <2>3. CASE ~NoData(i) /\ ~Wait(i)
    <3>1. \E from, to \in Control \ {"add", "wait"} : Goto(i, from, to)
      <4>1. CASE Talk(i)
        BY <4>1, SMTT(60) DEF Talk, Lookup, Connect, ConnectFail, Register, Handshake, Mark,
                              Write, WriteFail, Forget, SendError, Goto, Control, Sending
      <4>2. CASE Lock(i) \/ Return(i) \/ HasData(i) \/ Load(i) \/ StoreCursor(i)
        BY <4>2, SMTT(60) DEF Lock, Return, HasData, Load, StoreCursor, Goto, Control, Locking
      <4> QED BY <1>5, <2>3, <4>1, <4>2, Zenon DEF Replicate, Talk
    <3>2. UNCHANGED <<tested, head>>
      BY <1>5, <2>3, Zenon DEF Replicate, Lock, Return, HasData, Load, Lookup, Connect,
                   ConnectFail, Register, Handshake, Mark, Write, WriteFail, Forget, StoreCursor
    <3> QED BY <3>1, <3>2, Zenon DEF Goto, TypeOK, WakeInv
  <2> QED BY <2>1, <2>2, <2>3, Zenon
<1> QED BY <1>1, <1>2, <1>3, <1>4, <1>5, Zenon DEF Next, NotifyLeave, Close, vars, loop,
       PeerHandshake, StopReplicator, ForgetPeer, Cancel, CloseConn, CloseIdle, CloseClient

-----------------------------------------------------------------------------
(***************************************************************************)
(* Theorems                                                                *)
(***************************************************************************)
IInv == TypeOK /\ WakeInv /\ ConnInv /\ NoConnLeak /\ GreetInv

LEMMA Inductive == Spec => []IInv
<1>1. Init => IInv
  <2> SUFFICES ASSUME Init PROVE IInv
    BY Zenon
  <2>1. TypeOK
    BY SenderAssumption, SMTT(60) DEF Init, TypeOK, Control, Inc
  <2>2. \A i \in Inc : pc[i] = "none"
    BY Zenon DEF Init
  <2>3. WakeInv /\ ConnInv
    BY <2>2, SMTT(60) DEF WakeInv, ConnInv, ConnOf, Sending
  <2>4. NoConnLeak /\ GreetInv
    BY <2>2, SMTT(60) DEF Init, NoConnLeak, GreetInv
  <2> QED BY <2>1, <2>3, <2>4, Zenon DEF IInv
<1>2. IInv /\ [Next]_vars => IInv'
  <2> SUFFICES ASSUME IInv, [Next]_vars PROVE IInv'
    BY Zenon
  <2>1. TypeOK /\ WakeInv /\ ConnInv /\ NoConnLeak /\ GreetInv
    BY Zenon DEF IInv
  <2>2. TypeOK' /\ WakeInv'
    BY <2>1, TypeStep, WakeStep, Zenon
  <2>3. ConnInv' /\ NoConnLeak' /\ GreetInv'
    BY <2>1, Steps, ConnQuiet, ConnDropped, ConnTalk, GreetQuiet, GreetDropped, GreetTalk,
       Zenon
  <2> QED BY <2>2, <2>3, Zenon DEF IInv
<1> QED BY <1>1, <1>2, PTL DEF Spec

(* No append is missed by a replicator that waits (peerReplicatorLoop and  *)
(* Append), for any number of replicators.                                 *)
THEOREM NoWakeupIsLost == Spec => []NoLostWakeup
<1>1. IInv => NoLostWakeup
  BY SMTT(60) DEF IInv, WakeInv, NoLostWakeup
<1> QED BY <1>1, Inductive, PTL

(* No connection is left open that neither conns nor a SendBatch knows of  *)
(* (dial, SendBatch, CloseConn, janitor and Close).                        *)
THEOREM NoConnectionLeaks == Spec => []NoConnLeak
<1>1. IInv => NoConnLeak
  BY Zenon DEF IInv
<1> QED BY <1>1, Inductive, PTL

(* A connection that was written to has carried a handshake, or the        *)
(* SendBatch that will write it is running.                                *)
THEOREM HandshakesAreCarried == Spec => []HandshakeCarried
<1>1. IInv => HandshakeCarried
  <2> SUFFICES ASSUME IInv, NEW c \in open \cap wrote, c \notin greeted
               PROVE  \E i \in Inc : held[i] = c /\ pc[i] \in Sending
    BY Zenon DEF HandshakeCarried
  <2>1. PICK i \in Inc : held[i] = c /\ pc[i] = "write"
    BY Zenon DEF IInv, GreetInv
  <2> QED BY <2>1, SMTT(60) DEF Sending
<1> QED BY <1>1, Inductive, PTL

(* The state keeps its types; in particular SendBatch never uses a         *)
(* connection that is not there.                                           *)
THEOREM TypeCorrect == Spec => []TypeOK
<1>1. IInv => TypeOK
  BY Zenon DEF IInv
<1> QED BY <1>1, Inductive, PTL
=============================================================================
