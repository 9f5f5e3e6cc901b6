------------------------------- MODULE Sender -------------------------------
(***************************************************************************)
(* The sending side of one node towards one peer, lock by lock: Append and *)
(* the wait loop of peerReplicatorLoop on the log's mutex and condition,   *)
(* replicateToPeer, StreamClient's dial, SendBatch, CloseConn, janitor and *)
(* Close on the map of connections, memberlist's callbacks and             *)
(* Capacitor.Close.  Replication has each of these as one step; here they  *)
(* interleave, and a replicator that was stopped runs beside its           *)
(* successor.                                                              *)
(***************************************************************************)
EXTENDS Naturals

CONSTANTS Absent,     \* no entry in peerSeqs, not a number
          Stored,     \* store.getPeerSeq(peer)
          MaxLog,     \* bound: entries appended
          MaxSeen,    \* bound: positions that the peer reports
          MaxJoins,   \* bound: replicators started
          MaxFaults   \* bound: dials and writes that fail

ASSUME SenderAssumption ==
  /\ Absent \notin Nat
  /\ Stored \in Nat /\ MaxLog \in Nat /\ MaxSeen \in Nat
  /\ MaxJoins \in Nat /\ MaxFaults \in Nat

VARIABLES
  head,       \* number of entries in the log
  cursor,     \* peerSeqs[peer]
  pc,         \* [i]: where the i-th replicator for the peer is
  tested,     \* [i]: head when i last found nothing to send
  peerStops,  \* the replicator whose stop channel is in peerStops, or 0
  stopped,    \* the replicators whose stop channel is closed
  leaving,    \* where NotifyLeave is
  closing,    \* where Capacitor.Close is
  upto,       \* [i]: the last entry of the batch that it sends
  held,       \* [i]: the connection that its SendBatch uses, or 0
  greets,     \* the replicators whose batch carries a handshake
  conns,      \* StreamClient.conns[peer], or 0
  open,       \* the connections that are open at this end
  handshakeDone,  \* the connections that have the flag
  wrote,      \* the connections that a batch was written to
  greeted,    \* the connections that a handshake was written to
  sent,       \* the highest entry written
  faults

loop == <<pc, tested>>
members == <<peerStops, stopped, leaving, closing>>
batch == <<upto, held, greets>>
client == <<conns, open, handshakeDone>>
history == <<wrote, greeted, sent, faults>>
vars == <<head, cursor, loop, members, batch, client, history>>

Inc == 1..MaxJoins
Conn == 1..(MaxJoins + 1)

(* A replicator holds the log's mutex, or is in SendBatch with a           *)
(* connection.                                                             *)
Locking == {"test", "add"}
Sending == {"register", "handshake", "mark", "write", "forget"}
Control == {"none", "lock", "wait", "load", "dial", "connect", "store", "done"}
             \cup Locking \cup Sending

TypeOK ==
  /\ head \in Nat /\ cursor \in Nat \cup {Absent}
  /\ pc \in [Inc -> Control] /\ tested \in [Inc -> Nat]
  /\ peerStops \in 0..MaxJoins /\ stopped \subseteq Inc
  /\ leaving \in {"no", "stop", "wake", "forget"}
  /\ closing \in {"no", "wake", "client", "closed"}
  /\ upto \in [Inc -> Nat]
  /\ held \in [Inc -> 0..(MaxJoins + 1)] /\ greets \subseteq Inc
  /\ conns \in 0..(MaxJoins + 1) /\ open \subseteq Conn /\ handshakeDone \subseteq Conn
  /\ wrote \subseteq Conn /\ greeted \subseteq Conn
  /\ sent \in Nat /\ faults \in Nat

Init ==
  /\ head = 0 /\ cursor = Absent
  /\ pc = [i \in Inc |-> "none"] /\ tested = [i \in Inc |-> 0]
  /\ peerStops = 0 /\ stopped = {} /\ leaving = "no" /\ closing = "no"
  /\ upto = [i \in Inc |-> 0]
  /\ held = [i \in Inc |-> 0] /\ greets = {}
  /\ conns = 0 /\ open = {} /\ handshakeDone = {}
  /\ wrote = {} /\ greeted = {} /\ sent = 0 /\ faults = 0

Goto(i, from, to) == pc[i] = from /\ pc' = [pc EXCEPT ![i] = to]

(* cond.Broadcast                                                          *)
Woken == [i \in Inc |-> IF pc[i] = "wait" THEN "lock" ELSE pc[i]]

(***************************************************************************)
(* The log                                                                 *)
(***************************************************************************)
Unlocked == \A i \in Inc : pc[i] \notin Locking

(* A mutation of LogAppend: the mutex is not taken.                        *)
LogAppendUnlocked ==
  /\ head < MaxLog
  /\ head' = head + 1
  /\ pc' = Woken
  /\ UNCHANGED <<cursor, tested, members, batch, client, history>>

(* Append, with the mutex.                                                 *)
LogAppend ==
  /\ Unlocked /\ head < MaxLog
  /\ head' = head + 1
  /\ pc' = Woken
  /\ UNCHANGED <<cursor, tested, members, batch, client, history>>

(***************************************************************************)
(* peerReplicatorLoop: wait for something to send                          *)
(***************************************************************************)
LastSeq == IF cursor # Absent THEN cursor ELSE Stored

Lock(i) ==
  /\ Unlocked
  /\ Goto(i, "lock", "test")
  /\ UNCHANGED <<head, cursor, tested, members, batch, client, history>>

Return(i) ==
  /\ i \in stopped \/ closing # "no"
  /\ Goto(i, "test", "done")
  /\ UNCHANGED <<head, cursor, tested, members, batch, client, history>>

HasData(i) ==
  /\ i \notin stopped /\ closing = "no"
  /\ head > LastSeq
  /\ Goto(i, "test", "load")
  /\ UNCHANGED <<head, cursor, tested, members, batch, client, history>>

NoData(i) ==
  /\ i \notin stopped /\ closing = "no"
  /\ head <= LastSeq
  /\ Goto(i, "test", "add")
  /\ tested' = [tested EXCEPT ![i] = head]
  /\ UNCHANGED <<head, cursor, members, batch, client, history>>

(* cond.Wait has put i on the list of those to wake, and unlocks.          *)
Wait(i) ==
  /\ Goto(i, "add", "wait")
  /\ UNCHANGED <<head, cursor, tested, members, batch, client, history>>

(***************************************************************************)
(* replicateToPeer, and the StreamClient's dial and SendBatch              *)
(***************************************************************************)

(* peerSeqs.LoadOrStore and GetEntriesRaw: all that there is; the limits   *)
(* of a batch and of the log are in Replication.                           *)
Load(i) ==
  /\ Goto(i, "load", IF head > LastSeq THEN "dial" ELSE "lock")
  /\ cursor' = LastSeq
  /\ upto' = [upto EXCEPT ![i] = head]
  /\ UNCHANGED <<head, tested, members, held, greets, client, history>>

(* SendBatch returns an error: the connection is let go of.                *)
SendError(i, from) ==
  /\ Goto(i, from, "lock")
  /\ held' = [held EXCEPT ![i] = 0]
  /\ greets' = greets \ {i}

(* A mutation of Lookup: a connection that is not there is used.           *)
LookupNil(i) ==
  /\ Goto(i, "dial", "handshake")
  /\ held' = [held EXCEPT ![i] = conns]
  /\ UNCHANGED <<head, cursor, tested, members, upto, greets, client, history>>

(* conns[nodeID], under the client's lock.                                 *)
Lookup(i) ==
  /\ Goto(i, "dial", IF conns # 0 THEN "handshake" ELSE "connect")
  /\ held' = [held EXCEPT ![i] = conns]
  /\ UNCHANGED <<head, cursor, tested, members, upto, greets, client, history>>

(* The numbers of connections that are closed and forgotten are used again. *)
Unused(c) == c \notin open \cup {conns} /\ \A i \in Inc : held[i] # c

Connect(i) ==
  /\ Goto(i, "connect", "register")
  /\ \E c \in Conn :
       /\ Unused(c) /\ \A d \in Conn : d < c => ~Unused(d)
       /\ open' = open \cup {c}
       /\ held' = [held EXCEPT ![i] = c]
       /\ handshakeDone' = handshakeDone \ {c}
       /\ wrote' = wrote \ {c}
       /\ greeted' = greeted \ {c}
  /\ UNCHANGED <<head, cursor, tested, members, upto, greets, conns, sent, faults>>

(* The dial fails: refused, timed out, or the context is cancelled.        *)
ConnectFail(i) ==
  /\ closing # "no" \/ faults < MaxFaults
  /\ faults' = IF closing # "no" THEN faults ELSE faults + 1
  /\ SendError(i, "connect")
  /\ UNCHANGED <<head, cursor, tested, members, upto, client, wrote,
                 greeted, sent>>

(* The connection is entered in conns, unless there is one already.        *)
Register(i) ==
  /\ Goto(i, "register", "handshake")
  /\ IF conns # 0
     THEN /\ open' = open \ {held[i]}
          /\ held' = [held EXCEPT ![i] = conns]
          /\ UNCHANGED conns
     ELSE conns' = held[i] /\ UNCHANGED <<open, held>>
  /\ UNCHANGED <<head, cursor, tested, members, upto, greets,
                 handshakeDone, history>>

(* if !cc.handshakeDone, which no lock protects.                           *)
Handshake(i) ==
  /\ Goto(i, "handshake", IF held[i] \in handshakeDone THEN "write" ELSE "mark")
  /\ UNCHANGED <<head, cursor, tested, members, batch, client, history>>

(* A mutation of Mark: the flag is set and the batch goes without.         *)
MarkOnly(i) ==
  /\ Goto(i, "mark", "write")
  /\ handshakeDone' = handshakeDone \cup {held[i]}
  /\ UNCHANGED <<head, cursor, tested, members, batch, conns, open, history>>

Mark(i) ==
  /\ Goto(i, "mark", "write")
  /\ greets' = greets \cup {i}
  /\ handshakeDone' = handshakeDone \cup {held[i]}
  /\ UNCHANGED <<head, cursor, tested, members, upto, held, conns, open,
                 history>>

Write(i) ==
  /\ held[i] \in open
  /\ Goto(i, "write", "store")
  /\ wrote' = wrote \cup {held[i]}
  /\ greeted' = IF i \in greets THEN greeted \cup {held[i]} ELSE greeted
  /\ sent' = IF upto[i] > sent THEN upto[i] ELSE sent
  /\ held' = [held EXCEPT ![i] = 0]
  /\ greets' = greets \ {i}
  /\ UNCHANGED <<head, cursor, tested, members, upto, client, faults>>

(* The write fails, as it does on a connection that was closed meanwhile.  *)
WriteFail(i) ==
  /\ held[i] \notin open \/ faults < MaxFaults
  /\ faults' = IF held[i] \notin open THEN faults ELSE faults + 1
  /\ Goto(i, "write", "forget")
  /\ open' = open \ {held[i]}
  /\ UNCHANGED <<head, cursor, tested, members, batch, conns, handshakeDone,
                 wrote, greeted, sent>>

(* A mutation of Forget: whatever conns holds is deleted.                  *)
ForgetAny(i) ==
  /\ SendError(i, "forget")
  /\ conns' = 0
  /\ UNCHANGED <<head, cursor, tested, members, upto, open, handshakeDone,
                 history>>

(* A mutation of Forget: the failed connection stays in conns.             *)
ForgetNot(i) ==
  /\ SendError(i, "forget")
  /\ UNCHANGED <<head, cursor, tested, members, upto, client, history>>

(* The failed connection is deleted from conns if it is still there.       *)
Forget(i) ==
  /\ SendError(i, "forget")
  /\ conns' = IF conns = held[i] THEN 0 ELSE conns
  /\ UNCHANGED <<head, cursor, tested, members, upto, open, handshakeDone,
                 history>>

(* "Only advance on success".                                              *)
StoreCursor(i) ==
  /\ Goto(i, "store", "lock")
  /\ cursor' = upto[i]
  /\ UNCHANGED <<head, tested, members, batch, client, history>>

Replicate(i) ==
  \/ Lock(i) \/ Return(i) \/ HasData(i) \/ NoData(i) \/ Wait(i) \/ Load(i)
  \/ Lookup(i) \/ Connect(i) \/ ConnectFail(i) \/ Register(i) \/ Handshake(i)
  \/ Mark(i) \/ Write(i) \/ WriteFail(i) \/ Forget(i) \/ StoreCursor(i)

(***************************************************************************)
(* What the peer and memberlist do                                         *)
(***************************************************************************)

(* The handler stores where the peer says that it is in the log, which may *)
(* be a position in the log of this node before it was restarted.          *)
PeerHandshake ==
  /\ \E v \in 0..MaxSeen : cursor' = v
  /\ UNCHANGED <<head, loop, members, batch, client, history>>

(* NotifyJoin and startPeerReplicator.  memberlist runs one callback at a  *)
(* time.                                                                   *)
NotifyJoin ==
  /\ leaving = "no" /\ peerStops = 0
  /\ \E i \in Inc :
       /\ \A j \in Inc : (pc[j] = "none") <=> (j >= i)
       /\ Goto(i, "none", "lock")
       /\ peerStops' = i
  /\ UNCHANGED <<head, cursor, tested, stopped, leaving, closing, batch, client,
                 history>>

(* conns[nodeID] is closed and deleted.                                    *)
DropConn ==
  /\ open' = open \ {conns}
  /\ conns' = 0
  /\ UNCHANGED <<handshakeDone>>

(* NotifyLeave: CloseConn, and stopPeerReplicator in three steps, none of  *)
(* them with the log's mutex.                                              *)
CloseConn ==
  /\ leaving = "no" /\ peerStops # 0
  /\ leaving' = "stop"
  /\ DropConn
  /\ UNCHANGED <<head, cursor, loop, peerStops, stopped, closing, batch, history>>

StopReplicator ==
  /\ leaving = "stop"
  /\ leaving' = "wake"
  /\ stopped' = IF peerStops # 0 THEN stopped \cup {peerStops} ELSE stopped
  /\ peerStops' = 0
  /\ UNCHANGED <<head, cursor, loop, closing, batch, client, history>>

WakeStopped ==
  /\ leaving = "wake"
  /\ leaving' = "forget"
  /\ pc' = Woken
  /\ UNCHANGED <<head, cursor, tested, peerStops, stopped, closing, batch, client,
                 history>>

ForgetPeer ==
  /\ leaving = "forget"
  /\ leaving' = "no"
  /\ cursor' = Absent
  /\ UNCHANGED <<head, loop, peerStops, stopped, closing, batch, client, history>>

NotifyLeave == CloseConn \/ StopReplicator \/ WakeStopped \/ ForgetPeer

(* The janitor closes a connection that no SendBatch has looked up for two *)
(* minutes; one that uses it takes no more than five seconds.              *)
CloseIdle ==
  /\ conns # 0 /\ closing # "closed"
  /\ \A i \in Inc : held[i] # conns
  /\ DropConn
  /\ UNCHANGED <<head, cursor, loop, members, batch, history>>

(* Capacitor.Close: the context is cancelled, the replicators are woken,   *)
(* without the mutex, and the client is closed.                            *)
Cancel ==
  /\ closing = "no"
  /\ closing' = "wake"
  /\ UNCHANGED <<head, cursor, loop, peerStops, stopped, leaving, batch, client,
                 history>>

WakeAll ==
  /\ closing = "wake"
  /\ closing' = "client"
  /\ pc' = Woken
  /\ UNCHANGED <<head, cursor, tested, peerStops, stopped, leaving, batch, client,
                 history>>

CloseClient ==
  /\ closing = "client"
  /\ closing' = "closed"
  /\ DropConn
  /\ UNCHANGED <<head, cursor, loop, peerStops, stopped, leaving, batch, history>>

Close == Cancel \/ WakeAll \/ CloseClient

(***************************************************************************)
(* Specifications                                                          *)
(***************************************************************************)
Next ==
  \/ LogAppend
  \/ \E i \in Inc : Replicate(i)
  \/ PeerHandshake
  \/ NotifyJoin
  \/ NotifyLeave
  \/ CloseIdle
  \/ Close

(* Goroutines that can run do run, and callbacks that have begun end.      *)
Fairness ==
  /\ \A i \in Inc : WF_vars(Replicate(i))
  /\ WF_vars(StopReplicator \/ WakeStopped \/ ForgetPeer)
  /\ WF_vars(WakeAll \/ CloseClient)

Spec == Init /\ [][Next]_vars
FairSpec == Spec /\ Fairness

(***************************************************************************)
(* Properties                                                              *)
(***************************************************************************)

(* Nothing is appended between the moment a replicator finds nothing to    *)
(* send and the moment it waits, and an append wakes every replicator: one *)
(* that waits has seen the log as it is.  So also one that was stopped and *)
(* missed the broadcast, made without the mutex, that should have told it. *)
NoLostWakeup == \A i \in Inc : pc[i] = "wait" => tested[i] = head

(* No connection leaks: one that is open is in conns, where the            *)
(* janitor, CloseConn and Close find it, or a SendBatch is using it; with  *)
(* two replicators that dial at the same time, a write that fails after    *)
(* the connection was replaced, and callbacks that close it meanwhile.     *)
NoConnLeak ==
  \A c \in open :
    c = conns \/ \E i \in Inc : held[i] = c /\ pc[i] \in Sending

(* The peer learns where this node is in its log from every connection:    *)
(* one that was written to, and that no SendBatch is using, has carried a  *)
(* handshake.  (Perhaps not in its first batch, when a replicator that was *)
(* stopped is still sending beside its successor.)                         *)
HandshakeCarried ==
  \A c \in open \cap wrote :
    c \in greeted \/ \E i \in Inc : held[i] = c /\ pc[i] \in Sending

Served == peerStops # 0 /\ closing = "no"

(* The peer has reported a position that was not sent to it.               *)
Ahead == cursor # Absent /\ cursor > sent

(* While the peer is a member and the node is not closed, everything that  *)
(* is appended is sent, whatever dials and writes failed, connections were *)
(* closed and replicators were replaced before, if the peer never reports  *)
(* more than was sent.  (It may, from before a restart of this node; new   *)
(* entries are then taken to have been sent.)                              *)
AllSent == Stored = 0 /\ []~Ahead /\ <>[]Served => <>[](sent = head)
=============================================================================
