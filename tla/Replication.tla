---------------------------- MODULE Replication ----------------------------
(***************************************************************************)
(* Replication of the operation logs between the nodes of a cluster: the   *)
(* replicator goroutine that node n runs for each peer p                   *)
(* (peerReplicatorLoop, replicateToPeer), the connections it sends on      *)
(* (StreamClient), the handler that the peer runs for each connection      *)
(* (handleConn, applyRemoteEntry), and the membership events that start    *)
(* and stop replicators.  Three counters are to agree on what has been     *)
(* sent: the cursor of the sender (Capacitor.peerSeqs), the last sequence  *)
(* number the receiver has recorded (store.peerSeqs), and the handshake,   *)
(* which carries the second back into the first.                           *)
(*                                                                         *)
(* An entry is its sequence number in the log of its origin and its        *)
(* operation.  What applying it does to the store is left out.  A node     *)
(* that starts again numbers its entries from 1 again, while peers may     *)
(* still be applying what it had sent before: the model keeps all that a   *)
(* node has ever logged, and where the log that it now has begins.         *)
(***************************************************************************)
EXTENDS Integers, Sequences

CONSTANTS Node,
          Ops,         \* the operations logged, a subset of AllOps
          Capacity,    \* entries the log retains (Config.LogSize)
          BatchLimit,  \* entries in a batch; 1000 in the code
          MaxLogs,     \* bound: the [Node -> Nat] that the logs may grow to
          MaxJoins,    \* bound: replicators a node starts for a peer
          MaxConns,    \* bound: connections a node dials to a peer
          MaxFaults    \* bound: failures in a behaviour

AllOps == {"set", "delete", "incr", "metric", "window"}

ASSUME ReplicationAssumption ==
  /\ Ops \subseteq AllOps
  /\ Capacity \in Nat \ {0} /\ BatchLimit \in Nat \ {0}
  /\ MaxLogs \subseteq [Node -> Nat] /\ MaxJoins \in Nat \ {0} /\ MaxConns \in Nat \ {0}
  /\ MaxFaults \in Nat

VARIABLES
  log,        \* [n]: the operations n has logged, also before restarts
  base,       \* [n]: how many of them are not of the log it now has
  cursor,     \* [n, p]: Capacitor.peerSeqs of n, Absent if it has no entry
  seen,       \* [n, p]: store.peerSeqs of n: greatest seq recorded from p
  peerStops,  \* [n, p]: the replicator whose stop channel is open, 0 if none
  started,    \* [n, p]: number of replicators n has started for p
  pc,         \* [n, p, i]: where replicator i of n for p is
  job,        \* [n, p, i]: its lastSeq, the batch it holds, lastSeenRemote
  conn,       \* [n, p]: the connection in StreamClient.conns, 0 if none
  dialled,    \* [n, p]: number of connections n has dialled to p
  broken,     \* [n, p]: conn no longer reaches p
  stream,     \* [n, p, c]: batches on their way on connection c
  rx,         \* [n, p, c]: the batch p's handler of c is applying
  applied,    \* [p, n]: the entries of n that p has applied, by place in log
  twice,      \* [p, n]: those it has applied more than once
  rejected,   \* [p, n]: those it dropped for their timestamp
  faults      \* number of failures so far

sender == <<peerStops, started, pc, job>>
network == <<conn, dialled, broken, stream>>
receiver == <<seen, rx, applied, twice, rejected>>
vars == <<log, base, cursor, sender, network, receiver, faults>>

Absent == -1
NoJob == [last |-> 0, lo |-> 0, hi |-> 0, hs |-> 0]   \* outside replicateToPeer
Idle == [base |-> 0, lo |-> 1, hi |-> 0]              \* a handler between two batches

Inc == 1..MaxJoins
Conn == 1..MaxConns
Link == Node \X Node
Replicator == Node \X Node \X Inc
Handler == Node \X Node \X Conn
Control == {"none", "check", "wait", "load", "read", "ask", "send", "store", "done"}

(* What a replicator holds, a batch and what is left of one are never      *)
(* empty.  The base of a batch says which log its numbers refer to.        *)
Job == {j \in [last : Nat, lo : Nat, hi : Nat, hs : Nat] : j.lo <= j.hi}
Batch == {b \in [base : Nat, hs : Nat \cup {Absent}, lo : Nat, hi : Nat] : b.lo <= b.hi}
Rest == {r \in [base : Nat, lo : Nat, hi : Nat] : r.lo <= r.hi} \cup {Idle}

TypeOK ==
  /\ log \in [Node -> Seq(Ops)]
  /\ base \in [Node -> Nat] /\ \A n \in Node : base[n] <= Len(log[n])
  /\ cursor \in [Link -> Nat \cup {Absent}]
  /\ seen \in [Link -> Nat]
  /\ peerStops \in [Link -> 0..MaxJoins]
  /\ started \in [Link -> 0..MaxJoins]
  /\ pc \in [Replicator -> Control]
  /\ job \in [Replicator -> Job]
  /\ conn \in [Link -> 0..MaxConns]
  /\ dialled \in [Link -> 0..MaxConns]
  /\ broken \in [Link -> BOOLEAN]
  /\ stream \in [Handler -> Seq(Batch)]
  /\ rx \in [Handler -> Rest]
  /\ applied \in [Link -> SUBSET Nat]
  /\ twice \in [Link -> SUBSET Nat]
  /\ rejected \in [Link -> SUBSET Nat]
  /\ faults \in Nat

Init ==
  /\ log = [n \in Node |-> <<>>]
  /\ base = [n \in Node |-> 0]
  /\ cursor = [l \in Link |-> Absent]
  /\ seen = [l \in Link |-> 0]
  /\ peerStops = [l \in Link |-> 0]
  /\ started = [l \in Link |-> 0]
  /\ pc = [g \in Replicator |-> "none"]
  /\ job = [g \in Replicator |-> NoJob]
  /\ conn = [l \in Link |-> 0]
  /\ dialled = [l \in Link |-> 0]
  /\ broken = [l \in Link |-> FALSE]
  /\ stream = [h \in Handler |-> <<>>]
  /\ rx = [h \in Handler |-> Idle]
  /\ applied = [l \in Link |-> {}]
  /\ twice = [l \in Link |-> {}]
  /\ rejected = [l \in Link |-> {}]
  /\ faults = 0

(***************************************************************************)
(* The log                                                                 *)
(***************************************************************************)

(* The sequence number that the next entry gets, and the oldest retained.  *)
NextSeq(n) == (Len(log[n]) - base[n]) + 1
Earliest(n) == IF NextSeq(n) > Capacity THEN NextSeq(n) - Capacity ELSE 1

(* cond.Broadcast: every replicator of n that waits looks again.           *)
Woken(n) ==
  [g \in Replicator |->
     IF g[1] = n /\ pc[g] = "wait" THEN "check" ELSE pc[g]]

(* A mutation of LogAppend: the replicators are not woken.                 *)
LogAppendSilent(n, op) ==
  /\ log' = [log EXCEPT ![n] = Append(@, op)]
  /\ \E max \in MaxLogs : \A m \in Node : Len(log'[m]) <= max[m]
  /\ UNCHANGED <<base, cursor, sender, network, receiver, faults>>

(* An API call that writes logs what it did.                               *)
LogAppend(n, op) ==
  /\ log' = [log EXCEPT ![n] = Append(@, op)]
  /\ \E max \in MaxLogs : \A m \in Node : Len(log'[m]) <= max[m]
  /\ pc' = Woken(n)
  /\ UNCHANGED <<base, cursor, peerStops, started, job, network, receiver, faults>>

(***************************************************************************)
(* Membership events                                                       *)
(***************************************************************************)

(* A mutation of NotifyJoin: a node takes itself for a peer.               *)
NotifyJoinSelf(n, p) ==
  /\ peerStops[<<n, p>>] = 0
  /\ started[<<n, p>>] < MaxJoins
  /\ started' = [started EXCEPT ![<<n, p>>] = @ + 1]
  /\ peerStops' = [peerStops EXCEPT ![<<n, p>>] = started[<<n, p>>] + 1]
  /\ pc' = [pc EXCEPT ![<<n, p, started[<<n, p>>] + 1>>] = "check"]
  /\ UNCHANGED <<log, base, cursor, job, network, receiver, faults>>

(* startPeerReplicator: nothing happens if one is running for the peer.    *)
NotifyJoin(n, p) ==
  /\ n # p
  /\ peerStops[<<n, p>>] = 0
  /\ started[<<n, p>>] < MaxJoins
  /\ started' = [started EXCEPT ![<<n, p>>] = @ + 1]
  /\ peerStops' = [peerStops EXCEPT ![<<n, p>>] = started[<<n, p>>] + 1]
  /\ pc' = [pc EXCEPT ![<<n, p, started[<<n, p>>] + 1>>] = "check"]
  /\ UNCHANGED <<log, base, cursor, job, network, receiver, faults>>

(* The broadcast of stopPeerReplicator, which does not hold the log's      *)
(* mutex: the one replicator that does may be between its test of the stop *)
(* channel and Wait, and is not woken.                                     *)
WokenUnlocked(n) ==
  {Woken(n)} \cup
  {[Woken(n) EXCEPT ![g] = "wait"] :
     g \in {h \in Replicator : h[1] = n /\ pc[h] = "wait"}}

(* CloseConn, then stopPeerReplicator.  What was written to the connection *)
(* before it was closed still arrives.                                     *)
NotifyLeave(n, p) ==
  /\ peerStops[<<n, p>>] # 0
  /\ faults < MaxFaults /\ dialled[<<n, p>>] < MaxConns
  /\ faults' = faults + 1
  /\ conn' = [conn EXCEPT ![<<n, p>>] = 0]
  /\ broken' = [broken EXCEPT ![<<n, p>>] = FALSE]
  /\ peerStops' = [peerStops EXCEPT ![<<n, p>>] = 0]
  /\ pc' \in WokenUnlocked(n)
  /\ cursor' = [cursor EXCEPT ![<<n, p>>] = Absent]
  /\ UNCHANGED <<log, base, started, job, dialled, stream, receiver>>

(***************************************************************************)
(* The replicator (peerReplicatorLoop and replicateToPeer)                 *)
(***************************************************************************)

(* Where replication to p resumes.  Without an entry in peerSeqs, it is    *)
(* the last sequence number that n has recorded FROM p.                    *)
LastSeq(n, p) ==
  IF cursor[<<n, p>>] # Absent THEN cursor[<<n, p>>] ELSE seen[<<n, p>>]

(* The wait loop, which holds the log's mutex: return if stopped, go on if *)
(* there is something to send, otherwise wait for a broadcast.             *)
CheckStop(n, p, i) ==
  /\ pc[<<n, p, i>>] = "check"
  /\ peerStops[<<n, p>>] # i
  /\ pc' = [pc EXCEPT ![<<n, p, i>>] = "done"]
  /\ UNCHANGED <<log, base, cursor, peerStops, started, job, network, receiver, faults>>

CheckData(n, p, i) ==
  /\ pc[<<n, p, i>>] = "check"
  /\ peerStops[<<n, p>>] = i
  /\ NextSeq(n) > LastSeq(n, p) + 1
  /\ pc' = [pc EXCEPT ![<<n, p, i>>] = "load"]
  /\ UNCHANGED <<log, base, cursor, peerStops, started, job, network, receiver, faults>>

CheckWait(n, p, i) ==
  /\ pc[<<n, p, i>>] = "check"
  /\ peerStops[<<n, p>>] = i
  /\ ~(NextSeq(n) > LastSeq(n, p) + 1)
  /\ pc' = [pc EXCEPT ![<<n, p, i>>] = "wait"]
  /\ UNCHANGED <<log, base, cursor, peerStops, started, job, network, receiver, faults>>

(* A mutation of BatchSizes: a batch may be empty.                         *)
BatchSizesFromZero(n, first) ==
  {k \in 0..BatchLimit : first + k - 1 < NextSeq(n)}

(* The number of entries that GetEntriesRaw returns from first on; it also *)
(* depends on their sizes, which are left out.                             *)
BatchSizes(n, first) == {k \in 1..BatchLimit : first + k - 1 < NextSeq(n)}

(* peerSeqs.LoadOrStore.                                                   *)
Load(n, p, i) ==
  /\ pc[<<n, p, i>>] = "load"
  /\ cursor' = [cursor EXCEPT ![<<n, p>>] = LastSeq(n, p)]
  /\ job' = [job EXCEPT ![<<n, p, i>>] = [NoJob EXCEPT !.last = LastSeq(n, p)]]
  /\ pc' = [pc EXCEPT ![<<n, p, i>>] = "read"]
  /\ UNCHANGED <<log, base, peerStops, started, network, receiver, faults>>

(* GetEntriesRaw.  A handshake may have moved the cursor between the check *)
(* and Load, so there may be nothing to send.                              *)
Read(n, p, i) ==
  LET last  == job[<<n, p, i>>].last
      first == IF last + 1 < Earliest(n) THEN Earliest(n) ELSE last + 1
  IN  /\ pc[<<n, p, i>>] = "read"
      /\ \/ /\ BatchSizes(n, first) = {}
            /\ job' = [job EXCEPT ![<<n, p, i>>] = NoJob]
            /\ pc' = [pc EXCEPT ![<<n, p, i>>] = "check"]
         \/ /\ \E k \in BatchSizes(n, first) :
                 job' = [job EXCEPT ![<<n, p, i>>] =
                   [last |-> last, lo |-> first, hi |-> first + k - 1, hs |-> 0]]
            /\ pc' = [pc EXCEPT ![<<n, p, i>>] = "ask"]
      /\ UNCHANGED <<log, base, cursor, peerStops, started, network, receiver, faults>>

(* lastSeenRemote, for the handshake, is read here and may be out of date  *)
(* when it is sent.                                                        *)
Ask(n, p, i) ==
  /\ pc[<<n, p, i>>] = "ask"
  /\ job' = [job EXCEPT ![<<n, p, i>>].hs = seen[<<n, p>>]]
  /\ pc' = [pc EXCEPT ![<<n, p, i>>] = "send"]
  /\ UNCHANGED <<log, base, cursor, peerStops, started, network, receiver, faults>>

(* SendBatch succeeds: the batch is in the connection's send buffer.  A    *)
(* connection is dialled if there is none, and its first batch carries the *)
(* handshake: the last sequence number recorded from p.                    *)
Send(n, p, i) ==
  /\ pc[<<n, p, i>>] = "send"
  /\ ~broken[<<n, p>>]
  /\ LET new == conn[<<n, p>>] = 0
         c   == IF new THEN dialled[<<n, p>>] + 1 ELSE conn[<<n, p>>]
     IN  /\ c \in Conn
         /\ conn' = [conn EXCEPT ![<<n, p>>] = c]
         /\ dialled' = [dialled EXCEPT ![<<n, p>>] = IF new THEN c ELSE @]
         /\ stream' = [stream EXCEPT ![<<n, p, c>>] = Append(@,
               [base |-> base[n],
                hs |-> IF new THEN job[<<n, p, i>>].hs ELSE Absent,
                lo |-> job[<<n, p, i>>].lo, hi |-> job[<<n, p, i>>].hi])]
  /\ pc' = [pc EXCEPT ![<<n, p, i>>] = "store"]
  /\ UNCHANGED <<log, base, cursor, peerStops, started, job, broken, receiver, faults>>

(* SendBatch succeeds on a connection that no longer reaches the peer.     *)
SendLost(n, p, i) ==
  /\ pc[<<n, p, i>>] = "send"
  /\ broken[<<n, p>>]
  /\ pc' = [pc EXCEPT ![<<n, p, i>>] = "store"]
  /\ UNCHANGED <<log, base, cursor, peerStops, started, job, network, receiver, faults>>

(* A mutation of SendFail: the cursor advances although the send failed.   *)
SendFailAdvances(n, p, i) ==
  /\ pc[<<n, p, i>>] = "send"
  /\ faults < MaxFaults /\ dialled[<<n, p>>] < MaxConns
  /\ faults' = faults + 1
  /\ conn' = [conn EXCEPT ![<<n, p>>] = 0]
  /\ broken' = [broken EXCEPT ![<<n, p>>] = FALSE]
  /\ pc' = [pc EXCEPT ![<<n, p, i>>] = "store"]
  /\ UNCHANGED <<log, base, cursor, peerStops, started, job, dialled, stream, receiver>>

(* SendBatch fails: the dial, or the write within the 5 seconds allowed.   *)
(* The connection is closed and forgotten, a part of the batch that was    *)
(* written is not decoded, and the loop tries again.                       *)
SendFail(n, p, i) ==
  /\ pc[<<n, p, i>>] = "send"
  /\ faults < MaxFaults /\ dialled[<<n, p>>] < MaxConns
  /\ faults' = faults + 1
  /\ conn' = [conn EXCEPT ![<<n, p>>] = 0]
  /\ broken' = [broken EXCEPT ![<<n, p>>] = FALSE]
  /\ pc' = [pc EXCEPT ![<<n, p, i>>] = "check"]
  /\ job' = [job EXCEPT ![<<n, p, i>>] = NoJob]
  /\ UNCHANGED <<log, base, cursor, peerStops, started, dialled, stream, receiver>>

(* "Only advance on success".                                              *)
StoreCursor(n, p, i) ==
  /\ pc[<<n, p, i>>] = "store"
  /\ cursor' = [cursor EXCEPT ![<<n, p>>] =
        job[<<n, p, i>>].last + (job[<<n, p, i>>].hi - job[<<n, p, i>>].lo + 1)]
  /\ pc' = [pc EXCEPT ![<<n, p, i>>] = "check"]
  /\ job' = [job EXCEPT ![<<n, p, i>>] = NoJob]
  /\ UNCHANGED <<log, base, peerStops, started, network, receiver, faults>>

(* StreamClient.janitor closes a connection that has been idle.            *)
CloseIdle(n, p) ==
  /\ conn[<<n, p>>] # 0
  /\ dialled[<<n, p>>] < MaxConns
  /\ \A i \in Inc : pc[<<n, p, i>>] # "send"
  /\ conn' = [conn EXCEPT ![<<n, p>>] = 0]
  /\ broken' = [broken EXCEPT ![<<n, p>>] = FALSE]
  /\ UNCHANGED <<log, base, cursor, sender, dialled, stream, receiver, faults>>

(***************************************************************************)
(* The handler that p runs for connection c of n (handleConn)              *)
(***************************************************************************)

(* A batch is decoded, and its handshake moves p's own cursor for n.  No   *)
(* replicator is woken.                                                    *)
Receive(n, p, c) ==
  /\ stream[<<n, p, c>>] # <<>>
  /\ rx[<<n, p, c>>] = Idle
  /\ LET b == Head(stream[<<n, p, c>>])
     IN  /\ cursor' = IF b.hs = Absent THEN cursor
                      ELSE [cursor EXCEPT ![<<p, n>>] = b.hs]
         /\ rx' = [rx EXCEPT ![<<n, p, c>>] =
                   [base |-> b.base, lo |-> b.lo, hi |-> b.hi]]
  /\ stream' = [stream EXCEPT ![<<n, p, c>>] = Tail(@)]
  /\ UNCHANGED <<log, base, sender, conn, dialled, broken, seen, applied, twice,
                 rejected, faults>>

(* The number of the entry that the handler is at, the place of the entry  *)
(* in all that n has logged, and the handler after it.                     *)
Current(n, p, c) == rx[<<n, p, c>>].lo
Place(n, p, c) == rx[<<n, p, c>>].base + Current(n, p, c)
Advanced(n, p, c) ==
  [rx EXCEPT ![<<n, p, c>>] =
     IF @.lo = @.hi THEN Idle ELSE [@ EXCEPT !.lo = Current(n, p, c) + 1]]

(* Set and Delete log their entries without a NodeID, so updatePeerSeq     *)
(* does not count them for the node they come from.                        *)
HasNodeID(op) == op \in {"incr", "metric", "window"}

(* applyRemoteEntry                                                        *)
ApplyEntry(n, p, c) ==
  LET s == Current(n, p, c)
      e == Place(n, p, c)
  IN  /\ rx[<<n, p, c>>] # Idle
      /\ twice' = IF e \in applied[<<p, n>>]
                  THEN [twice EXCEPT ![<<p, n>>] = @ \cup {e}] ELSE twice
      /\ applied' = [applied EXCEPT ![<<p, n>>] = @ \cup {e}]
      /\ seen' = IF HasNodeID(log[n][e]) /\ s > seen[<<p, n>>]
                 THEN [seen EXCEPT ![<<p, n>>] = s] ELSE seen
      /\ rx' = Advanced(n, p, c)
      /\ UNCHANGED <<log, base, cursor, sender, network, rejected, faults>>

(* applyRemoteEntry when hlc.Update refuses the entry's timestamp.         *)
RejectEntry(n, p, c) ==
  /\ rx[<<n, p, c>>] # Idle
  /\ faults < MaxFaults
  /\ faults' = faults + 1
  /\ rejected' = [rejected EXCEPT ![<<p, n>>] = @ \cup {Place(n, p, c)}]
  /\ rx' = Advanced(n, p, c)
  /\ UNCHANGED <<log, base, cursor, sender, network, seen, applied, twice>>

(***************************************************************************)
(* Failures                                                                *)
(***************************************************************************)

(* The connection breaks, or the peer's handler stops reading it (it reads *)
(* no more than 100 MB of a connection).  Batches not yet received, from   *)
(* some point on, are lost, and n has not been told.                       *)
BreakConn(n, p) ==
  /\ conn[<<n, p>>] # 0 /\ ~broken[<<n, p>>]
  /\ faults < MaxFaults
  /\ faults' = faults + 1
  /\ broken' = [broken EXCEPT ![<<n, p>>] = TRUE]
  /\ \E k \in 0..Len(stream[<<n, p, conn[<<n, p>>]>>]) :
       stream' = [stream EXCEPT ![<<n, p, conn[<<n, p>>]>>] = SubSeq(@, 1, k)]
  /\ UNCHANGED <<log, base, cursor, sender, conn, dialled, receiver>>

(* Node n stops and starts again with an empty log and no peerSeqs; the    *)
(* entries of store.peerSeqs do not survive in the database either.  Its   *)
(* handlers are gone, with what was on its way to them.  Its peers' are    *)
(* not: they go on with what n had sent, until they find that the          *)
(* connection has ended.  What they have recorded in store.peerSeqs stays. *)
Restart(n) ==
  LET From(x) == x[1] = n
      To(x)   == x[2] = n
  IN  /\ faults < MaxFaults
      /\ faults' = faults + 1
      /\ base' = [base EXCEPT ![n] = Len(log[n])]
      /\ cursor' = [l \in Link |-> IF From(l) THEN Absent ELSE cursor[l]]
      /\ seen' = [l \in Link |-> IF From(l) THEN 0 ELSE seen[l]]
      /\ peerStops' = [l \in Link |-> IF From(l) THEN 0 ELSE peerStops[l]]
      /\ pc' = [g \in Replicator |->
                  IF From(g) /\ pc[g] # "none" THEN "done" ELSE pc[g]]
      /\ job' = [g \in Replicator |-> IF From(g) THEN NoJob ELSE job[g]]
      /\ conn' = [l \in Link |-> IF From(l) THEN 0 ELSE conn[l]]
      /\ broken' = [l \in Link |-> /\ ~From(l)
                                   /\ broken[l] \/ (To(l) /\ conn[l] # 0)]
      /\ stream' = [h \in Handler |-> IF To(h) THEN <<>> ELSE stream[h]]
      /\ rx' = [h \in Handler |-> IF To(h) THEN Idle ELSE rx[h]]
      /\ UNCHANGED <<log, started, dialled, applied, twice, rejected>>

(***************************************************************************)
(* Specifications                                                          *)
(***************************************************************************)
Check(n, p, i) == CheckStop(n, p, i) \/ CheckData(n, p, i) \/ CheckWait(n, p, i)

Replicate(n, p, i) ==
  \/ Check(n, p, i)
  \/ Load(n, p, i) \/ Read(n, p, i) \/ Ask(n, p, i)
  \/ Send(n, p, i) \/ StoreCursor(n, p, i)

(* Steps of a cluster in which sends may fail and are retried and entries  *)
(* may be refused, but no batch is lost, no node leaves and none restarts. *)
Next ==
  \/ \E n \in Node, op \in Ops : LogAppend(n, op)
  \/ \E n, p \in Node : NotifyJoin(n, p)
  \/ \E n, p \in Node, i \in Inc : Replicate(n, p, i)
  \/ \E n, p \in Node, i \in Inc : SendFail(n, p, i)
  \/ \E n, p \in Node : CloseIdle(n, p)
  \/ \E n, p \in Node, c \in Conn : Receive(n, p, c)
  \/ \E n, p \in Node, c \in Conn : ApplyEntry(n, p, c)
  \/ \E n, p \in Node, c \in Conn : RejectEntry(n, p, c)

(* The failures that lose something.                                       *)
Break ==
  \/ \E n, p \in Node : BreakConn(n, p)
  \/ \E n, p \in Node, i \in Inc : SendLost(n, p, i)
Leave == \E n, p \in Node : NotifyLeave(n, p)
Reboot == \E n \in Node : Restart(n)

(* Goroutines that can run do run, batches that were sent are received,    *)
(* and memberlist tells every node of every other one.  Nobody has to      *)
(* write, and no connection has to be idle or fail.                        *)
Fairness ==
  \A n, p \in Node : n # p =>
    /\ WF_vars(NotifyJoin(n, p))
    /\ \A i \in Inc : WF_vars(Replicate(n, p, i) \/ SendLost(n, p, i))
    /\ \A c \in Conn : WF_vars(Receive(n, p, c) \/ ApplyEntry(n, p, c))

Spec == Init /\ [][Next]_vars
FailureSpec == Init /\ [][Next \/ Break \/ Leave \/ Reboot]_vars

FairSpec == Spec /\ Fairness
FairLeaveSpec == Init /\ [][Next \/ Leave]_vars /\ Fairness

(***************************************************************************)
(* Properties                                                              *)
(***************************************************************************)

Entries == UNION {1..max[n] : max \in MaxLogs, n \in Node}

(* What has become of entry s of n's present log on its way to p.          *)
Handled(n, p, s) == base[n] + s \in applied[<<p, n>>] \cup rejected[<<p, n>>]

Holds(n, b, s) == b.base = base[n] /\ s \in b.lo..b.hi

OnConn(n, p, c, s) ==
  \/ Holds(n, rx[<<n, p, c>>], s)
  \/ \E j \in 1..Len(stream[<<n, p, c>>]) : Holds(n, stream[<<n, p, c>>][j], s)

InFlight(n, p, s) == \E c \in Conn : OnConn(n, p, c, s)

Overwritten(n, s) == s < Earliest(n)

Accounted(n, p, s) == Handled(n, p, s) \/ InFlight(n, p, s) \/ Overwritten(n, s)

Covered(n, p, k) == \A s \in 1..k : Accounted(n, p, s)

(* The cursor of n for p, "Last replicated Seq", is never ahead of what    *)
(* was replicated: every entry up to it has been handled by p, is on its   *)
(* way, or was overwritten in the log before it could be sent; also when   *)
(* handshakes from p move the cursor while a batch is being sent, sends    *)
(* fail and are retried, and connections are replaced.                     *)
NoGap == \A n, p \in Node : Covered(n, p, cursor[<<n, p>>])

(* What p has handled of all that n has logged.                            *)
handled == [l \in Link |-> applied[l] \cup rejected[l]]

D == INSTANCE Delivery WITH Node <- Node, Ops <- Ops, log <- log, handled <- handled

(* Whatever fails, replication keeps the promise that the data types are   *)
(* built on: what a node handles is an entry that another one has logged,  *)
(* if perhaps before its last restart, and it stays handled.               *)
ImplementsDelivery == D!Spec

(* Every entry that a node logs is eventually handled by every other node, *)
(* unless the log forgets it first: it is overwritten, or a restart        *)
(* empties the log.                                                        *)
AllDelivered ==
  \A n, p \in Node, s \in Entries :
    n # p => (s < NextSeq(n)) ~>
               (Handled(n, p, s) \/ Overwritten(n, s) \/ s >= NextSeq(n))

(* A metric entry is applied once: IncrementMetric logs an amount to add,  *)
(* and applying it again adds it again.                                    *)
MetricOnce ==
  \A n, p \in Node : \A e \in twice[<<p, n>>] : log[n][e] # "metric"

(***************************************************************************)
(* The inductive invariant behind ImplementsDelivery: what a replicator is *)
(* about to send, is on its way, or is being applied, was logged by its    *)
(* origin, and comes from another node.                                    *)
(***************************************************************************)
Logged(n, p, from, b) == n # p /\ 1 <= b.lo /\ from + b.hi <= Len(log[n])
InLog(n, p, b) == Logged(n, p, b.base, b)

OnlyLogged ==
  \A n, p \in Node :
    /\ \A i \in Inc :
         /\ pc[<<n, p, i>>] # "none" => n # p
         /\ pc[<<n, p, i>>] \in {"ask", "send"} =>
              Logged(n, p, base[n], job[<<n, p, i>>])
    /\ \A c \in Conn :
         /\ rx[<<n, p, c>>] # Idle => InLog(n, p, rx[<<n, p, c>>])
         /\ \A j \in 1..Len(stream[<<n, p, c>>]) :
              InLog(n, p, stream[<<n, p, c>>][j])

DeliveryInv == TypeOK /\ OnlyLogged

(***************************************************************************)
(* The inductive invariant behind NoGap: whatever may become the cursor of *)
(* n for p is covered.                                                     *)
(***************************************************************************)

(* What p has recorded of n's log, and the handshakes that carry it to n.  *)
RecordsCovered ==
  \A n, p \in Node :
    /\ Covered(n, p, seen[<<p, n>>])
    /\ \A c \in Conn : \A j \in 1..Len(stream[<<p, n, c>>]) :
         Covered(n, p, stream[<<p, n, c>>][j].hs)

(* The batches on their way: p may record any of their entries.            *)
BatchesCovered ==
  \A n, p \in Node, c \in Conn :
    /\ Covered(n, p, rx[<<n, p, c>>].hi)
    /\ \A j \in 1..Len(stream[<<n, p, c>>]) : Covered(n, p, stream[<<n, p, c>>][j].hi)

(* The batch that a replicator is about to send or has just sent.          *)
JobsCovered ==
  \A n, p \in Node, i \in Inc :
    /\ pc[<<n, p, i>>] = "read"  => Covered(n, p, job[<<n, p, i>>].last)
    /\ pc[<<n, p, i>>] \in {"ask", "send"} => Covered(n, p, job[<<n, p, i>>].lo - 1)
    /\ pc[<<n, p, i>>] = "send"  => Covered(p, n, job[<<n, p, i>>].hs)
    /\ pc[<<n, p, i>>] = "store" => Covered(n, p, job[<<n, p, i>>].hi)
    /\ pc[<<n, p, i>>] \in {"ask", "send", "store"} =>
         job[<<n, p, i>>].last + 1 <= job[<<n, p, i>>].lo

(* What is on connection c from n to p before p has received anything on   *)
(* it: its first batch carries a handshake.                                *)
FreshConn(n, p, c) ==
  /\ rx[<<n, p, c>>] = Idle
  /\ c > dialled[<<n, p>>] => stream[<<n, p, c>>] = <<>>
  /\ c <= dialled[<<n, p>>] =>
       stream[<<n, p, c>>] # <<>> /\ stream[<<n, p, c>>][1].hs # Absent

(* As long as n has no cursor for p it has recorded nothing from p either, *)
(* because every connection begins with a handshake: that is why LastSeq   *)
(* may mix the two up.                                                     *)
HandshakeFirst ==
  \A n, p \in Node :
    /\ conn[<<n, p>>] <= dialled[<<n, p>>]
    /\ cursor[<<n, p>>] = Absent =>
         seen[<<n, p>>] = 0 /\ \A c \in Conn : FreshConn(p, n, c)

ReplicationInv ==
  /\ TypeOK
  /\ NoGap
  /\ RecordsCovered
  /\ BatchesCovered
  /\ JobsCovered
  /\ HandshakeFirst
=============================================================================
