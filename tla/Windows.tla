------------------------------ MODULE Windows ------------------------------
(***************************************************************************)
(* The sliding windows: what IncrementSlidingWindow of capacitor.go, the   *)
(* store's incrementSlidingWindow, addWindowTimestamp and janitor do to    *)
(* one key on every node.  A window is a list of the physical parts of     *)
(* timestamps.  A call takes its timestamp, then the shard's lock, then    *)
(* the log's, so it is three steps, and by the time it appends to the list *)
(* other calls, or entries of peers, may have put later timestamps there.  *)
(*                                                                         *)
(* An entry in a log may reach a peer at any time, in any order and any    *)
(* number of times: that is what Replication allows.                       *)
(***************************************************************************)
EXTENDS HLC, Sequences, FiniteSetsExt

CONSTANTS Node,
          Client,     \* the goroutines that call IncrementSlidingWindow
          Home,       \* [Client -> the node it calls]
          Durations,  \* the window arguments
          Stale,      \* pruneStaleWindows' threshold; an hour
          Skew,       \* [Node -> how far its wall clock is ahead]
          MaxOffset,  \* HLC.maxOffset
          MaxNow,     \* bound: time
          MaxCalls,   \* bound: calls in a behaviour
          MaxApplies  \* bound: entries applied in a behaviour

ASSUME WindowsAssumption ==
  /\ Home \in [Client -> Node]
  /\ Durations \subseteq Nat /\ Stale \in Nat
  /\ Skew \in [Node -> Nat] /\ MaxOffset \in Nat
  /\ MaxNow \in Nat /\ MaxCalls \in Nat /\ MaxApplies \in Nat

VARIABLES now,       \* real time
          clock,     \* [Node -> Timestamp]
          windows,   \* [Node -> shard.windows, empty if it has no entry]
          call,      \* [Client -> where its call is]
          log,       \* [Node -> the events in its DeltaLog]
          incoming,  \* [Node -> entries between hlc.Update and the store]
          events,    \* [Node -> the events its store was given]
          returned,  \* what the last call returned
          calls, applies

vars == <<now, clock, windows, call, log, incoming, events, returned, calls,
          applies>>

Wall(n) == now + Skew[n]

(* An event is known by the call that made it.                             *)
Event == [id : Nat, ts : Timestamp]
Idle == [pc |-> "idle", e |-> [id |-> 0, ts |-> [p |-> 0, l |-> 0]]]
NoCount == [count |-> 0, active |-> 0]

TypeOK ==
  /\ now \in 0..MaxNow
  /\ clock \in [Node -> Timestamp]
  /\ windows \in [Node -> Seq(Nat)]
  /\ call \in [Client -> [pc : {"idle", "insert", "append"}, e : Event]]
  /\ log \in [Node -> SUBSET Event]
  /\ incoming \in [Node -> SUBSET Event]
  /\ events \in [Node -> SUBSET Event]
  /\ returned \in [count : Nat, active : Nat]
  /\ calls \in 0..MaxCalls /\ applies \in 0..MaxApplies

Init ==
  /\ now = 0
  /\ clock = [n \in Node |-> [p |-> Skew[n], l |-> 0]]
  /\ windows = [n \in Node |-> <<>>]
  /\ call = [c \in Client |-> Idle]
  /\ log = [n \in Node |-> {}]
  /\ incoming = [n \in Node |-> {}]
  /\ events = [n \in Node |-> {}]
  /\ returned = NoCount
  /\ calls = 0 /\ applies = 0

Tick ==
  /\ now < MaxNow
  /\ now' = now + 1
  /\ UNCHANGED <<clock, windows, call, log, incoming, events, returned, calls,
                 applies>>

(***************************************************************************)
(* IncrementSlidingWindow                                                  *)
(***************************************************************************)

(* hlc.Now()                                                               *)
Begin(c) ==
  LET n  == Home[c]
      ts == Now(clock[n], Wall(n))
  IN  /\ call[c] = Idle
      /\ calls < MaxCalls
      /\ calls' = calls + 1
      /\ clock' = [clock EXCEPT ![n] = ts]
      /\ call' = [call EXCEPT ![c] =
                    [pc |-> "insert", e |-> [id |-> calls + 1, ts |-> ts]]]
      /\ UNCHANGED <<now, windows, log, incoming, events, returned, applies>>

Active(win, horizon) == Cardinality({i \in 1..Len(win) : win[i] >= horizon})

(* As many timestamps as have left the window are cut off the list, from   *)
(* its front.                                                              *)
Cut(win, horizon) == SubSeq(win, Len(win) - Active(win, horizon) + 1, Len(win))

(* store.incrementSlidingWindow.  active is the count that is due: of the  *)
(* events that the store was given, those within the window.               *)
IncrementWindow(c, duration) ==
  LET n == Home[c]
      win == Append(windows[n], call[c].e.ts.p)
      horizon == Wall(n) - duration
      known == events[n] \cup {call[c].e}
  IN  /\ call[c].pc = "insert"
      /\ windows' = [windows EXCEPT ![n] = Cut(win, horizon)]
      /\ events' = [events EXCEPT ![n] = known]
      /\ returned' = [count |-> Active(win, horizon),
                      active |-> Cardinality({e \in known : e.ts.p >= horizon})]
      /\ call' = [call EXCEPT ![c] = [@ EXCEPT !.pc = "append"]]
      /\ UNCHANGED <<now, clock, log, incoming, calls, applies>>

LogAppend(c) ==
  /\ call[c].pc = "append"
  /\ log' = [log EXCEPT ![Home[c]] = @ \cup {call[c].e}]
  /\ call' = [call EXCEPT ![c] = Idle]
  /\ UNCHANGED <<now, clock, windows, incoming, events, returned, calls, applies>>

(***************************************************************************)
(* applyRemoteEntry and the janitor                                        *)
(***************************************************************************)

(* "Insert ts at index idx": the timestamps from there on move up by one.  *)
InsertedAt(win, idx, ts) ==
  SubSeq(win, 1, idx - 1) \o <<ts>> \o SubSeq(win, idx, Len(win))

(* Mutations of Inserted: the age of an event is kept, instead of its      *)
(* time; a timestamp received again is added again.                        *)
InsertedAge(win, ts) == Append(win, ts - now)
InsertedAgain(win, ts) ==
  LET later == {i \in 1..Len(win) : win[i] > ts}
      idx   == IF later = {} THEN Len(win) + 1 ELSE Min(later)
  IN  InsertedAt(win, idx, ts)

(* store.addWindowTimestamp: the list is searched for ts up to the first   *)
(* timestamp that is later, and ts goes in front of that one.              *)
Inserted(win, ts) ==
  LET later == {i \in 1..Len(win) : win[i] > ts}
      idx   == IF later = {} THEN Len(win) + 1 ELSE Min(later)
  IN  IF \E i \in 1..idx - 1 : win[i] = ts THEN win ELSE InsertedAt(win, idx, ts)

(* hlc.Update at p for an entry of a peer's log.  An entry that Update     *)
(* refuses is dropped, which changes nothing.                              *)
UpdateClock(p, e) ==
  /\ applies < MaxApplies
  /\ applies' = applies + 1
  /\ ~ClockSmash(Wall(p), MaxOffset, e.ts)
  /\ clock' = [clock EXCEPT ![p] = Update(@, Wall(p), e.ts)]
  /\ incoming' = [incoming EXCEPT ![p] = @ \cup {e}]
  /\ UNCHANGED <<now, windows, call, log, events, returned, calls>>

ApplyEntry(p, e) ==
  /\ e \in incoming[p]
  /\ incoming' = [incoming EXCEPT ![p] = @ \ {e}]
  /\ windows' = [windows EXCEPT ![p] = Inserted(@, e.ts.p)]
  /\ events' = [events EXCEPT ![p] = @ \cup {e}]
  /\ UNCHANGED <<now, clock, call, log, returned, calls, applies>>

(* "If newest timestamp is older than threshold, delete the window".       *)
PruneStaleWindows(n) ==
  /\ windows[n] # <<>>
  /\ Wall(n) - windows[n][Len(windows[n])] > Stale
  /\ windows' = [windows EXCEPT ![n] = <<>>]
  /\ UNCHANGED <<now, clock, call, log, incoming, events, returned, calls,
                 applies>>

Next ==
  \/ Tick
  \/ \E c \in Client : Begin(c)
  \/ \E c \in Client, duration \in Durations : IncrementWindow(c, duration)
  \/ \E c \in Client : LogAppend(c)
  \/ \E n, p \in Node : n # p /\ \E e \in log[n] : UpdateClock(p, e)
  \/ \E p \in Node : \E e \in incoming[p] : ApplyEntry(p, e)
  \/ \E n \in Node : PruneStaleWindows(n)

Spec == Init /\ [][Next]_vars

(***************************************************************************)
(* Properties                                                              *)
(***************************************************************************)

(* No event is counted twice: a call never returns more than the number of *)
(* events within its window that the node has been given, however often    *)
(* and in whatever order the entries of peers arrive, and although calls   *)
(* leave the list unsorted in which addWindowTimestamp looks for them.     *)
NoDoubleCount == returned.count <= returned.active

(* "returns the count of active occurrences within the rolling window      *)
(* duration".                                                              *)
CountsActive == returned.count = returned.active

(***************************************************************************)
(* The inductive invariant behind NoDoubleCount.                         *)
(***************************************************************************)

(* Events are numbered by the calls.                                       *)
Numbered ==
  /\ \A c \in Client : call[c].pc # "idle" => call[c].e.id <= calls
  /\ \A n \in Node :
       /\ IsFiniteSet(events[n])
       /\ \A e \in log[n] \cup incoming[n] \cup events[n] : e.id <= calls

(* The event of a call in progress is nobody else's, and no other node has *)
(* heard of it.                                                            *)
Pending ==
  \A c \in Client : call[c].pc # "idle" =>
    /\ \A d \in Client \ {c} : call[d].pc # "idle" => call[c].e # call[d].e
    /\ \A n \in Node :
         /\ call[c].e \notin log[n] \cup incoming[n]
         /\ call[c].e \in events[n] => n = Home[c] /\ call[c].pc = "append"

(* The events that n may be sent.                                          *)
Foreign(n) == incoming[n] \cup UNION {log[m] : m \in Node \ {n}}

(* addWindowTimestamp stops its search before it comes to i.               *)
Hidden(win, i) == \E j \in 1..i - 1 : win[j] > win[i]

(* Every element of the list stands for an event of its own, and those     *)
(* that a search may miss for events that are not sent to the node.        *)
StandsFor(win, foreign, a) ==
  /\ \A i, j \in 1..Len(win) : a[i] = a[j] => i = j
  /\ \A i \in 1..Len(win) :
       a[i].ts.p = win[i] /\ (Hidden(win, i) => a[i] \notin foreign)

Attributed ==
  \A n \in Node :
    \E a \in [1..Len(windows[n]) -> events[n]] : StandsFor(windows[n], Foreign(n), a)

WindowsInv == TypeOK /\ Numbered /\ Pending /\ Attributed /\ NoDoubleCount
=============================================================================
