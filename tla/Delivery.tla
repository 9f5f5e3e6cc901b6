------------------------------ MODULE Delivery ------------------------------
(***************************************************************************)
(* What replication promises, as little as the data types may rely on:     *)
(* each node has a log, and entries of it are handled by the other nodes,  *)
(* in any order, some of them perhaps never, and perhaps again (a step     *)
(* that changes nothing).  The entries are those that were logged, and a   *)
(* node is not sent its own.  What a node logged before it was restarted   *)
(* may still be handled afterwards.                                        *)
(*                                                                         *)
(* Registers, Counters, Metrics and Windows are modelled on top of this;   *)
(* Replication implements it.                                              *)
(***************************************************************************)
EXTENDS Naturals, Sequences

CONSTANTS Node,
          Ops      \* the operations logged

VARIABLES log,     \* [n]: the operations n has ever logged
          handled  \* [p, n]: the numbers of n's entries that p has handled

vars == <<log, handled>>

Init ==
  /\ log = [n \in Node |-> <<>>]
  /\ handled = [l \in Node \X Node |-> {}]

Write(n, op) ==
  /\ log' = [log EXCEPT ![n] = Append(@, op)]
  /\ UNCHANGED handled

Handle(p, n, s) ==
  /\ p # n
  /\ handled' = [handled EXCEPT ![<<p, n>>] = @ \cup {s}]
  /\ UNCHANGED log

Next ==
  \/ \E n \in Node, op \in Ops : Write(n, op)
  \/ \E p, n \in Node : \E s \in 1..Len(log[n]) : Handle(p, n, s)

Spec == Init /\ [][Next]_vars
=============================================================================
