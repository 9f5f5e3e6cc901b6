--------------------------- MODULE MCReplication ---------------------------
(***************************************************************************)
(* Instances of Replication for TLC: two nodes that replicate to each      *)
(* other.  A pair is enough for what goes wrong between replicators,       *)
(* handlers and handshakes: all state of a link is indexed by its two      *)
(* ends, and only the log and its broadcasts are shared with other links.  *)
(***************************************************************************)
EXTENDS Replication, TLC

CONSTANTS n1, n2

TwoNodes == {n1, n2}
OneWrites == {n1 :> 2 @@ n2 :> 0}
BothWrite == {n1 :> 1 @@ n2 :> 1}
Uneven == {n1 :> 2 @@ n2 :> 1}
OneOrBoth == OneWrites \cup BothWrite
=============================================================================
