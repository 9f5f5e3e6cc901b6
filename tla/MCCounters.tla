----------------------------- MODULE MCCounters -----------------------------
(***************************************************************************)
(* An instance of Counters and Metrics for TLC: two clients at n1, which   *)
(* are interchangeable, and one at n2.                                     *)
(***************************************************************************)
EXTENDS Metrics, TLC

CONSTANTS n1, n2, c1, c2, c3

Homes == c1 :> n1 @@ c2 :> n1 @@ c3 :> n2

Twins == Permutations({c1, c2})

Amounts == {2, -1}
=============================================================================
