----------------------------- MODULE MCWindows -----------------------------
(***************************************************************************)
(* Instances of Windows for TLC: two clients at n1 and one at n2.          *)
(***************************************************************************)
EXTENDS Windows, TLC

CONSTANTS n1, n2, c1, c2, c3

Homes == c1 :> n1 @@ c2 :> n1 @@ c3 :> n2

SecondAhead == n1 :> 0 @@ n2 :> 1
=============================================================================
