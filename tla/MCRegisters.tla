---------------------------- MODULE MCRegisters ----------------------------
(***************************************************************************)
(* An instance of Registers for TLC: two clients at n1 and one at n2,      *)
(* whose wall clock is ahead.  A ttl of 3 is one of 2 at the peers, and    *)
(* one of 1 is none.                                                       *)
(***************************************************************************)
EXTENDS Registers, TLC

CONSTANTS n1, n2, c1, c2, c3, x

Clients == c1 :> n1 @@ c2 :> n2 @@ c3 :> n1

Arg(type, ttl) == [val |-> [type |-> type, data |-> x], ttl |-> ttl]
Tombstone == [val |-> None, ttl |-> 0]

Arguments ==
  c1 :> {Arg("definedString", 3), Tombstone} @@
  c2 :> {Arg("struct", 2)} @@
  c3 :> {Arg("chan", 0), Arg("intMap", 1)}

SecondAhead == n1 :> 0 @@ n2 :> 1
=============================================================================
