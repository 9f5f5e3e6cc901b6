------------------------------ MODULE MCClocks ------------------------------
(***************************************************************************)
(* Instances of Clocks for TLC.  The nodes are interchangeable.            *)
(***************************************************************************)
EXTENDS Clocks, TLC

NodeSymmetry == Permutations(Node)
=============================================================================
