----------------------------- MODULE MCDeltaLog -----------------------------
(***************************************************************************)
(* An instance of DeltaLog and WireLog for TLC.                            *)
(***************************************************************************)
EXTENDS WireLog, TLC

(* A Set with a TTL, an IncrementBy with a key and a node ID on both sides *)
(* of the limit of a short header, and a Delete.                           *)
OpSet == [ZeroEntry EXCEPT !.t = [p |-> 2000000000, l |-> 200], !.k = 3, !.v = 300,
                           !.ttl = 60000]
OpIncr == [ZeroEntry EXCEPT !.t = [p |-> 2000000000, l |-> -1], !.ba = 2000000000,
                            !.o = 1, !.k = 31, !.n = 32, !.d = 7]
OpDelete == [ZeroEntry EXCEPT !.t = [p |-> 2000000000, l |-> 0], !.o = 4, !.k = 3]

(* A Set of a value that takes more than its share of data, or more than   *)
(* all of it.                                                              *)
OpLarge == [ZeroEntry EXCEPT !.t = [p |-> 2000000000, l |-> 1], !.k = 3, !.v = 5000]
OpHuge == [ZeroEntry EXCEPT !.t = [p |-> 2000000000, l |-> 1], !.k = 3, !.v = 70000]

Operations == {OpSet, OpIncr, OpDelete, OpLarge, OpHuge}

(* Their bytes: some are encoded in as many as Msgsize() announced, and    *)
(* some in fewer.                                                          *)
Descriptors == OpSet :> [size |-> 4, len |-> 4] @@ OpIncr :> [size |-> 3, len |-> 2]
                 @@ OpDelete :> [size |-> 1, len |-> 1]
                 @@ OpLarge :> [size |-> 7, len |-> 6]
                 @@ OpHuge :> [size |-> 12, len |-> 11]

SmallEntries == {Descriptors[e] : e \in Operations}

Greetings == {Nil, [ls |-> 300, at |-> 0]}
=============================================================================
