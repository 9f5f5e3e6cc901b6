------------------------------ MODULE MCStore ------------------------------
(***************************************************************************)
(* An instance of Store for TLC: two shards, with a register and the       *)
(* sequence number of a peer in one, a counter and a window in the other,  *)
(* and a counter whose name has a colon, which is loaded as another.       *)
(***************************************************************************)
EXTENDS Store, TLC

CONSTANTS r, c, m, w, q

Keyed == r :> "register" @@ c :> "counter" @@ m :> "counter" @@ w :> "window" @@ q :> "seq"

(* A register's key has a colon, as in the documentation.                  *)
Names == r :> <<"user", "1">> @@ c :> <<"hits">> @@ m :> <<"page", "1">>
           @@ w :> <<"rate">> @@ q :> <<"peer">>

Hashes == "page" :> 2 @@ "user" :> 2 @@ "1" :> 1 @@ "hits" :> 2 @@ "rate" :> 2 @@ "peer" :> 1
            @@ "seq" :> 1 @@ "c" :> 1 @@ "sw" :> 1 @@ "meta" :> 2
=============================================================================
