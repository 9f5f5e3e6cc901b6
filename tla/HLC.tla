-------------------------------- MODULE HLC --------------------------------
(***************************************************************************)
(* The hybrid logical clock of hlc.go as functions: what Now and Update    *)
(* compute from the clock, the wall clock they read and, for Update, the   *)
(* timestamp received.  A clock and a timestamp are both a pair of a       *)
(* physical part p (nanoseconds) and a logical part l (an int32).          *)
(***************************************************************************)
EXTENDS Integers

CONSTANT Int32Max   \* the greatest logical part; 2^31 - 1 in the code

ASSUME Int32MaxAssumption == Int32Max \in Nat

Timestamp == [p : Nat, l : Int]

(* h.logical++ on an int32: the successor of the greatest value is the     *)
(* least one.                                                              *)
Inc32(l) == IF l = Int32Max THEN -Int32Max - 1 ELSE l + 1

Larger(a, b) == IF a > b THEN a ELSE b

GreaterOrEqual(t, other) ==
  IF t.p # other.p THEN t.p > other.p ELSE t.l >= other.l

After(t, other) ==
  \/ t.p > other.p
  \/ t.p = other.p /\ t.l > other.l

(* A mutation of Now: a wall clock that stands still is not counted.       *)
NowStands(h, wall) == IF h.p < wall THEN [p |-> wall, l |-> 0] ELSE h

Now(h, wall) ==
  IF h.p < wall
  THEN [p |-> wall, l |-> 0]
  ELSE [p |-> h.p, l |-> Inc32(h.l)]

(* A mutation of ClockSmash: the drift is measured against the timestamp   *)
(* already granted to one tick beyond the limit.                           *)
ClockSmashLate(wall, maxOffset, remote) == remote.p > wall + maxOffset + 1

(* Update returns ErrClockSmash and leaves the clock alone.                *)
ClockSmash(wall, maxOffset, remote) == remote.p > wall + maxOffset

(* A mutation of Update: the branch that adopts the remote physical time   *)
(* starts a new logical count instead of continuing the remote one.        *)
UpdateForgetsRemoteLogical(h, wall, remote) ==
  LET maxPhysical == Larger(Larger(wall, h.p), remote.p)
      logical == IF maxPhysical = h.p /\ maxPhysical = remote.p
                   THEN Inc32(Larger(h.l, remote.l))
                 ELSE IF maxPhysical = h.p THEN Inc32(h.l)
                 ELSE 0
  IN  [p |-> maxPhysical, l |-> logical]

(* The clock after an Update that is not refused.                          *)
Update(h, wall, remote) ==
  LET maxPhysical == Larger(Larger(wall, h.p), remote.p)
      logical == IF maxPhysical = h.p /\ maxPhysical = remote.p
                   THEN Inc32(Larger(h.l, remote.l))
                 ELSE IF maxPhysical = h.p      THEN Inc32(h.l)
                 ELSE IF maxPhysical = remote.p THEN Inc32(remote.l)
                 ELSE 0
  IN  [p |-> maxPhysical, l |-> logical]
=============================================================================
