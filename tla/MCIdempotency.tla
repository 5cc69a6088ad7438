---------------------------- MODULE MCIdempotency ----------------------------
(* Copies of one call, two on one process and one on another. *)
EXTENDS Idempotency, TLC

CONSTANTS c1, c2, c3, p1, p2

Two == c1 :> p1 @@ c2 :> p2
TwoAndOne == Two @@ c3 :> p1
=============================================================================
