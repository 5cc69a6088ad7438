-------------------------- MODULE MCSettlementClaims --------------------------
(* Three requests in two processes for TLC. *)
EXTENDS SettlementClaims, TLC

CONSTANTS r1, r2, r3, p1, p2

\* Two copies reach one process, the third the other.
TwoAndOne == r1 :> p1 @@ r2 :> p2 @@ r3 :> p1
=============================================================================
