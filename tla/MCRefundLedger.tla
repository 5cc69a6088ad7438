---------------------------- MODULE MCRefundLedger ----------------------------
(* Three requests on two containers for TLC. *)
EXTENDS RefundLedger, TLC

CONSTANTS r1, r2, r3, p1, p2

\* A request may be sent again to the other container, or to the same.
Apart == r1 :> p1 @@ r2 :> p2 @@ r3 :> p1
=============================================================================
