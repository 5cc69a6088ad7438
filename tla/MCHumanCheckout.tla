--------------------------- MODULE MCHumanCheckout ---------------------------
(* Two containers for TLC. *)
EXTENDS HumanCheckout
=============================================================================
