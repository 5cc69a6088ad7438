--------------------------- MODULE MCCreditsHolds ---------------------------
(* Small instances of CreditsHolds for TLC. *)
EXTENDS CreditsHolds, TLC

CONSTANTS c1, c2

\* Both calls cost 2, so a balance of 3 is enough for one of them only.
MCPrice == [c \in Calls |-> 2]

Symmetry == Permutations(Calls) \cup Permutations(Servers)
=============================================================================
