------------------------------- MODULE Totals -------------------------------
(***************************************************************************)
(* The sum of a natural-valued function over a finite set, written as the  *)
(* cardinality of a set of units: value f[x] contributes the f[x] pairs    *)
(* <<x, 1>>, ..., <<x, f[x]>>.  Written this way a sum needs no recursion, *)
(* so facts about sums follow from facts about cardinalities               *)
(* (TotalsTheorems).                                                       *)
(***************************************************************************)
EXTENDS Integers, FiniteSets

Units(f, S) == UNION { {x} \X (1 .. f[x]) : x \in S }

Total(f, S) == Cardinality(Units(f, S))

Least(a, b) == IF a <= b THEN a ELSE b

Most(a, b) == IF a >= b THEN a ELSE b
=============================================================================
