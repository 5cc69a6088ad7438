--------------------------- MODULE TotalsTheorems ---------------------------
(***************************************************************************)
(* Facts about Total, from the cardinality of its units.                   *)
(***************************************************************************)
EXTENDS Totals, FiniteSetTheorems, TLAPS

\* The units of a finite set are finitely many.
LEMMA UnitsFinite ==
  ASSUME NEW S, IsFiniteSet(S), NEW f, \A x \in S : f[x] \in Nat
  PROVE  IsFiniteSet(Units(f, S))
<1> DEFINE Piece(x) == {x} \X (1 .. f[x])
           Pieces == { Piece(x) : x \in S }
           p == [x \in S |-> Piece(x)]
<1>1. IsFiniteSet(Pieces)
  <2>1. p \in Surjection(S, Pieces)
    BY DEF Surjection
  <2> QED
    BY <2>1, FS_Surjection
<1>2. \A P \in Pieces : IsFiniteSet(P)
  <2> SUFFICES ASSUME NEW x \in S PROVE IsFiniteSet(Piece(x))
    OBVIOUS
  <2>1. IsFiniteSet({x})
    BY FS_Singleton
  <2>2. IsFiniteSet(1 .. f[x])
    BY FS_Interval
  <2> QED
    BY <2>1, <2>2, FS_Product
<1> QED
  BY <1>1, <1>2, FS_UNION DEF Units

\* A total is a natural number.
LEMMA TotalType ==
  ASSUME NEW S, IsFiniteSet(S), NEW f, \A x \in S : f[x] \in Nat
  PROVE  Total(f, S) \in Nat
BY UnitsFinite, FS_CardinalityType DEF Total

\* Nothing totals zero.
LEMMA TotalEmpty ==
  ASSUME NEW f
  PROVE  Total(f, {}) = 0
<1>1. Units(f, {}) = {}
  BY DEF Units
<1> QED
  BY <1>1, FS_EmptySet DEF Total

\* The total of one element is its value.
LEMMA TotalSingle ==
  ASSUME NEW x, NEW f, f[x] \in Nat
  PROVE  Total(f, {x}) = f[x]
<1>1. Units(f, {x}) = {x} \X (1 .. f[x])
  BY DEF Units
<1>2. IsFiniteSet({x}) /\ Cardinality({x}) = 1
  BY FS_Singleton
<1>3. IsFiniteSet(1 .. f[x]) /\ Cardinality(1 .. f[x]) = f[x]
  <2>1. ASSUME NEW b \in Nat
        PROVE  IsFiniteSet(1 .. b) /\ Cardinality(1 .. b) = b
    <3>1. IsFiniteSet(1 .. b) /\ Cardinality(1 .. b) = IF 1 > b THEN 0 ELSE b - 1 + 1
      BY FS_Interval
    <3>2. QED
      BY <3>1
  <2>2. QED
    BY <2>1
<1>4. Cardinality({x} \X (1 .. f[x])) = Cardinality({x}) * Cardinality(1 .. f[x])
  BY <1>2, <1>3, FS_Product
<1>5. Total(f, {x}) = Cardinality({x} \X (1 .. f[x]))
  BY <1>1, Zenon DEF Total
<1> QED
  BY <1>2, <1>3, <1>4, <1>5

\* Totals of disjoint sets add up.
LEMMA TotalUnion ==
  ASSUME NEW S, IsFiniteSet(S), NEW T, IsFiniteSet(T), S \cap T = {},
         NEW f, \A x \in S \cup T : f[x] \in Nat
  PROVE  Total(f, S \cup T) = Total(f, S) + Total(f, T)
<1>1. Units(f, S \cup T) = Units(f, S) \cup Units(f, T)
  BY DEF Units
<1>2. Units(f, S) \cap Units(f, T) = {}
  BY DEF Units
<1>3. IsFiniteSet(Units(f, S)) /\ IsFiniteSet(Units(f, T))
  BY UnitsFinite
<1>4. Total(f, S) \in Nat /\ Total(f, T) \in Nat
  BY TotalType
<1>5. Cardinality(Units(f, S) \cup Units(f, T))
        = Cardinality(Units(f, S)) + Cardinality(Units(f, T)) - Cardinality({})
  BY <1>2, <1>3, FS_Union
<1>6. Cardinality({}) = 0
  BY FS_EmptySet
<1>7. /\ Total(f, S \cup T) = Cardinality(Units(f, S) \cup Units(f, T))
      /\ Total(f, S) = Cardinality(Units(f, S))
      /\ Total(f, T) = Cardinality(Units(f, T))
  BY <1>1, Zenon DEF Total
<1> QED
  BY <1>4, <1>5, <1>6, <1>7

\* An element added to a set adds its value.
LEMMA TotalAdd ==
  ASSUME NEW S, IsFiniteSet(S), NEW x, x \notin S,
         NEW f, \A y \in S \cup {x} : f[y] \in Nat
  PROVE  Total(f, S \cup {x}) = Total(f, S) + f[x]
<1>1. IsFiniteSet({x}) /\ S \cap {x} = {}
  BY FS_Singleton
<1>2. Total(f, S \cup {x}) = Total(f, S) + Total(f, {x})
  BY <1>1, TotalUnion
<1> QED
  BY <1>2, TotalSingle

\* A subset removed takes its total away.
LEMMA TotalRemove ==
  ASSUME NEW S, IsFiniteSet(S), NEW T \in SUBSET S,
         NEW f, \A x \in S : f[x] \in Nat
  PROVE  /\ Total(f, S \ T) \in Nat /\ Total(f, T) \in Nat /\ Total(f, S) \in Nat
         /\ Total(f, S \ T) = Total(f, S) - Total(f, T)
<1>1. IsFiniteSet(T) /\ IsFiniteSet(S \ T)
  BY FS_Subset, FS_Difference
<1>2. (S \ T) \cap T = {} /\ (S \ T) \cup T = S
  OBVIOUS
<1>3. Total(f, (S \ T) \cup T) = Total(f, S \ T) + Total(f, T)
  BY <1>1, <1>2, TotalUnion
<1>4. Total(f, S \ T) \in Nat /\ Total(f, T) \in Nat /\ Total(f, S) \in Nat
  BY <1>1, TotalType
<1>5. Total(f, S) = Total(f, S \ T) + Total(f, T)
  BY <1>2, <1>3, Zenon
<1> QED
  BY <1>4, <1>5

\* A total depends on the values in the set only.
LEMMA TotalSame ==
  ASSUME NEW S, NEW f, NEW g, \A x \in S : f[x] = g[x]
  PROVE  Total(f, S) = Total(g, S)
<1>1. Units(f, S) = Units(g, S)
  BY DEF Units
<1> QED
  BY <1>1 DEF Total

\* Elements of value zero do not count.
LEMMA TotalSupport ==
  ASSUME NEW S, NEW T \in SUBSET S, NEW f,
         \A x \in S : f[x] \in Nat, \A x \in S \ T : f[x] = 0
  PROVE  Total(f, S) = Total(f, T)
<1>1. Units(f, S) = Units(f, T)
  BY DEF Units
<1> QED
  BY <1>1, Zenon DEF Total

\* Changing one value changes the total by as much.
LEMMA TotalChange ==
  ASSUME NEW S, IsFiniteSet(S), NEW f, NEW g, NEW x \in S,
         \A y \in S : f[y] \in Nat /\ g[y] \in Nat,
         \A y \in S \ {x} : g[y] = f[y]
  PROVE  Total(g, S) = Total(f, S) - f[x] + g[x]
<1> DEFINE R == S \ {x}
<1>1. IsFiniteSet(R) /\ x \notin R /\ R \cup {x} = S
  BY FS_RemoveElement
<1>2. Total(f, R \cup {x}) = Total(f, R) + f[x]
  BY <1>1, TotalAdd
<1>3. Total(g, R \cup {x}) = Total(g, R) + g[x]
  BY <1>1, TotalAdd
<1>4. Total(g, R) = Total(f, R)
  BY TotalSame
<1>5. Total(f, R) \in Nat
  BY <1>1, TotalType
<1>6. Total(f, S) = Total(f, R) + f[x] /\ Total(g, S) = Total(f, R) + g[x]
  BY <1>1, <1>2, <1>3, <1>4, Zenon
<1> QED
  BY <1>5, <1>6

\* A larger function has a larger total.
LEMMA TotalMonotone ==
  ASSUME NEW S, IsFiniteSet(S), NEW f, NEW g,
         \A x \in S : f[x] \in Nat /\ g[x] \in Nat /\ f[x] <= g[x]
  PROVE  Total(f, S) <= Total(g, S)
<1>1. Units(f, S) \subseteq Units(g, S)
  BY DEF Units
<1>2. IsFiniteSet(Units(g, S))
  BY UnitsFinite
<1> QED
  BY <1>1, <1>2, FS_Subset DEF Total

\* The total of a sum of functions is the sum of their totals: the units of the
\* sum are the units of one and, shifted past them, the units of the other.
LEMMA TotalOfSum ==
  ASSUME NEW S, IsFiniteSet(S), NEW f, NEW g, NEW h,
         \A x \in S : f[x] \in Nat /\ g[x] \in Nat /\ h[x] = f[x] + g[x]
  PROVE  Total(h, S) = Total(f, S) + Total(g, S)
<1> DEFINE shift == [u \in Units(g, S) |-> <<u[1], f[u[1]] + u[2]>>]
           Rest  == Units(h, S) \ Units(f, S)
<1>1. /\ \A u : u \in Units(f, S) <=> \E x \in S : \E i \in 1 .. f[x] : u = <<x, i>>
      /\ \A u : u \in Units(g, S) <=> \E x \in S : \E i \in 1 .. g[x] : u = <<x, i>>
      /\ \A u : u \in Units(h, S) <=> \E x \in S : \E i \in 1 .. h[x] : u = <<x, i>>
  BY DEF Units
<1>2. Units(f, S) \subseteq Units(h, S)
  BY DEF Units
<1>3. shift \in Bijection(Units(g, S), Rest)
  <2>1. \A u \in Units(g, S) : shift[u] \in Rest
    <3> SUFFICES ASSUME NEW x \in S, NEW i \in 1 .. g[x]
                 PROVE  <<x, f[x] + i>> \in Rest
      BY <1>1
    <3>1. f[x] + i \in 1 .. h[x] /\ f[x] + i \notin 1 .. f[x]
      OBVIOUS
    <3> QED
      BY <3>1, <1>1
  <2>2. \A u, v \in Units(g, S) : shift[u] = shift[v] => u = v
    <3> SUFFICES ASSUME NEW x \in S, NEW i \in 1 .. g[x], NEW y \in S, NEW j \in 1 .. g[y],
                        <<x, f[x] + i>> = <<y, f[y] + j>>
                 PROVE  <<x, i>> = <<y, j>>
      BY <1>1
    <3>1. x = y /\ f[x] + i = f[x] + j
      OBVIOUS
    <3> QED
      BY <3>1
  <2>3. \A r \in Rest : \E u \in Units(g, S) : shift[u] = r
    <3> SUFFICES ASSUME NEW r \in Rest
                 PROVE  \E u \in Units(g, S) : shift[u] = r
      OBVIOUS
    <3>1. PICK x \in S : \E i \in 1 .. h[x] : r = <<x, i>>
      BY <1>1, Zenon
    <3>2. PICK i \in 1 .. h[x] : r = <<x, i>>
      BY <3>1, Zenon
    <3>3. i \notin 1 .. f[x]
      BY <1>1, <3>2, Zenon
    <3>4. i - f[x] \in 1 .. g[x] /\ f[x] + (i - f[x]) = i
      BY <3>3
    <3>5. <<x, i - f[x]>> \in Units(g, S)
      BY <3>4, <1>1
    <3>6. shift[<<x, i - f[x]>>] = <<x, f[x] + (i - f[x])>>
      BY <3>5
    <3> QED
      BY <3>2, <3>4, <3>5, <3>6
  <2> QED
    BY <2>1, <2>2, <2>3 DEF Bijection, Injection, Surjection, IsInjective
<1>4. IsFiniteSet(Units(f, S)) /\ IsFiniteSet(Units(g, S)) /\ IsFiniteSet(Units(h, S))
  BY UnitsFinite
<1>5. Cardinality(Rest) = Cardinality(Units(g, S))
  BY <1>3, <1>4, FS_Bijection DEF ExistsBijection
<1>6. /\ Cardinality(Units(f, S)) \in Nat /\ Cardinality(Units(h, S)) \in Nat
      /\ Cardinality(Units(g, S)) \in Nat
  BY <1>4, FS_CardinalityType
<1>7. Units(h, S) \cap Units(f, S) = Units(f, S)
  BY <1>2
<1>8. Cardinality(Units(h, S) \ Units(f, S))
        = Cardinality(Units(h, S)) - Cardinality(Units(h, S) \cap Units(f, S))
  BY <1>4, FS_Difference
<1>9. Cardinality(Units(g, S)) = Cardinality(Units(h, S)) - Cardinality(Units(f, S))
  BY <1>5, <1>7, <1>8, Zenon
<1> QED
  BY <1>6, <1>9 DEF Total
=============================================================================
