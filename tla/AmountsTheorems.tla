-------------------------- MODULE AmountsTheorems --------------------------
(* What the proofs need to know of sums.                                   *)
EXTENDS Amounts, Integers, FiniteSetTheorems, TLAPS

\* An amount of n is n coins.
LEMMA CoinsOfOne == \A n \in Nat : IsFiniteSet(1..n) /\ Cardinality(1..n) = n
<1> SUFFICES ASSUME NEW n \in Nat PROVE IsFiniteSet(1..n) /\ Cardinality(1..n) = n
  OBVIOUS
<1>1. IsFiniteSet(1..n)
  BY FS_Interval
<1>2. Cardinality(1..n) = IF 1 > n THEN 0 ELSE n - 1 + 1
  BY FS_Interval
<1> QED BY <1>1, <1>2

\* A finite table of natural amounts holds finitely many coins.
LEMMA CoinsFinite ==
    ASSUME NEW S, NEW f, IsFiniteSet(S), \A x \in S : f[x] \in Nat
    PROVE  IsFiniteSet(Coins(f, S))
<1> DEFINE T == {{x} \X (1..f[x]) : x \in S}
           g == [x \in S |-> {x} \X (1..f[x])]
<1>1. g \in Surjection(S, T)
  BY DEF Surjection
<1>2. IsFiniteSet(T)
  <2> HIDE DEF T, g
  <2> QED BY <1>1, FS_Surjection
<1>3. \A x \in S : IsFiniteSet({x} \X (1..f[x]))
  <2>1. TAKE x \in S
  <2>2. IsFiniteSet({x})
    BY FS_Singleton
  <2>3. IsFiniteSet(1..f[x])
    BY CoinsOfOne
  <2> QED BY <2>2, <2>3, FS_Product
<1>4. \A t \in T : IsFiniteSet(t)
  BY <1>3
<1>5. IsFiniteSet(UNION T)
  <2> HIDE DEF T
  <2> QED BY <1>2, <1>4, FS_UNION
<1> QED BY <1>5 DEF Coins

\* A sum of amounts is an amount.
LEMMA TotalType ==
    ASSUME NEW S, NEW f, IsFiniteSet(S), \A x \in S : f[x] \in Nat
    PROVE  Total(f, S) \in Nat
BY CoinsFinite, FS_CardinalityType DEF Total

\* The aggregate of an empty query set is 0.
LEMMA TotalEmpty == \A f : Total(f, {}) = 0
<1>1. \A f : Coins(f, {}) = {}
  BY DEF Coins
<1> QED BY <1>1, FS_EmptySet DEF Total

\* A sum depends on the amounts of the rows it is over, and on no other.
LEMMA TotalCong ==
    ASSUME NEW S, NEW f, NEW g, \A x \in S : f[x] = g[x]
    PROVE  Total(f, S) = Total(g, S)
<1>1. Coins(f, S) = Coins(g, S)
  BY DEF Coins
<1> QED BY <1>1 DEF Total

\* One more row adds its amount.
LEMMA TotalAdd ==
    ASSUME NEW S, NEW f, NEW x, IsFiniteSet(S), x \notin S,
           \A y \in S \cup {x} : f[y] \in Nat
    PROVE  Total(f, S \cup {x}) = Total(f, S) + f[x]
<1> DEFINE A == Coins(f, S)
           B == {x} \X (1..f[x])
<1>1. Coins(f, S \cup {x}) = A \cup B
  BY DEF Coins
<1>2. A \cap B = {}
  BY DEF Coins
<1>3. IsFiniteSet(A)
  BY CoinsFinite
<1>4. IsFiniteSet(B) /\ Cardinality(B) = f[x]
  <2>1. IsFiniteSet({x}) /\ Cardinality({x}) = 1
    BY FS_Singleton
  <2>2. IsFiniteSet(1..f[x]) /\ Cardinality(1..f[x]) = f[x]
    <3>1. f[x] \in Nat
      OBVIOUS
    <3> QED BY <3>1, CoinsOfOne
  <2>3. Cardinality(B) = Cardinality({x}) * Cardinality(1..f[x])
    BY <2>1, <2>2, FS_Product
  <2>4. IsFiniteSet(B)
    BY <2>1, <2>2, FS_Product
  <2> QED BY <2>1, <2>2, <2>3, <2>4
<1>5. Cardinality(A \cup B) = Cardinality(A) + Cardinality(B) - Cardinality(A \cap B)
  <2> HIDE DEF A, B
  <2> QED BY <1>3, <1>4, FS_Union
<1>6. Cardinality(A) \in Nat
  BY <1>3, FS_CardinalityType
<1>7. Cardinality(A \cap B) = 0
  BY <1>2, FS_EmptySet
<1>8. f[x] \in Nat
  OBVIOUS
<1>9. Total(f, S \cup {x}) = Cardinality(A \cup B) /\ Total(f, S) = Cardinality(A)
  BY <1>1 DEF Total
<1> HIDE DEF A, B
<1> QED BY <1>4, <1>5, <1>6, <1>7, <1>8, <1>9

\* One row fewer takes its amount away.
LEMMA TotalRemove ==
    ASSUME NEW S, NEW f, NEW x \in S, IsFiniteSet(S), \A y \in S : f[y] \in Nat
    PROVE  Total(f, S \ {x}) = Total(f, S) - f[x]
<1> DEFINE R == S \ {x}
<1>1. IsFiniteSet(R) /\ x \notin R /\ S = R \cup {x}
  BY FS_RemoveElement
<1>2. Total(f, R \cup {x}) = Total(f, R) + f[x]
  <2>1. \A y \in R \cup {x} : f[y] \in Nat
    BY <1>1
  <2> HIDE DEF R
  <2> QED BY <1>1, <2>1, TotalAdd
<1>3. Total(f, R) \in Nat
  BY <1>1, TotalType
<1>4. f[x] \in Nat
  OBVIOUS
<1>5. Total(f, S) = Total(f, R) + f[x]
  BY <1>1, <1>2
<1>6. Total(f, R) = Total(f, S) - f[x]
  <2> HIDE DEF R
  <2> QED BY <1>3, <1>4, <1>5
<1> QED BY <1>6

\* No row counts for more than the sum.
LEMMA TotalAtLeast ==
    ASSUME NEW S, NEW f, NEW x \in S, IsFiniteSet(S), \A y \in S : f[y] \in Nat
    PROVE  f[x] <= Total(f, S)
<1>1. Total(f, S \ {x}) = Total(f, S) - f[x]
  BY TotalRemove
<1>2. Total(f, S \ {x}) \in Nat
  <2>1. IsFiniteSet(S \ {x})
    BY FS_RemoveElement
  <2> QED BY <2>1, TotalType
<1>3. Total(f, S) \in Nat
  BY TotalType
<1> QED BY <1>1, <1>2, <1>3

\* What a row is worth to the sum over a set it may not be in.
Part(f, S, x) == IF x \in S THEN f[x] ELSE 0

\* What one row, in the set or not, takes out of the sum.
LEMMA TotalSplit ==
    ASSUME NEW S, NEW f, NEW x, IsFiniteSet(S), \A y \in S : f[y] \in Nat
    PROVE  Total(f, S) = Total(f, S \ {x}) + Part(f, S, x)
<1>1. Total(f, S) \in Nat
  BY TotalType
<1>2. CASE x \in S
  <2>1. Total(f, S \ {x}) = Total(f, S) - f[x]
    BY <1>2, TotalRemove
  <2>2. f[x] \in Nat
    BY <1>2
  <2> QED BY <1>1, <1>2, <2>1, <2>2 DEF Part
<1>3. CASE x \notin S
  <2>1. S \ {x} = S
    BY <1>3
  <2> QED BY <1>1, <1>3, <2>1 DEF Part
<1> QED BY <1>2, <1>3

\* A table rewritten in one row: the sum loses what the row was worth and
\* gains what it is worth.
LEMMA TotalRewrite ==
    ASSUME NEW S, NEW f, NEW S2, NEW f2, NEW x, IsFiniteSet(S), IsFiniteSet(S2),
           \A y \in S : f[y] \in Nat, \A y \in S2 : f2[y] \in Nat,
           S2 \ {x} = S \ {x}, \A y \in S \ {x} : f2[y] = f[y]
    PROVE  Total(f2, S2) = Total(f, S) - Part(f, S, x) + Part(f2, S2, x)
<1> DEFINE R == S \ {x}
           a == Part(f, S, x)
           b == Part(f2, S2, x)
<1>1. Total(f, S) = Total(f, S \ {x}) + Part(f, S, x)
  BY TotalSplit
<1>2. Total(f2, S2) = Total(f2, S2 \ {x}) + Part(f2, S2, x)
  BY TotalSplit
<1>3. Total(f2, R) = Total(f, R)
  BY TotalCong
<1>4. Total(f, R) \in Nat
  <2>1. IsFiniteSet(R) /\ \A y \in R : f[y] \in Nat
    BY FS_Subset
  <2> QED BY <2>1, TotalType
<1>5. a \in Nat /\ b \in Nat
  BY DEF Part
<1>6. Total(f2, S2) = Total(f, S) - a + b
  <2>1. Total(f, S) = Total(f, R) + a /\ Total(f2, S2) = Total(f2, R) + b
    BY <1>1, <1>2
  <2> HIDE DEF R, a, b
  <2> QED BY <1>3, <1>4, <1>5, <2>1
<1> QED BY <1>6

\* The rows of two query sets that have no row in common.
LEMMA TotalUnion ==
    ASSUME NEW S, NEW T, NEW f, IsFiniteSet(S), IsFiniteSet(T), S \cap T = {},
           \A x \in S \cup T : f[x] \in Nat
    PROVE  Total(f, S \cup T) = Total(f, S) + Total(f, T)
<1> DEFINE A == Coins(f, S)
           B == Coins(f, T)
<1>1. Coins(f, S \cup T) = A \cup B /\ A \cap B = {}
  BY DEF Coins
<1>2. IsFiniteSet(A) /\ IsFiniteSet(B)
  BY CoinsFinite
<1>3. Total(f, S \cup T) = Cardinality(A \cup B) /\ Total(f, S) = Cardinality(A)
      /\ Total(f, T) = Cardinality(B)
  BY <1>1 DEF Total
<1>4. A \cap B = {}
  BY <1>1
<1> HIDE DEF A, B
<1>5. Cardinality(A \cup B) = Cardinality(A) + Cardinality(B) - Cardinality(A \cap B)
  BY <1>2, FS_Union
<1>6. Cardinality(A \cap B) = 0
  BY <1>4, FS_EmptySet
<1>7. Cardinality(A) \in Nat /\ Cardinality(B) \in Nat
  BY <1>2, FS_CardinalityType
<1> QED BY <1>3, <1>5, <1>6, <1>7

\* Fewer rows add up to no more.
LEMMA TotalOfFewer ==
    ASSUME NEW S, NEW T \in SUBSET S, NEW f, IsFiniteSet(S), \A x \in S : f[x] \in Nat
    PROVE  Total(f, T) <= Total(f, S)
<1>1. Coins(f, T) \in SUBSET Coins(f, S)
  BY DEF Coins
<1> QED BY <1>1, CoinsFinite, FS_Subset DEF Total

\* A sum is no more than its number of rows times the largest amount.
LEMMA TotalWithin ==
    ASSUME NEW S, NEW f, NEW most \in Nat, IsFiniteSet(S), \A x \in S : f[x] \in 0..most
    PROVE  Total(f, S) <= Cardinality(S) * most
<1>1. Coins(f, S) \in SUBSET (S \X (1..most))
  BY DEF Coins
<1>2. IsFiniteSet(1..most) /\ Cardinality(1..most) = most
  BY CoinsOfOne
<1>3. /\ IsFiniteSet(S \X (1..most))
      /\ Cardinality(S \X (1..most)) = Cardinality(S) * most
  BY <1>2, FS_Product
<1> QED BY <1>1, <1>3, FS_Subset DEF Total

\* A sum does not depend on the keys of its rows.
LEMMA TotalRenamed ==
    ASSUME NEW S, NEW T, NEW f, NEW g, NEW key \in Bijection(S, T), IsFiniteSet(S),
           \A x \in S : f[x] \in Nat /\ g[key[x]] = f[x]
    PROVE  Total(g, T) = Total(f, S)
<1> DEFINE A == Coins(f, S)
           B == Coins(g, T)
           renamed == [c \in A |-> <<key[c[1]], c[2]>>]
<1>1. /\ key \in [S -> T]
      /\ \A x, y \in S : key[x] = key[y] => x = y
      /\ \A y \in T : \E x \in S : key[x] = y
  BY DEF Bijection, Injection, IsInjective, Surjection
<1>2. \A c \in A : c[1] \in S /\ c[2] \in 1..f[c[1]] /\ c = <<c[1], c[2]>>
  BY DEF Coins
<1>3. \A x \in S : \A n \in 1..f[x] : <<x, n>> \in A
  BY DEF Coins
<1>4. \A c \in B : c[1] \in T /\ c[2] \in 1..g[c[1]] /\ c = <<c[1], c[2]>>
  BY DEF Coins
<1>5. \A y \in T : \A n \in 1..g[y] : <<y, n>> \in B
  BY DEF Coins
<1> HIDE DEF A, B
<1>6. renamed \in [A -> B]
  <2> SUFFICES ASSUME NEW c \in A PROVE <<key[c[1]], c[2]>> \in B
    OBVIOUS
  <2>1. c[1] \in S /\ c[2] \in 1..f[c[1]]
    BY <1>2
  <2>2. key[c[1]] \in T /\ g[key[c[1]]] = f[c[1]]
    BY <1>1, <2>1
  <2> QED BY <1>5, <2>1, <2>2
<1>7. \A c, d \in A : renamed[c] = renamed[d] => c = d
  <2> SUFFICES ASSUME NEW c \in A, NEW d \in A, renamed[c] = renamed[d] PROVE c = d
    OBVIOUS
  <2>1. key[c[1]] = key[d[1]] /\ c[2] = d[2]
    OBVIOUS
  <2>2. c[1] \in S /\ d[1] \in S /\ c = <<c[1], c[2]>> /\ d = <<d[1], d[2]>>
    BY <1>2
  <2>3. c[1] = d[1]
    BY <1>1, <2>1, <2>2
  <2> HIDE DEF renamed
  <2> QED BY <2>1, <2>2, <2>3
<1>8. \A b \in B : \E c \in A : renamed[c] = b
  <2> SUFFICES ASSUME NEW b \in B PROVE \E c \in A : <<key[c[1]], c[2]>> = b
    OBVIOUS
  <2>1. b[1] \in T /\ b[2] \in 1..g[b[1]] /\ b = <<b[1], b[2]>>
    BY <1>4
  <2>2. PICK x \in S : key[x] = b[1]
    BY <1>1, <2>1
  <2>3. g[b[1]] = f[x]
    BY <2>2
  <2>4. <<x, b[2]>> \in A
    BY <1>3, <2>1, <2>3
  <2>5. <<key[x], b[2]>> = b
    BY <2>1, <2>2
  <2> QED BY <2>4, <2>5
<1>9. ExistsBijection(A, B)
  <2> HIDE DEF renamed
  <2> QED BY <1>6, <1>7, <1>8 DEF ExistsBijection, Bijection, Injection, IsInjective, Surjection
<1>10. IsFiniteSet(A)
  BY CoinsFinite DEF A
<1>11. Cardinality(B) = Cardinality(A)
  BY <1>9, <1>10, FS_Bijection
<1> QED BY <1>11 DEF Total, A, B
=============================================================================
