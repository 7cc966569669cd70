----------------------------- MODULE TallyProofs -----------------------------
(***************************************************************************)
(* What the proofs need to know of sums: a sum is a number, one row counts *)
(* for what it holds, disjoint sets add up, and a sum depends on the rows  *)
(* it counts only.                                                         *)
(***************************************************************************)
EXTENDS Tally, FiniteSetTheorems, WellFoundedInduction, TLAPS

\* Finitely many rows of bounded size have finitely many tokens.
LEMMA TokensFinite ==
    ASSUME NEW U, IsFiniteSet(U), NEW M \in Nat, NEW S \in SUBSET U,
           NEW n, \A x \in S : n[x] \in 0..M
    PROVE  IsFiniteSet(Tokens(S, n))
<1>a. IsFiniteSet(1..M)
  BY FS_Interval
<1>1. IsFiniteSet(U \X (1..M))
  BY <1>a, FS_Product
<1>2. Tokens(S, n) \subseteq U \X (1..M)
  BY DEF Tokens
<1> QED
  BY <1>1, <1>2, FS_Subset

\* So have finitely many rows, whatever their size.
LEMMA TokensFiniteRows ==
    ASSUME NEW S, IsFiniteSet(S), NEW n, \A x \in S : n[x] \in Nat
    PROVE  IsFiniteSet(Tokens(S, n))
<1> DEFINE row(x) == {x} \X (1..n[x])
           rows == {row(x) : x \in S}
           f == [x \in S |-> row(x)]
<1>1. f \in Surjection(S, rows)
  BY DEF Surjection
<1>2. IsFiniteSet(rows)
  BY <1>1, FS_Surjection
<1>3. \A x \in S : IsFiniteSet(row(x))
  <2>1. ASSUME NEW x \in S PROVE IsFiniteSet(row(x))
    <3>1. IsFiniteSet({x})
      BY FS_Singleton
    <3>2. IsFiniteSet(1..n[x])
      BY FS_Interval
    <3> QED
      BY <3>1, <3>2, FS_Product
  <2> QED
    BY <2>1
<1>4. IsFiniteSet(UNION rows)
  BY <1>2, <1>3, FS_UNION
<1> QED
  BY <1>4 DEF Tokens

\* A sum of finitely many is a natural number.
LEMMA TallyType ==
    ASSUME NEW S, NEW n, IsFiniteSet(Tokens(S, n))
    PROVE  Tally(S, n) \in Nat
  BY FS_CardinalityType DEF Tally

\* The sum over nothing is zero.
LEMMA TallyEmpty ==
    ASSUME NEW n
    PROVE  Tally({}, n) = 0
<1>1. Tokens({}, n) = {}
  BY DEF Tokens
<1> QED
  BY <1>1, FS_EmptySet DEF Tally

\* One row counts for what it holds.
LEMMA TallyOne ==
    ASSUME NEW x, NEW n, n[x] \in Nat
    PROVE  Tally({x}, n) = n[x]
<1>1. IsFiniteSet(1..n[x]) /\ Cardinality(1..n[x]) = n[x]
  <2> DEFINE k == n[x]
  <2>1. k \in Nat
    OBVIOUS
  <2> HIDE DEF k
  <2>2. CASE k = 0
    <3>1. 1..k = {}
      BY <2>2
    <3> QED
      BY <2>2, <3>1, FS_EmptySet DEF k
  <2>3. CASE k # 0
    <3>1. k >= 1 /\ k - 1 + 1 = k
      BY <2>1, <2>3
    <3>2. IsFiniteSet(1..k) /\ Cardinality(1..k) = k - 1 + 1
      BY <2>1, <3>1, FS_Interval
    <3> QED
      BY <3>1, <3>2 DEF k
  <2> QED
    BY <2>2, <2>3
<1>2. IsFiniteSet({x}) /\ Cardinality({x}) = 1
  BY FS_Singleton
<1>3. Cardinality({x} \X (1..n[x])) = 1 * n[x]
  BY <1>1, <1>2, FS_Product
<1>4. Tokens({x}, n) = {x} \X (1..n[x])
  BY DEF Tokens
<1>5. 1 * n[x] = n[x]
  OBVIOUS
<1> QED
  BY <1>3, <1>4, <1>5 DEF Tally

\* Disjoint sets of rows add up.
LEMMA TallySplit ==
    ASSUME NEW S, NEW T, S \cap T = {}, NEW n,
           IsFiniteSet(Tokens(S, n)), IsFiniteSet(Tokens(T, n))
    PROVE  /\ Tally(S, n) \in Nat
           /\ Tally(T, n) \in Nat
           /\ Tally(S \cup T, n) = Tally(S, n) + Tally(T, n)
<1>1. IsFiniteSet(Tokens(S, n)) /\ IsFiniteSet(Tokens(T, n))
  OBVIOUS
<1>2. Tokens(S \cup T, n) = Tokens(S, n) \cup Tokens(T, n)
  BY DEF Tokens
<1>3. Tokens(S, n) \cap Tokens(T, n) = {}
  BY DEF Tokens
<1>4. /\ Cardinality(Tokens(S, n)) \in Nat
      /\ Cardinality(Tokens(T, n)) \in Nat
  BY <1>1, FS_CardinalityType
<1>5. Cardinality(Tokens(S, n) \cap Tokens(T, n)) = 0
  BY <1>3, FS_EmptySet
<1>6. Cardinality(Tokens(S, n) \cup Tokens(T, n)) =
        Cardinality(Tokens(S, n)) + Cardinality(Tokens(T, n))
            - Cardinality(Tokens(S, n) \cap Tokens(T, n))
  BY <1>1, FS_Union, Zenon
<1> DEFINE a == Cardinality(Tokens(S, n))
           b == Cardinality(Tokens(T, n))
           c == Cardinality(Tokens(S \cup T, n))
           d == Cardinality(Tokens(S, n) \cap Tokens(T, n))
<1>7. c = a + b - d
  BY <1>2, <1>6
<1>8. a \in Nat /\ b \in Nat /\ d = 0
  BY <1>4, <1>5
<1> HIDE DEF a, b, c, d
<1>9. a \in Nat /\ b \in Nat /\ c = a + b
  BY <1>7, <1>8
<1> QED
  BY <1>9 DEF a, b, c, Tally

\* A sum depends on the rows it counts, and on nothing else.
LEMMA TallySame ==
    ASSUME NEW S, NEW m, NEW n, \A x \in S : m[x] = n[x]
    PROVE  Tally(S, m) = Tally(S, n)
<1>1. Tokens(S, m) = Tokens(S, n)
  BY DEF Tokens
<1> QED
  BY <1>1 DEF Tally

\* Fewer rows do not count for more.
LEMMA TallyMonotone ==
    ASSUME NEW S, NEW T \in SUBSET S, NEW n, IsFiniteSet(Tokens(S, n))
    PROVE  Tally(T, n) <= Tally(S, n)
<1>1. IsFiniteSet(Tokens(S, n))
  OBVIOUS
<1>2. Tokens(T, n) \subseteq Tokens(S, n)
  BY DEF Tokens
<1> QED
  BY <1>1, <1>2, FS_Subset DEF Tally

-----------------------------------------------------------------------------
(***************************************************************************)
(* Least and greatest numbers.  That the naturals are well ordered stands  *)
(* in for induction: what is wrong somewhere is wrong somewhere first.     *)
(***************************************************************************)
\* A set of naturals that is not empty has a least one.
LEMMA LeastOf ==
    ASSUME NEW T \in SUBSET Nat, T # {}
    PROVE  \E m \in T : \A n \in T : m <= n
<1> DEFINE R == OpToRel(<, Nat)
<1>1. IsWellFoundedOn(R, Nat)
  BY NatLessThanWellFounded
<1>2. \E x \in T : \A y \in T : ~(<<y, x>> \in R)
  BY <1>1, WFMin
<1>3. \A x, y \in Nat : x < y => <<x, y>> \in R
  BY DEF OpToRel
<1> HIDE DEF R
<1>4. PICK m \in T : \A y \in T : ~(<<y, m>> \in R)
  BY <1>2
<1>5. ASSUME NEW n \in T PROVE m <= n
  <2>1. n \in Nat /\ m \in Nat
    BY <1>4
  <2>2. ~(<<n, m>> \in R)
    BY <1>4
  <2>3. ~(n < m)
    BY <2>1, <2>2, <1>3
  <2> QED
    BY <2>1, <2>3
<1> QED
  BY <1>4, <1>5

\* A finite set of naturals that is not empty has a greatest one.
LEMMA GreatestOf ==
    ASSUME NEW T \in SUBSET Nat, IsFiniteSet(T), T # {}
    PROVE  \E m \in T : \A n \in T : n <= m
<1> DEFINE Topped(S) == \E m \in S : \A n \in S : n <= m
           Bad == {S \in SUBSET T : S # {} /\ ~Topped(S)}
           Sizes == {Cardinality(S) : S \in Bad}
<1>1. SUFFICES ASSUME T \in Bad PROVE FALSE
  OBVIOUS
<1>2. Sizes # {}
  BY <1>1
<1>3. \A S \in Bad : IsFiniteSet(S) /\ Cardinality(S) \in Nat
  BY FS_Subset, FS_CardinalityType
<1>4. Sizes \in SUBSET Nat
  BY <1>3
<1>5. PICK c \in Sizes : \A d \in Sizes : c <= d
  BY <1>2, <1>4, LeastOf
<1>6. PICK S \in Bad : Cardinality(S) = c
  BY <1>5
<1>7. PICK x \in S : TRUE
  BY <1>6
<1>8. S \ {x} \notin Bad
  <2>1. Cardinality(S \ {x}) = Cardinality(S) - 1
    BY <1>3, <1>6, <1>7, FS_RemoveElement
  <2>2. c \in Nat /\ ~(c <= c - 1)
    BY <1>3, <1>6
  <2>3. Cardinality(S \ {x}) = c - 1
    BY <2>1, <1>6
  <2>4. SUFFICES ASSUME S \ {x} \in Bad PROVE FALSE
    OBVIOUS
  <2>5. c - 1 \in Sizes
    BY <2>3, <2>4
  <2> QED
    BY <2>2, <2>5, <1>5
<1>9. S \subseteq Nat /\ x \in Nat
  BY <1>6, <1>7
<1>10. ~Topped(S)
  BY <1>6
<1>11. CASE S \ {x} = {}
  <2>1. \A n \in S : n = x
    BY <1>11
  <2> QED
    BY <2>1, <1>7, <1>9, <1>10
<1>12. CASE S \ {x} # {}
  <2>1. S \ {x} \in SUBSET T
    BY <1>6
  <2>2. PICK m \in S \ {x} : \A n \in S \ {x} : n <= m
    BY <1>8, <1>12, <2>1
  <2>3. m \in Nat
    BY <1>9
  <2>4. CASE x <= m
    BY <2>2, <2>4, <1>10
  <2>5. CASE m <= x
    <3>1. \A n \in S : n <= x
      <4>1. ASSUME NEW n \in S PROVE n <= x
        <5>1. CASE n = x
          BY <5>1, <1>9
        <5>2. CASE n # x
          BY <5>2, <2>2, <2>3, <2>5, <1>9
        <5> QED
          BY <5>1, <5>2
      <4> QED
        BY <4>1
    <3> QED
      BY <3>1, <1>7, <1>10
  <2> QED
    BY <2>3, <2>4, <2>5, <1>9
<1> QED
  BY <1>11, <1>12
=============================================================================
