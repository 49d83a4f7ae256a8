---------------------------- MODULE UnitCounting ----------------------------
(***************************************************************************)
(* Adding up the units of a set of rows or requests: x stands for u[x]     *)
(* units, each of them the pair of x and its number.                       *)
(***************************************************************************)
EXTENDS Integers, FiniteSets, FiniteSetTheorems, TLAPS

Counted(S, u) == UNION {{x} \X (1 .. u[x]) : x \in S}

\* Finitely many elements have finitely many units.
LEMMA CountedFinite ==
  ASSUME NEW S, IsFiniteSet(S), NEW u, \A x \in S : u[x] \in Nat
  PROVE  IsFiniteSet(Counted(S, u)) /\ Cardinality(Counted(S, u)) \in Nat
<1> DEFINE f == [x \in S |-> {x} \X (1 .. u[x])]
           T == {{x} \X (1 .. u[x]) : x \in S}
<1>1. f \in Surjection(S, T)
  BY DEF Surjection
<1>2. IsFiniteSet(T)
  <2> HIDE DEF f, T
  <2> QED
    BY <1>1, FS_Surjection
<1>3. ASSUME NEW x \in S PROVE IsFiniteSet({x} \X (1 .. u[x]))
  <2>1. IsFiniteSet({x}) /\ u[x] \in Nat
    BY FS_Singleton
  <2>2. IsFiniteSet(1 .. u[x])
    BY <2>1, FS_Interval
  <2> QED
    BY <2>1, <2>2, FS_Product
<1>4. \A t \in T : IsFiniteSet(t)
  BY <1>3
<1>5. IsFiniteSet(Counted(S, u))
  <2>1. Counted(S, u) = UNION T
    BY DEF Counted
  <2> HIDE DEF f, T
  <2>2. IsFiniteSet(UNION T)
    BY <1>2, <1>4, FS_UNION
  <2> QED
    BY <2>1, <2>2
<1> QED
  BY <1>5, FS_CardinalityType

\* The units of one element.
LEMMA CountedOne ==
  ASSUME NEW x, NEW n \in Nat
  PROVE  IsFiniteSet({x} \X (1 .. n)) /\ Cardinality({x} \X (1 .. n)) = n
<1>1. IsFiniteSet({x}) /\ Cardinality({x}) = 1
  BY FS_Singleton
<1>2. IsFiniteSet(1 .. n) /\ Cardinality(1 .. n) = n
  BY FS_Interval
<1>3. /\ IsFiniteSet({x} \X (1 .. n))
      /\ Cardinality({x} \X (1 .. n)) = Cardinality({x}) * Cardinality(1 .. n)
  BY <1>1, <1>2, FS_Product
<1> QED
  BY <1>1, <1>2, <1>3

\* One element more adds its units.
LEMMA CountedMore ==
  ASSUME NEW S, IsFiniteSet(S), NEW u, NEW x, x \notin S,
         \A y \in S \cup {x} : u[y] \in Nat
  PROVE  Cardinality(Counted(S \cup {x}, u)) = Cardinality(Counted(S, u)) + u[x]
<1> DEFINE A == Counted(S, u)
           B == {x} \X (1 .. u[x])
<1>1. Counted(S \cup {x}, u) = A \cup B
  BY DEF Counted
<1>2. A \cap B = {}
  BY DEF Counted
<1>3. IsFiniteSet(A) /\ Cardinality(A) \in Nat
  BY CountedFinite
<1>4. IsFiniteSet(B) /\ Cardinality(B) = u[x]
  BY CountedOne
<1> HIDE DEF A, B
<1>5. Cardinality(A \cup B) = Cardinality(A) + Cardinality(B) - Cardinality(A \cap B)
  BY <1>3, <1>4, FS_Union
<1>6. Cardinality(A \cap B) = 0
  BY <1>2, FS_EmptySet
<1>7. Cardinality(A \cup B) = Cardinality(A) + u[x]
  BY <1>3, <1>4, <1>5, <1>6
<1> QED
  BY <1>1, <1>7 DEF A

\* One element less takes its units away.
LEMMA CountedLess ==
  ASSUME NEW S, IsFiniteSet(S), NEW u, NEW x \in S, \A y \in S : u[y] \in Nat
  PROVE  Cardinality(Counted(S \ {x}, u)) = Cardinality(Counted(S, u)) - u[x]
<1> DEFINE R == S \ {x}
<1>1. IsFiniteSet(R) /\ x \notin R /\ R \cup {x} = S
  BY FS_RemoveElement
<1>2. Cardinality(Counted(R \cup {x}, u)) = Cardinality(Counted(R, u)) + u[x]
  <2> HIDE DEF R
  <2> QED
    BY <1>1, CountedMore
<1>3. Cardinality(Counted(R, u)) \in Nat
  <2>1. \A y \in R : u[y] \in Nat
    OBVIOUS
  <2> HIDE DEF R
  <2> QED
    BY <1>1, <2>1, CountedFinite
<1>4. Cardinality(Counted(R, u)) = Cardinality(Counted(S, u)) - u[x]
  <2>1. Cardinality(Counted(S, u)) = Cardinality(Counted(R, u)) + u[x]
    BY <1>1, <1>2
  <2>2. u[x] \in Nat
    OBVIOUS
  <2> HIDE DEF R
  <2> QED
    BY <1>3, <2>1, <2>2
<1> QED
  BY <1>4

\* Fewer elements have no more units.
LEMMA CountedSubset ==
  ASSUME NEW S, IsFiniteSet(S), NEW u, \A y \in S : u[y] \in Nat, NEW T \in SUBSET S
  PROVE  Cardinality(Counted(T, u)) <= Cardinality(Counted(S, u))
<1>1. Counted(T, u) \in SUBSET Counted(S, u)
  BY DEF Counted
<1>2. IsFiniteSet(Counted(S, u))
  BY CountedFinite
<1> QED
  BY <1>1, <1>2, FS_Subset

\* Only the numbers of the elements that are there matter.
LEMMA CountedSame ==
  ASSUME NEW S, NEW u, NEW v, \A x \in S : u[x] = v[x]
  PROVE  Counted(S, u) = Counted(S, v)
BY DEF Counted

\* Two sets that agree but for one element.
LEMMA CountedMoves ==
  ASSUME NEW S, IsFiniteSet(S), NEW T, NEW u, NEW e, S \ {e} = T \ {e},
         \A y \in S \cup T : u[y] \in Nat
  PROVE  /\ Cardinality(Counted(S, u)) \in Nat /\ Cardinality(Counted(T, u)) \in Nat
         /\ (e \in S <=> e \in T) =>
              Cardinality(Counted(T, u)) = Cardinality(Counted(S, u))
         /\ e \in T /\ e \notin S =>
              Cardinality(Counted(T, u)) = Cardinality(Counted(S, u)) + u[e]
         /\ e \in S /\ e \notin T =>
              Cardinality(Counted(T, u)) = Cardinality(Counted(S, u)) - u[e]
<1>1. CASE e \in S <=> e \in T
  <2>1. T = S
    BY <1>1
  <2> QED
    BY <1>1, <2>1, CountedFinite
<1>2. CASE e \in T /\ e \notin S
  <2>1. T = S \cup {e}
    BY <1>2
  <2>2. Cardinality(Counted(T, u)) = Cardinality(Counted(S, u)) + u[e]
    BY <1>2, <2>1, CountedMore
  <2>3. Cardinality(Counted(S, u)) \in Nat
    BY CountedFinite
  <2> QED
    BY <1>2, <2>2, <2>3
<1>3. CASE e \in S /\ e \notin T
  <2>1. T = S \ {e}
    BY <1>3
  <2>2. Cardinality(Counted(T, u)) = Cardinality(Counted(S, u)) - u[e]
    BY <1>3, <2>1, CountedLess
  <2>3. IsFiniteSet(T)
    BY <2>1, FS_RemoveElement, FS_Subset
  <2>4. Cardinality(Counted(S, u)) \in Nat /\ Cardinality(Counted(T, u)) \in Nat
    BY <2>3, CountedFinite
  <2> QED
    BY <1>3, <2>2, <2>4
<1> QED
  BY <1>1, <1>2, <1>3
=============================================================================
