------------------------------ MODULE ByteTotals ------------------------------
(***************************************************************************)
(* How bytes add up: facts about the total of a weight over a finite set,  *)
(* which the accounting proofs of files and documents rest on.             *)
(*                                                                         *)
(* The total is the size of a set with w[x] units for each x, so that what *)
(* the library knows about finite sets applies to it.                      *)
(***************************************************************************)
EXTENDS Integers, FiniteSets, FiniteSetTheorems, FunctionTheorems,
        WellFoundedInduction, TLAPS

\* The units of the elements of S, each as an element of its own.
Units(S, w) == UNION {{x} \X (1 .. w[x]) : x \in S}

Weighs(S, w) == IsFiniteSet(S) /\ \A x \in S : w[x] \in Nat

\* An element's units are as many as it weighs.
LEMMA UnitsOfOne ==
  ASSUME NEW x, NEW n \in Nat
  PROVE  IsFiniteSet({x} \X (1 .. n)) /\ Cardinality({x} \X (1 .. n)) = n
  <1>1. IsFiniteSet({x}) /\ Cardinality({x}) = 1
    BY FS_Singleton
  <1>2. IsFiniteSet(1 .. n) /\ Cardinality(1 .. n) = n
    <2>1. 1 \in Int /\ n \in Int
      OBVIOUS
    <2>2. /\ IsFiniteSet(1 .. n)
          /\ Cardinality(1 .. n) = IF 1 > n THEN 0 ELSE n - 1 + 1
      BY <2>1, FS_Interval, Zenon
    <2>. QED
      BY <2>2
  <1>3. /\ IsFiniteSet({x} \X (1 .. n))
        /\ Cardinality({x} \X (1 .. n)) = Cardinality({x}) * Cardinality(1 .. n)
    BY <1>1, <1>2, FS_Product, Zenon
  <1>. QED
    BY <1>1, <1>2, <1>3

\* A total is a number.
LEMMA UnitsFinite ==
  ASSUME NEW S, NEW w, Weighs(S, w)
  PROVE  IsFiniteSet(Units(S, w)) /\ Cardinality(Units(S, w)) \in Nat
  <1>. DEFINE F == {{x} \X (1 .. w[x]) : x \in S}
              g == [x \in S |-> {x} \X (1 .. w[x])]
  <1>1. IsFiniteSet(F)
    <2>1. g \in Surjection(S, F)
      BY DEF Surjection
    <2>. QED
      BY <2>1, FS_Surjection DEF Weighs
  <1>2. ASSUME NEW T \in F
        PROVE  IsFiniteSet(T)
    <2>1. PICK x \in S : T = {x} \X (1 .. w[x])
      OBVIOUS
    <2>. QED
      BY <2>1, UnitsOfOne DEF Weighs
  <1>. QED
    BY <1>1, <1>2, FS_UNION, FS_CardinalityType DEF Units

\* The total of nothing is zero.
LEMMA UnitsOfNone == ASSUME NEW w PROVE Cardinality(Units({}, w)) = 0
  BY FS_EmptySet DEF Units

\* Only the weights of the elements count.
LEMMA UnitsAgree ==
  ASSUME NEW S, NEW w, NEW v, \A x \in S : w[x] = v[x]
  PROVE  Units(S, w) = Units(S, v)
  BY DEF Units

\* An element adds its weight.
LEMMA UnitsAdd ==
  ASSUME NEW S, NEW w, NEW x \in S, Weighs(S, w)
  PROVE  Cardinality(Units(S, w)) = Cardinality(Units(S \ {x}, w)) + w[x]
  <1>. DEFINE R == Units(S \ {x}, w)
              X == {x} \X (1 .. w[x])
  <1>1. IsFiniteSet(R) /\ Cardinality(R) \in Nat
    BY FS_RemoveElement, UnitsFinite DEF Weighs
  <1>2. IsFiniteSet(X) /\ Cardinality(X) = w[x] /\ w[x] \in Nat
    BY UnitsOfOne DEF Weighs
  <1>3. Units(S, w) = R \cup X
    BY DEF Units
  <1>4. R \cap X = {}
    BY DEF Units
  <1>5. Cardinality({}) = 0
    BY FS_EmptySet
  <1>6. Cardinality(R \cup X)
          = Cardinality(R) + Cardinality(X) - Cardinality(R \cap X)
    <2>. HIDE DEF R, X
    <2>. QED
      BY <1>1, <1>2, FS_Union
  <1>. HIDE DEF R, X
  <1>7. /\ Cardinality(Units(S, w)) = Cardinality(R \cup X)
        /\ Cardinality(R \cap X) = Cardinality({})
    BY <1>3, <1>4, Zenon
  <1>8. Cardinality(Units(S, w)) = Cardinality(R) + w[x]
    BY <1>1, <1>2, <1>5, <1>6, <1>7
  <1>. QED
    BY <1>8 DEF R

\* What a set and a weight that differ from others in one element only do to
\* the total.
LEMMA UnitsChange ==
  ASSUME NEW S, NEW w, Weighs(S, w), NEW T, NEW v, Weighs(T, v), NEW x,
         S \ {x} = T \ {x}, \A y \in S \ {x} : w[y] = v[y]
  PROVE  Cardinality(Units(T, v)) =
           Cardinality(Units(S, w)) + (IF x \in T THEN v[x] ELSE 0)
                                    - (IF x \in S THEN w[x] ELSE 0)
  <1>1. Units(S \ {x}, w) = Units(T \ {x}, v)
    BY UnitsAgree
  <1>2. Cardinality(Units(S, w)) =
          Cardinality(Units(S \ {x}, w)) + (IF x \in S THEN w[x] ELSE 0)
    <2>1. CASE x \in S
      BY <2>1, UnitsAdd
    <2>2. CASE x \notin S
      <3>1. Cardinality(Units(S \ {x}, w)) = Cardinality(Units(S, w))
        <4>1. S \ {x} = S
          BY <2>2
        <4>. QED
          BY <4>1, Zenon
      <3>2. Cardinality(Units(S, w)) \in Nat
        BY UnitsFinite
      <3>. QED
        BY <2>2, <3>1, <3>2
    <2>. QED
      BY <2>1, <2>2
  <1>3. Cardinality(Units(T, v)) =
          Cardinality(Units(T \ {x}, v)) + (IF x \in T THEN v[x] ELSE 0)
    <2>1. CASE x \in T
      BY <2>1, UnitsAdd
    <2>2. CASE x \notin T
      <3>1. Cardinality(Units(T \ {x}, v)) = Cardinality(Units(T, v))
        <4>1. T \ {x} = T
          BY <2>2
        <4>. QED
          BY <4>1, Zenon
      <3>2. Cardinality(Units(T, v)) \in Nat
        BY UnitsFinite
      <3>. QED
        BY <2>2, <3>1, <3>2
    <2>. QED
      BY <2>1, <2>2
  <1>4. /\ Cardinality(Units(S \ {x}, w)) \in Nat
        /\ x \in S => w[x] \in Nat
        /\ x \in T => v[x] \in Nat
    BY FS_RemoveElement, UnitsFinite DEF Weighs
  <1>. QED
    BY <1>1, <1>2, <1>3, <1>4

\* Two parts that share nothing add up.
LEMMA UnitsOfParts ==
  ASSUME NEW A, NEW B, A \cap B = {}, NEW w, NEW u, NEW v,
         Weighs(A, u), Weighs(B, v),
         \A x \in A : w[x] = u[x], \A x \in B : w[x] = v[x]
  PROVE  Cardinality(Units(A \cup B, w))
           = Cardinality(Units(A, u)) + Cardinality(Units(B, v))
  <1>1. Units(A, u) = Units(A, w) /\ Units(B, v) = Units(B, w)
    BY UnitsAgree
  <1>2. /\ Units(A \cup B, w) = Units(A, w) \cup Units(B, w)
        /\ Units(A, w) \cap Units(B, w) = {}
    BY DEF Units
  <1>3. /\ IsFiniteSet(Units(A, w)) /\ Cardinality(Units(A, w)) \in Nat
        /\ IsFiniteSet(Units(B, w)) /\ Cardinality(Units(B, w)) \in Nat
    BY <1>1, UnitsFinite
  <1>4. Cardinality(Units(A, w) \cup Units(B, w))
          = Cardinality(Units(A, w)) + Cardinality(Units(B, w))
            - Cardinality(Units(A, w) \cap Units(B, w))
    BY <1>3, FS_Union
  <1>5. Cardinality(Units(A, w) \cap Units(B, w)) = 0
    BY <1>2, FS_EmptySet
  <1>6. Cardinality(Units(A \cup B, w)) = Cardinality(Units(A, w) \cup Units(B, w))
    BY <1>2, Zenon
  <1>7. Cardinality(Units(A \cup B, w))
          = Cardinality(Units(A, w)) + Cardinality(Units(B, w))
    BY <1>3, <1>4, <1>5, <1>6
  <1>. QED
    BY <1>1, <1>7

\* A renaming of the elements keeps the total.
LEMMA UnitsRenamed ==
  ASSUME NEW S, NEW w, Weighs(S, w), NEW T, NEW v, NEW f \in Bijection(S, T),
         \A x \in S : v[f[x]] = w[x]
  PROVE  Cardinality(Units(T, v)) = Cardinality(Units(S, w))
  <1>. DEFINE A == Units(S, w)
              B == Units(T, v)
              g == [u \in A |-> <<f[u[1]], u[2]>>]
  <1>1. /\ \A x \in S : f[x] \in T
        /\ \A x, y \in S : f[x] = f[y] => x = y
        /\ \A y \in T : \E x \in S : f[x] = y
    BY DEF Bijection, Injection, Surjection, IsInjective
  <1>2. /\ \A u \in A : u = <<u[1], u[2]>> /\ u[1] \in S /\ u[2] \in 1 .. w[u[1]]
        /\ \A u \in B : u = <<u[1], u[2]>> /\ u[1] \in T /\ u[2] \in 1 .. v[u[1]]
        /\ \A x \in S : \A i \in 1 .. w[x] : <<x, i>> \in A
        /\ \A y \in T : \A i \in 1 .. v[y] : <<y, i>> \in B
    BY DEF Units
  <1>. HIDE DEF A, B
  <1>3. g \in [A -> B]
    BY <1>1, <1>2
  <1>4. \A p, q \in A : g[p] = g[q] => p = q
    <2>. SUFFICES ASSUME NEW p \in A, NEW q \in A, g[p] = g[q]
                  PROVE  p = q
      OBVIOUS
    <2>1. f[p[1]] = f[q[1]] /\ p[2] = q[2]
      OBVIOUS
    <2>. QED
      BY <1>1, <1>2, <2>1
  <1>5. \A u \in B : \E p \in A : g[p] = u
    <2>. SUFFICES ASSUME NEW u \in B
                  PROVE  \E p \in A : g[p] = u
      OBVIOUS
    <2>1. PICK x \in S : f[x] = u[1]
      BY <1>1, <1>2
    <2>2. <<x, u[2]>> \in A
      BY <1>2, <2>1
    <2>3. g[<<x, u[2]>>] = <<f[x], u[2]>>
      BY <2>2
    <2>. QED
      BY <1>2, <2>1, <2>2, <2>3
  <1>6. g \in Bijection(A, B)
    BY <1>3, <1>4, <1>5, Fun_IsBij
  <1>7. IsFiniteSet(A)
    BY UnitsFinite DEF A
  <1>8. Cardinality(A) = Cardinality(B)
    BY <1>6, <1>7, FS_Bijection DEF ExistsBijection
  <1>. QED
    BY <1>8 DEF A, B

-----------------------------------------------------------------------------
(* The sums of the community modules *)

\* The recursion of MapThenSumSet over the subsets of S.
Sums(S, w, sum) ==
  sum = [T \in SUBSET S |->
           IF T = {} THEN 0
           ELSE w[CHOOSE x \in T : TRUE] + sum[T \ {CHOOSE x \in T : TRUE}]]

LEMMA SumsExist ==
  ASSUME NEW S, NEW w, Weighs(S, w)
  PROVE  Sums(S, w, [T \in SUBSET S |-> Cardinality(Units(T, w))])
  <1>. DEFINE g == [T \in SUBSET S |-> Cardinality(Units(T, w))]
  <1>1. ASSUME NEW T \in SUBSET S, T # {}
        PROVE  g[T] = w[CHOOSE x \in T : TRUE] + g[T \ {CHOOSE x \in T : TRUE}]
    <2>. DEFINE x == CHOOSE y \in T : TRUE
    <2>1. x \in T
      BY <1>1
    <2>. HIDE DEF x
    <2>2. Weighs(T, w) /\ Weighs(T \ {x}, w)
      BY FS_Subset DEF Weighs
    <2>3. /\ Cardinality(Units(T, w)) = Cardinality(Units(T \ {x}, w)) + w[x]
          /\ Cardinality(Units(T \ {x}, w)) \in Nat /\ w[x] \in Nat
      BY <2>1, <2>2, UnitsAdd, UnitsFinite DEF Weighs
    <2>4. g[T] = w[x] + g[T \ {x}]
      BY <2>3
    <2>. QED
      BY <2>4 DEF x
  <1>2. g[{}] = 0
    BY UnitsOfNone
  <1>3. g = [T \in SUBSET S |-> g[T]]
    OBVIOUS
  <1>. HIDE DEF g
  <1>4. Sums(S, w, g)
    BY <1>1, <1>2, <1>3 DEF Sums
  <1>. QED
    BY <1>4 DEF g

LEMMA SumsCount ==
  ASSUME NEW S, NEW w, Weighs(S, w), NEW sum, Sums(S, w, sum)
  PROVE  sum[S] = Cardinality(Units(S, w))
  <1>. DEFINE g == [T \in SUBSET S |-> Cardinality(Units(T, w))]
              Bad == {T \in SUBSET S : sum[T] # g[T]}
  <1>1. Sums(S, w, g)
    BY SumsExist
  <1>2. /\ FiniteSubsetsOf(S) = SUBSET S
        /\ IsWellFoundedOn(StrictSubsetOrdering(S), FiniteSubsetsOf(S))
    BY FS_FiniteSubsetsOfFinite, FS_StrictSubsetOrderingWellFounded DEF Weighs
  <1>3. IsWellFoundedOn(StrictSubsetOrdering(S), SUBSET S)
    BY <1>2
  <1>. HIDE DEF g
  <1>4. Bad = {}
    <2>. SUFFICES ASSUME Bad # {}
                  PROVE  FALSE
      OBVIOUS
    <2>1. Bad \subseteq SUBSET S
      OBVIOUS
    <2>2. PICK T \in Bad : \A U \in Bad : ~(<<U, T>> \in StrictSubsetOrdering(S))
      BY <1>3, <2>1, WFMin, Zenon
    <2>. DEFINE x == CHOOSE y \in T : TRUE
    <2>3. T # {}
      BY <1>1 DEF Sums
    <2>4. x \in T
      BY <2>3
    <2>5. /\ sum[T] = w[x] + sum[T \ {x}]
          /\ g[T] = w[x] + g[T \ {x}]
      BY <1>1, <2>3 DEF Sums
    <2>. HIDE DEF x
    <2>6. <<T \ {x}, T>> \in StrictSubsetOrdering(S)
      BY <2>4 DEF StrictSubsetOrdering
    <2>7. T \ {x} \in SUBSET S /\ T \ {x} \notin Bad
      BY <2>2, <2>6
    <2>. QED
      BY <2>5, <2>7
  <1>5. sum[S] = g[S]
    BY <1>4
  <1>. QED
    BY <1>5 DEF g
=============================================================================
