------------------------------ MODULE SetSums ------------------------------
(***************************************************************************)
(* Facts about the sums over finite sets that the specifications write     *)
(* with SumFunctionOnSet: what Elasticsearch adds up over documents and    *)
(* Spark over files.  The recursive function of the definition is unique   *)
(* and exists; all else is induction over finite sets, stated over sets of *)
(* sets so that the provers can use it.                                    *)
(***************************************************************************)
EXTENDS Integers, FiniteSets, FiniteSetsExt, TLAPS, FiniteSetTheorems,
        WellFoundedInduction

(* The summands are taken one after the other, as CHOOSE picks them.        *)
One(S) == CHOOSE x \in S : TRUE

AddsUp(sum, f, S) ==
    sum = [T \in SUBSET S |-> IF T = {} THEN 0
                              ELSE f[One(T)] + sum[T \ {One(T)}]]

-----------------------------------------------------------------------------
(* Induction: what holds of a set whenever it holds of its proper subsets.  *)
LEMMA SubsetInduction ==
    ASSUME NEW S, IsFiniteSet(S), NEW P,
           \A U \in SUBSET S : (\A V \in SUBSET U : V # U => V \in P) => U \in P
    PROVE  \A U \in SUBSET S : U \in P
<1> DEFINE bad == {U \in SUBSET S : U \notin P}
<1>1. SUFFICES ASSUME bad # {} PROVE FALSE
  OBVIOUS
<1>2. bad \subseteq FiniteSubsetsOf(S)
  BY FS_FiniteSubsetsOfFinite
<1>3. PICK U \in bad : \A V \in bad : <<V, U>> \notin StrictSubsetOrdering(S)
  <2> HIDE DEF bad
  <2> QED  BY <1>1, <1>2, FS_StrictSubsetOrderingWellFounded, WFMin
<1>4. ASSUME NEW V \in SUBSET U, V # U
      PROVE  V \in P
  <2>1. V \in SUBSET S /\ U \in SUBSET S
    OBVIOUS
  <2>2. <<V, U>> \in StrictSubsetOrdering(S)
    BY <1>4, <2>1 DEF StrictSubsetOrdering
  <2> QED  BY <1>3, <2>1, <2>2
<1> QED  BY <1>3, <1>4

-----------------------------------------------------------------------------
(* The recursive function of the definition.                                *)

LEMMA OneFact == \A S : S # {} => One(S) \in S
  BY DEF One

LEMMA SumsAgree ==
    ASSUME NEW f, NEW S, IsFiniteSet(S), NEW T, IsFiniteSet(T),
           NEW a, AddsUp(a, f, S), NEW b, AddsUp(b, f, T)
    PROVE  \A U \in SUBSET (S \cap T) : a[U] = b[U]
<1> DEFINE P == {U \in SUBSET (S \cap T) : a[U] = b[U]}
<1>1. IsFiniteSet(S \cap T)
  BY FS_Intersection
<1>2. ASSUME NEW U \in SUBSET (S \cap T), \A V \in SUBSET U : V # U => V \in P
      PROVE  U \in P
  <2>1. U \in SUBSET S /\ U \in SUBSET T
    OBVIOUS
  <2>2. /\ a[U] = IF U = {} THEN 0 ELSE f[One(U)] + a[U \ {One(U)}]
        /\ b[U] = IF U = {} THEN 0 ELSE f[One(U)] + b[U \ {One(U)}]
    BY <2>1 DEF AddsUp
  <2>3. U # {} => a[U \ {One(U)}] = b[U \ {One(U)}]
    BY <1>2, OneFact
  <2> QED  BY <2>2, <2>3
<1> HIDE DEF P
<1>3. \A U \in SUBSET (S \cap T) : U \in P
  BY <1>1, <1>2, SubsetInduction
<1> QED  BY <1>3 DEF P

LEMMA SumExists ==
    ASSUME NEW f, NEW S, IsFiniteSet(S)
    PROVE  \E sum : AddsUp(sum, f, S)
<1> DEFINE P == {U \in SUBSET S : \E sum : AddsUp(sum, f, U)}
<1>1. ASSUME NEW U \in SUBSET S, \A V \in SUBSET U : V # U => V \in P
      PROVE  U \in P
  <2> DEFINE of(V) == CHOOSE sum : AddsUp(sum, f, V)
             rest(V) == V \ {One(V)}
             new == [V \in SUBSET U |-> IF V = {} THEN 0
                                        ELSE f[One(V)] + of(rest(V))[rest(V)]]
  <2>1. ASSUME NEW V \in SUBSET U, V # U
        PROVE  AddsUp(of(V), f, V) /\ IsFiniteSet(V)
    BY <1>1, <2>1, FS_Subset
  <2>2. ASSUME NEW V \in SUBSET U, V # {}
        PROVE  rest(V) \in SUBSET U /\ rest(V) # U
    BY <2>2, OneFact
  <2>3. ASSUME NEW V \in SUBSET U, V # U
        PROVE  new[V] = of(V)[V]
    <3>1. of(V)[V] = IF V = {} THEN 0 ELSE f[One(V)] + of(V)[rest(V)]
      <4>1. AddsUp(of(V), f, V)
        BY <2>1, <2>3
      <4> HIDE DEF of
      <4> QED  BY <4>1 DEF AddsUp
    <3>2. ASSUME V # {}
          PROVE  of(V)[rest(V)] = of(rest(V))[rest(V)]
      <4>1. /\ AddsUp(of(V), f, V) /\ IsFiniteSet(V)
            /\ AddsUp(of(rest(V)), f, rest(V)) /\ IsFiniteSet(rest(V))
        BY <2>1, <2>2, <2>3, <3>2
      <4>2. rest(V) \in SUBSET (V \cap rest(V))
        OBVIOUS
      <4> HIDE DEF of, rest
      <4> QED  BY <4>1, <4>2, SumsAgree
    <3> HIDE DEF of, rest
    <3> QED  BY <3>1, <3>2
  <2>4. AddsUp(new, f, U)
    <3>1. \A V \in SUBSET U : V # {} => new[rest(V)] = of(rest(V))[rest(V)]
      <4> HIDE DEF new, of, rest
      <4> QED  BY <2>2, <2>3
    <3> HIDE DEF of
    <3> QED  BY <3>1 DEF AddsUp
  <2> HIDE DEF new
  <2> QED  BY <2>4
<1> HIDE DEF P
<1>2. \A U \in SUBSET S : U \in P
  BY <1>1, SubsetInduction
<1> QED  BY <1>2 DEF P

LEMMA SumAddsUp ==
    ASSUME NEW f, NEW S, IsFiniteSet(S)
    PROVE  \E sum : AddsUp(sum, f, S) /\ SumFunctionOnSet(f, S) = sum[S]
<1>1. PICK sum : AddsUp(sum, f, S)
  BY SumExists
<1> QED  BY <1>1 DEF AddsUp, One, SumFunctionOnSet, FoldFunctionOnSet, MapThenFoldSet

LEMMA SumUnfold ==
    ASSUME NEW f, NEW S, IsFiniteSet(S)
    PROVE  SumFunctionOnSet(f, S) =
               IF S = {} THEN 0
               ELSE f[One(S)] + SumFunctionOnSet(f, S \ {One(S)})
<1> DEFINE R == S \ {One(S)}
<1>1. IsFiniteSet(R)
  BY FS_Subset
<1>2. PICK a : AddsUp(a, f, S) /\ SumFunctionOnSet(f, S) = a[S]
  BY SumAddsUp
<1>3. PICK b : AddsUp(b, f, R) /\ SumFunctionOnSet(f, R) = b[R]
  BY <1>1, SumAddsUp
<1>4. a[R] = b[R]
  <2>1. R \in SUBSET (S \cap R)
    OBVIOUS
  <2> HIDE DEF R
  <2> QED  BY <1>1, <1>2, <1>3, <2>1, SumsAgree
<1>5. a[S] = IF S = {} THEN 0 ELSE f[One(S)] + a[R]
  BY <1>2 DEF AddsUp
<1> HIDE DEF R
<1>6. SumFunctionOnSet(f, S) =
          IF S = {} THEN 0 ELSE f[One(S)] + SumFunctionOnSet(f, R)
  BY <1>2, <1>3, <1>4, <1>5
<1> QED  BY <1>6 DEF R

-----------------------------------------------------------------------------
(* Sums of integers.                                                        *)

LEMMA SumEmpty == \A f : SumFunctionOnSet(f, {}) = 0
  BY SumUnfold, FS_EmptySet

(* The order of the summands does not matter.                               *)
LEMMA SumRemove ==
    ASSUME NEW S, IsFiniteSet(S), NEW f, \A x \in S : f[x] \in Int
    PROVE  /\ SumFunctionOnSet(f, S) \in Int
           /\ \A x \in S : SumFunctionOnSet(f, S) =
                               f[x] + SumFunctionOnSet(f, S \ {x})
<1> DEFINE Sum(U) == SumFunctionOnSet(f, U)
           P == {U \in SUBSET S : /\ Sum(U) \in Int
                                  /\ \A x \in U : Sum(U) = f[x] + Sum(U \ {x})}
<1>1. ASSUME NEW U \in SUBSET S, \A V \in SUBSET U : V # U => V \in P
      PROVE  U \in P
  <2>1. Sum(U) = IF U = {} THEN 0 ELSE f[One(U)] + Sum(U \ {One(U)})
    <3>1. IsFiniteSet(U)
      BY FS_Subset
    <3> QED  BY <3>1, SumUnfold
  <2>2. CASE U = {}
    BY <2>1, <2>2
  <2>3. CASE U # {}
    <3> DEFINE c == One(U)
    <3>1. c \in U
      BY <2>3, OneFact
    <3>2. Sum(U) = f[c] + Sum(U \ {c})
      BY <2>1, <2>3
    <3> HIDE DEF c, Sum
    <3>3. ASSUME NEW x \in U
          PROVE  /\ U \ {x} \in P /\ Sum(U \ {x}) \in Int /\ f[x] \in Int
                 /\ \A y \in U \ {x} :
                        Sum(U \ {x}) = f[y] + Sum((U \ {x}) \ {y})
      BY <1>1
    <3>4. ASSUME NEW x \in U
          PROVE  Sum(U) = f[x] + Sum(U \ {x})
      <4>1. CASE x = c
        BY <3>2, <4>1
      <4>2. CASE x # c
        <5> DEFINE R == (U \ {c}) \ {x}
        <5>1. Sum(U \ {c}) = f[x] + Sum(R)
          BY <3>1, <3>3, <4>2
        <5>2. R = (U \ {x}) \ {c}
          OBVIOUS
        <5>3. Sum(U \ {x}) = f[c] + Sum(R)
          BY <3>1, <3>3, <4>2, <5>2
        <5>4. R \in SUBSET U /\ R # U
          BY <3>1
        <5>5. Sum(R) \in Int
          BY <1>1, <5>4
        <5> HIDE DEF R
        <5> QED  BY <3>1, <3>2, <3>3, <5>1, <5>3, <5>5
      <4> QED  BY <4>1, <4>2
    <3>5. Sum(U) \in Int
      BY <3>1, <3>2, <3>3
    <3> QED  BY <3>4, <3>5
  <2> QED  BY <2>2, <2>3
<1> HIDE DEF P
<1>2. S \in P
  BY <1>1, SubsetInduction
<1> QED  BY <1>2 DEF P

LEMMA SumInt ==
    ASSUME NEW S, IsFiniteSet(S), NEW f, \A x \in S : f[x] \in Int
    PROVE  \A U \in SUBSET S :
               /\ IsFiniteSet(U) /\ SumFunctionOnSet(f, U) \in Int
               /\ \A x \in U : SumFunctionOnSet(f, U) =
                                   f[x] + SumFunctionOnSet(f, U \ {x})
  BY FS_Subset, SumRemove

(* Whether two sums are equal, or one at most the other, is decided by their *)
(* summands.                                                                *)
LEMMA SumMonotone ==
    ASSUME NEW S, IsFiniteSet(S), NEW f, NEW g,
           \A x \in S : f[x] \in Int /\ g[x] \in Int /\ f[x] <= g[x]
    PROVE  SumFunctionOnSet(f, S) <= SumFunctionOnSet(g, S)
<1> DEFINE F(U) == SumFunctionOnSet(f, U)
           G(U) == SumFunctionOnSet(g, U)
           P == {U \in SUBSET S : F(U) <= G(U)}
<1>1. ASSUME NEW U \in SUBSET S, \A V \in SUBSET U : V # U => V \in P
      PROVE  U \in P
  <2>1. CASE U = {}
    <3>1. F({}) = 0 /\ G({}) = 0
      BY SumEmpty
    <3> HIDE DEF F, G
    <3> QED  BY <2>1, <3>1
  <2>2. ASSUME NEW x \in U
        PROVE  U \in P
    <3>1. /\ F(U) = f[x] + F(U \ {x}) /\ F(U \ {x}) \in Int
          /\ G(U) = g[x] + G(U \ {x}) /\ G(U \ {x}) \in Int
      BY SumInt
    <3> HIDE DEF F, G
    <3>2. F(U \ {x}) <= G(U \ {x})
      BY <1>1
    <3> QED  BY <3>1, <3>2
  <2> QED  BY <2>1, <2>2
<1> HIDE DEF P
<1>2. S \in P
  BY <1>1, SubsetInduction
<1> QED  BY <1>2 DEF P

LEMMA SumEqual ==
    ASSUME NEW S, IsFiniteSet(S), NEW f, NEW g,
           \A x \in S : f[x] \in Int /\ g[x] = f[x]
    PROVE  SumFunctionOnSet(f, S) = SumFunctionOnSet(g, S)
<1>1. /\ SumFunctionOnSet(f, S) <= SumFunctionOnSet(g, S)
      /\ SumFunctionOnSet(g, S) <= SumFunctionOnSet(f, S)
  BY SumMonotone
<1>2. SumFunctionOnSet(f, S) \in Int /\ SumFunctionOnSet(g, S) \in Int
  BY SumInt
<1> QED  BY <1>1, <1>2

(* Sums over disjoint sets, and of two functions.                           *)
LEMMA SumUnion ==
    ASSUME NEW S, IsFiniteSet(S), NEW f, \A x \in S : f[x] \in Int,
           NEW A \in SUBSET S
    PROVE  SumFunctionOnSet(f, S) =
               SumFunctionOnSet(f, A) + SumFunctionOnSet(f, S \ A)
<1> DEFINE F(U) == SumFunctionOnSet(f, U)
           P == {U \in SUBSET A : F((S \ A) \cup U) = F(U) + F(S \ A)}
<1> USE SumInt
<1>1. ASSUME NEW U \in SUBSET A, \A V \in SUBSET U : V # U => V \in P
      PROVE  U \in P
  <2>1. CASE U = {}
    <3>1. F({}) = 0
      BY SumEmpty
    <3>2. F(S \ A) \in Int /\ (S \ A) \cup U = S \ A
      BY <2>1
    <3> HIDE DEF F
    <3> QED  BY <2>1, <3>1, <3>2
  <2>2. ASSUME NEW x \in U
        PROVE  U \in P
    <3> DEFINE B == (S \ A) \cup U
    <3>1. /\ F(U) = f[x] + F(U \ {x}) /\ F(U \ {x}) \in Int /\ F(S \ A) \in Int
      BY SumInt
    <3>2. B \in SUBSET S /\ x \in B /\ B \ {x} = (S \ A) \cup (U \ {x})
      OBVIOUS
    <3>3. F(B) = f[x] + F(B \ {x})
      <4> HIDE DEF B
      <4> QED  BY <3>2, SumInt
    <3>4. f[x] \in Int
      OBVIOUS
    <3> HIDE DEF F
    <3>5. F(B \ {x}) = F(U \ {x}) + F(S \ A)
      BY <1>1, <3>2
    <3> QED  BY <3>1, <3>3, <3>4, <3>5
  <2> QED  BY <2>1, <2>2
<1> HIDE DEF P
<1>2. IsFiniteSet(A)
  BY FS_Subset
<1>3. A \in P
  BY <1>1, <1>2, SubsetInduction
<1>4. (S \ A) \cup A = S
  OBVIOUS
<1> QED  BY <1>3, <1>4 DEF P

LEMMA SumPlus ==
    ASSUME NEW S, IsFiniteSet(S), NEW f, NEW g, NEW h,
           \A x \in S : f[x] \in Int /\ g[x] \in Int /\ h[x] = f[x] + g[x]
    PROVE  SumFunctionOnSet(h, S) =
               SumFunctionOnSet(f, S) + SumFunctionOnSet(g, S)
<1> DEFINE F(U) == SumFunctionOnSet(f, U)
           G(U) == SumFunctionOnSet(g, U)
           H(U) == SumFunctionOnSet(h, U)
           P == {U \in SUBSET S : H(U) = F(U) + G(U)}
<1>1. ASSUME NEW U \in SUBSET S, \A V \in SUBSET U : V # U => V \in P
      PROVE  U \in P
  <2>1. CASE U = {}
    <3>1. F({}) = 0 /\ G({}) = 0 /\ H({}) = 0
      BY SumEmpty
    <3> HIDE DEF F, G, H
    <3> QED  BY <2>1, <3>1
  <2>2. ASSUME NEW x \in U
        PROVE  U \in P
    <3>1. /\ F(U) = f[x] + F(U \ {x}) /\ F(U \ {x}) \in Int
          /\ G(U) = g[x] + G(U \ {x}) /\ G(U \ {x}) \in Int
      BY SumInt
    <3>2. H(U) = h[x] + H(U \ {x})
      BY SumInt
    <3> HIDE DEF F, G, H
    <3>3. H(U \ {x}) = F(U \ {x}) + G(U \ {x})
      BY <1>1
    <3> QED  BY <3>1, <3>2, <3>3
  <2> QED  BY <2>1, <2>2
<1> HIDE DEF P
<1>2. S \in P
  BY <1>1, SubsetInduction
<1> QED  BY <1>2 DEF P

-----------------------------------------------------------------------------
(* Sums of natural numbers.                                                 *)

LEMMA SumNat ==
    ASSUME NEW S, IsFiniteSet(S), NEW f, \A x \in S : f[x] \in Nat
    PROVE  /\ SumFunctionOnSet(f, S) \in Nat
           /\ \A A \in SUBSET S : SumFunctionOnSet(f, A) <= SumFunctionOnSet(f, S)
           /\ \A x \in S : f[x] <= SumFunctionOnSet(f, S)
<1> DEFINE zero == [x \in S |-> 0]
           F(U) == SumFunctionOnSet(f, U)
           P == {U \in SUBSET S : F(U) \in Nat}
<1>1. ASSUME NEW U \in SUBSET S, \A V \in SUBSET U : V # U => V \in P
      PROVE  U \in P
  <2>1. CASE U = {}
    BY <2>1, SumEmpty
  <2>2. ASSUME NEW x \in U
        PROVE  U \in P
    <3>1. F(U) = f[x] + F(U \ {x})
      BY SumInt
    <3> HIDE DEF F
    <3>2. F(U \ {x}) \in Nat /\ f[x] \in Nat
      BY <1>1
    <3> QED  BY <3>1, <3>2
  <2> QED  BY <2>1, <2>2
<1> HIDE DEF P
<1>2. \A U \in SUBSET S : U \in P
  BY <1>1, SubsetInduction
<1>3. \A U \in SUBSET S : F(U) \in Nat
  BY <1>2 DEF P
<1>4. ASSUME NEW A \in SUBSET S
      PROVE  F(A) <= F(S)
  <2>1. F(S) = F(A) + F(S \ A)
    BY SumUnion
  <2>2. F(S) \in Nat /\ F(A) \in Nat /\ F(S \ A) \in Nat
    BY <1>3
  <2> HIDE DEF F
  <2> QED  BY <2>1, <2>2
<1>5. ASSUME NEW x \in S
      PROVE  f[x] <= F(S)
  <2>1. F(S) = f[x] + F(S \ {x}) /\ F(S \ {x}) \in Nat
    BY <1>3, SumInt
  <2> HIDE DEF F
  <2> QED  BY <2>1
<1> QED  BY <1>3, <1>4, <1>5

(* A sum is not 0 because of one of its summands.                           *)
LEMMA SumPositive ==
    ASSUME NEW S, IsFiniteSet(S), NEW f, \A x \in S : f[x] \in Nat
    PROVE  SumFunctionOnSet(f, S) > 0 <=> \E x \in S : f[x] > 0
<1>1. ASSUME \A x \in S : f[x] = 0
      PROVE  SumFunctionOnSet(f, S) = 0
  <2> DEFINE P == {U \in SUBSET S : SumFunctionOnSet(f, U) = 0}
  <2>1. ASSUME NEW U \in SUBSET S, \A V \in SUBSET U : V # U => V \in P
        PROVE  U \in P
    <3>1. CASE U = {}
      BY <3>1, SumEmpty
    <3>2. ASSUME NEW x \in U
          PROVE  U \in P
      <4>1. SumFunctionOnSet(f, U) = f[x] + SumFunctionOnSet(f, U \ {x})
        BY SumInt
      <4>2. f[x] = 0 /\ SumFunctionOnSet(f, U \ {x}) = 0
        BY <1>1, <2>1
      <4> QED  BY <4>1, <4>2
    <3> QED  BY <3>1, <3>2
  <2> HIDE DEF P
  <2>2. S \in P
    BY <2>1, SubsetInduction
  <2> QED  BY <2>2 DEF P
<1>2. ASSUME NEW x \in S, f[x] > 0
      PROVE  SumFunctionOnSet(f, S) > 0
  <2>1. f[x] <= SumFunctionOnSet(f, S) /\ SumFunctionOnSet(f, S) \in Nat
    BY SumNat
  <2> QED  BY <1>2, <2>1
<1> QED  BY <1>1, <1>2, SumNat

-----------------------------------------------------------------------------
(* Sums and cardinalities.                                                  *)

LEMMA SumConstant ==
    ASSUME NEW R, IsFiniteSet(R), NEW A \in SUBSET R, NEW k \in Int
    PROVE  SumFunctionOnSet([x \in R |-> IF x \in A THEN k ELSE 0], R) =
               k * Cardinality(A)
<1> DEFINE f == [x \in R |-> IF x \in A THEN k ELSE 0]
           F(U) == SumFunctionOnSet(f, U)
           P == {U \in SUBSET R : F(U) = k * Cardinality(U \cap A)}
<1>1. \A x \in R : f[x] \in Int
  OBVIOUS
<1> HIDE DEF f
<1>2. ASSUME NEW U \in SUBSET R, \A V \in SUBSET U : V # U => V \in P
      PROVE  U \in P
  <2>1. CASE U = {}
    <3>1. F({}) = 0 /\ Cardinality({}) = 0
      BY SumEmpty, FS_EmptySet
    <3>2. U \cap A = {} /\ k * 0 = 0
      BY <2>1
    <3> HIDE DEF F
    <3> QED  BY <2>1, <3>1, <3>2
  <2>2. ASSUME NEW x \in U
        PROVE  U \in P
    <3> DEFINE V == U \ {x}
               n == Cardinality(V \cap A)
    <3>1. F(U) = f[x] + F(V)
      BY <1>1, SumInt
    <3>2. F(V) = k * n
      BY <1>2
    <3>3. f[x] = IF x \in A THEN k ELSE 0
      BY DEF f
    <3>4. IsFiniteSet(V \cap A) /\ n \in Nat
      BY FS_Subset, FS_CardinalityType
    <3>5. Cardinality(U \cap A) = IF x \in A THEN n + 1 ELSE n
      <4>1. CASE x \in A
        <5>1. U \cap A = (V \cap A) \cup {x} /\ x \notin V \cap A
          BY <4>1
        <5>2. Cardinality((V \cap A) \cup {x}) = n + 1
          <6> HIDE DEF V
          <6> QED  BY <3>4, <5>1, FS_AddElement
        <5> QED  BY <4>1, <5>1, <5>2
      <4>2. CASE x \notin A
        <5>1. U \cap A = V \cap A
          BY <4>2
        <5> QED  BY <4>2, <5>1
      <4> QED  BY <4>1, <4>2
    <3> HIDE DEF F, n, V
    <3>6. k * (n + 1) = k * n + k /\ k * n \in Int
      BY <3>4, Z3
    <3>7. F(U) = k * Cardinality(U \cap A)
      <4>1. CASE x \in A
        BY <3>1, <3>2, <3>3, <3>5, <3>6, <4>1
      <4>2. CASE x \notin A
        BY <3>1, <3>2, <3>3, <3>5, <3>6, <4>2
      <4> QED  BY <4>1, <4>2
    <3> QED  BY <3>7
  <2> QED  BY <2>1, <2>2
<1>3. R \in P
  <2> HIDE DEF P
  <2> QED  BY <1>2, SubsetInduction
<1>4. R \cap A = A
  OBVIOUS
<1> QED  BY <1>3, <1>4 DEF f

(* The elements of disjoint sets, counted one set after the other.          *)
LEMMA SumCardinality ==
    ASSUME NEW S, IsFiniteSet(S), NEW T, NEW M \in [S -> SUBSET T],
           \A x \in S : IsFiniteSet(M[x]),
           \A x, y \in S : x # y => M[x] \cap M[y] = {},
           NEW A, A = UNION {M[x] : x \in S},
           NEW f, \A x \in S : f[x] = Cardinality(M[x])
    PROVE  IsFiniteSet(A) /\ SumFunctionOnSet(f, S) = Cardinality(A)
<1> DEFINE all(U) == UNION {M[x] : x \in U}
           P == {U \in SUBSET S : /\ IsFiniteSet(all(U))
                                  /\ SumFunctionOnSet(f, U) = Cardinality(all(U))}
<1>1. \A x \in S : f[x] \in Int /\ f[x] = Cardinality(M[x])
  BY FS_CardinalityType
<1>2. ASSUME NEW U \in SUBSET S, \A V \in SUBSET U : V # U => V \in P
      PROVE  U \in P
  <2>1. CASE U = {}
    <3>1. all(U) = {}
      BY <2>1
    <3> HIDE DEF all
    <3> QED  BY <2>1, <3>1, SumEmpty, FS_EmptySet
  <2>2. ASSUME NEW x \in U
        PROVE  U \in P
    <3> DEFINE V == U \ {x}
    <3>1. all(U) = M[x] \cup all(V) /\ M[x] \cap all(V) = {}
      OBVIOUS
    <3>2. IsFiniteSet(all(V)) /\ SumFunctionOnSet(f, V) = Cardinality(all(V))
      BY <1>2
    <3>3. SumFunctionOnSet(f, U) = f[x] + SumFunctionOnSet(f, V)
      BY <1>1, SumInt
    <3> HIDE DEF all, V
    <3>4. /\ IsFiniteSet(M[x] \cup all(V))
          /\ Cardinality(M[x] \cup all(V)) =
                 Cardinality(M[x]) + Cardinality(all(V)) - Cardinality({})
      BY <3>1, <3>2, FS_Union
    <3>5. Cardinality(M[x]) \in Nat /\ Cardinality(all(V)) \in Nat
          /\ Cardinality({}) = 0
      BY <3>2, FS_CardinalityType, FS_EmptySet
    <3>6. IsFiniteSet(all(U)) /\ SumFunctionOnSet(f, U) = Cardinality(all(U))
      <4>1. f[x] = Cardinality(M[x])
        BY <1>1
      <4> QED  BY <3>1, <3>2, <3>3, <3>4, <3>5, <4>1
    <3> QED  BY <3>6
  <2> QED  BY <2>1, <2>2
<1>3. S \in P
  <2> HIDE DEF P
  <2> QED  BY <1>2, SubsetInduction
<1> QED  BY <1>3

(* A table added up by lines or by columns.                                 *)
LEMMA SumExchange ==
    ASSUME NEW S, IsFiniteSet(S), NEW R, IsFiniteSet(R), NEW m,
           \A x \in S : \A y \in R : m[x][y] \in Int
    PROVE  SumFunctionOnSet(
               [y \in R |-> SumFunctionOnSet([x \in S |-> m[x][y]], S)], R) =
           SumFunctionOnSet([x \in S |-> SumFunctionOnSet(m[x], R)], S)
<1> DEFINE column(y) == [x \in S |-> m[x][y]]
           lines == [x \in S |-> SumFunctionOnSet(m[x], R)]
           part(U) == [y \in R |-> SumFunctionOnSet(column(y), U)]
           P == {U \in SUBSET S : SumFunctionOnSet(part(U), R) =
                                      SumFunctionOnSet(lines, U)}
<1>1. \A y \in R : \A x \in S : column(y)[x] = m[x][y] /\ column(y)[x] \in Int
  OBVIOUS
<1>2. \A x \in S : lines[x] = SumFunctionOnSet(m[x], R) /\ lines[x] \in Int
  BY SumInt
<1> HIDE DEF column, lines
<1>3. ASSUME NEW U \in SUBSET S, \A V \in SUBSET U : V # U => V \in P
      PROVE  U \in P
  <2>1. CASE U = {}
    <3>1. \A y \in R : part(U)[y] = 0
      BY <2>1, SumEmpty
    <3> HIDE DEF part
    <3>2. SumFunctionOnSet(part(U), R) = 0
      <4>1. /\ \A y \in R : part(U)[y] \in Nat
            /\ ~ \E y \in R : part(U)[y] > 0
        BY <3>1
      <4> QED  BY <4>1, SumNat, SumPositive
    <3> QED  BY <2>1, <3>2, SumEmpty
  <2>2. ASSUME NEW x \in U
        PROVE  U \in P
    <3> DEFINE V == U \ {x}
    <3>1. ASSUME NEW y \in R
          PROVE  /\ m[x][y] \in Int /\ part(V)[y] \in Int
                 /\ part(U)[y] = m[x][y] + part(V)[y]
      <4>1. /\ SumFunctionOnSet(column(y), U) =
                   column(y)[x] + SumFunctionOnSet(column(y), V)
            /\ SumFunctionOnSet(column(y), V) \in Int
        BY <1>1, SumInt
      <4> QED  BY <1>1, <4>1
    <3>2. SumFunctionOnSet(lines, U) = lines[x] + SumFunctionOnSet(lines, V)
      BY <1>2, SumInt
    <3>3. SumFunctionOnSet(part(V), R) = SumFunctionOnSet(lines, V)
      BY <1>3
    <3> HIDE DEF part, V
    <3>4. SumFunctionOnSet(part(U), R) =
              SumFunctionOnSet(m[x], R) + SumFunctionOnSet(part(V), R)
      BY <3>1, SumPlus
    <3>5. SumFunctionOnSet(part(U), R) = SumFunctionOnSet(lines, U)
      BY <1>2, <3>2, <3>3, <3>4
    <3> QED  BY <3>5
  <2> QED  BY <2>1, <2>2
<1>4. S \in P
  <2> HIDE DEF P
  <2> QED  BY <1>3, SubsetInduction
<1> QED  BY <1>4 DEF column, lines

=============================================================================
