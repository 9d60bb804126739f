-------------------------- MODULE GlobalPlaneProofs --------------------------
(***************************************************************************)
(* Proofs about GlobalPlane for any number of clusters, entries of the     *)
(* route, monitors and solver cycles: the weights of the solver's plans,   *)
(* the order of shifts, checks and rollbacks, the sum of the weights of    *)
(* the route, and the number of clusters left awake.                       *)
(***************************************************************************)
EXTENDS GlobalPlane, FiniteSetTheorems, TLAPS

-----------------------------------------------------------------------------
(* Minima, maxima and sums over finite sets.  What would be an induction     *)
(* argues by a smallest case that fails: LeastNat and SmallestSubset give    *)
(* it, and the case just below holds.                                        *)

\* A set of natural numbers that is not empty has a least element.
LEMMA LeastNat ==
  ASSUME NEW N \in SUBSET Nat, N # {}
  PROVE  \E x \in N : \A y \in N : x <= y
<1>1. PICK x \in N : \A y \in N : ~(<<y, x>> \in OpToRel(<, Nat))
  BY WFMin, NatLessThanWellFounded, Zenon
<1>2. \A a, b \in Nat : b < a => <<b, a>> \in OpToRel(<, Nat)
  BY Zenon DEF OpToRel
<1>3. \A y \in N : ~(y < x)
  BY <1>1, <1>2, Zenon
<1>4. QED  BY <1>3

\* Among the subsets of a finite set that have a property, one has no smaller
\* one that has it.
LEMMA SmallestSubset ==
  ASSUME NEW S, IsFiniteSet(S), NEW B \in SUBSET (SUBSET S), B # {}
  PROVE  \E s \in B : \A t \in SUBSET s : t # s => t \notin B
<1> DEFINE N == {n \in Nat : \E s \in B : Cardinality(s) = n}
<1>1. \A s \in SUBSET S : IsFiniteSet(s) /\ Cardinality(s) \in Nat
  BY FS_Subset, FS_CardinalityType, Zenon
<1>2. N \in SUBSET Nat /\ N # {}
  <2>1. PICK s \in B : TRUE
    BY Zenon
  <2>2. Cardinality(s) \in N
    BY <1>1, <2>1, Zenon
  <2>3. QED  BY <2>2, Zenon
<1>3. PICK n \in N : \A m \in N : n <= m
  BY <1>2, LeastNat, Zenon
<1>4. PICK s \in B : Cardinality(s) = n
  BY <1>3, Zenon
<1>5. ASSUME NEW t \in SUBSET s, t # s, t \in B
      PROVE  FALSE
  <2>1. s \in SUBSET S /\ t \in SUBSET S
    BY <1>5, Zenon
  <2>2. Cardinality(t) <= Cardinality(s) /\ Cardinality(t) # Cardinality(s)
    BY <1>1, <1>5, <2>1, FS_Subset, Zenon
  <2>3. Cardinality(t) \in N
    BY <1>1, <1>5, <2>1, Zenon
  <2>4. n <= Cardinality(t)
    BY <1>3, <2>3, Zenon
  <2>5. QED  BY <1>1, <1>4, <2>1, <2>2, <2>4
<1>6. QED  BY <1>4, <1>5, Zenon

-----------------------------------------------------------------------------
(* The recursive function behind SumFunctionOnSet. *)

\* A finite sum of integers.
Summable(f, S) == IsFiniteSet(S) /\ \A x \in S : f[x] \in Int

Pick(s) == CHOOSE x \in s : TRUE

Sums(f, S) ==
  CHOOSE g : g = [s \in SUBSET S |-> IF s = {} THEN 0 ELSE f[Pick(s)] + g[s \ {Pick(s)}]]

LEMMA SumIsSums ==
  ASSUME NEW f, NEW S
  PROVE  SumFunctionOnSet(f, S) = Sums(f, S)[S]
  BY Zenon DEF Sums, Pick, SumFunctionOnSet, FoldFunctionOnSet, MapThenFoldSet

LEMMA PickIn ==
  ASSUME NEW s, s # {}
  PROVE  Pick(s) \in s
  BY Zenon DEF Pick

\* There is a function that satisfies the equation, so Sums does: it can be
\* found for the sets with at most n elements, for every n.
LEMMA SumsDef ==
  ASSUME NEW S, NEW f, Summable(f, S)
  PROVE  Sums(f, S) =
           [s \in SUBSET S |-> IF s = {} THEN 0 ELSE f[Pick(s)] + Sums(f, S)[s \ {Pick(s)}]]
<1> IsFiniteSet(S) /\ \A x \in S : f[x] \in Int
  BY Zenon DEF Summable
<1> DEFINE Body(g, s) == IF s = {} THEN 0 ELSE f[Pick(s)] + g[s \ {Pick(s)}]
           Upto(g, n) == \A s \in SUBSET S : Cardinality(s) <= n => g[s] = Body(g, s)
           Fails == {n \in Nat : ~\E g \in [SUBSET S -> Int] : Upto(g, n)}
<1>0. \A s \in SUBSET S : IsFiniteSet(s) /\ Cardinality(s) \in Nat /\ Cardinality(s) <= Cardinality(S)
  BY FS_Subset, FS_CardinalityType, Zenon
<1>1. \A g \in [SUBSET S -> Int], s \in SUBSET S : Body(g, s) \in Int
  BY PickIn
<1>2. Fails = {}
  <2> SUFFICES ASSUME Fails # {} PROVE FALSE
    BY Zenon
  <2>1. PICK n \in Fails : \A m \in Fails : n <= m
    BY LeastNat, Zenon
  <2>2. n # 0
    <3> DEFINE zero == [s \in SUBSET S |-> 0]
    <3>1. \A s \in SUBSET S : Cardinality(s) <= 0 => s = {}
      BY <1>0, FS_EmptySet
    <3>2. zero \in [SUBSET S -> Int] /\ Upto(zero, 0)
      BY <3>1
    <3> HIDE DEF zero, Upto
    <3>3. 0 \notin Fails
      BY <3>2, Zenon
    <3>4. QED  BY <2>1, <3>3, Zenon
  <2>3. n - 1 \in Nat /\ n - 1 \notin Fails
    <3>1. n \in Nat
      BY <2>1, Zenon
    <3> HIDE DEF Fails
    <3>2. QED  BY <2>1, <2>2, <3>1
  <2>4. PICK g \in [SUBSET S -> Int] : Upto(g, n - 1)
    BY <2>3, Zenon
  <2> DEFINE h == [s \in SUBSET S |-> Body(g, s)]
  <2>5. h \in [SUBSET S -> Int]
    BY <1>1, Zenon
  <2>6. ASSUME NEW s \in SUBSET S, Cardinality(s) <= n
        PROVE  h[s] = Body(h, s)
    <3>1. CASE s = {}
      BY <3>1, Zenon
    <3>2. CASE s # {}
      <4> DEFINE r == s \ {Pick(s)}
      <4>1. Pick(s) \in s /\ r \in SUBSET S
        BY <3>2, PickIn, Zenon
      <4>2. Cardinality(r) <= n - 1
        BY <1>0, <2>6, <4>1, FS_RemoveElement
      <4>3. g[r] = Body(g, r)
        BY <2>4, <4>1, <4>2, Zenon
      <4>4. h[r] = g[r]
        BY <4>1, <4>3, Zenon
      <4>5. h[s] = f[Pick(s)] + g[r]
        BY <3>2, Zenon
      <4> HIDE DEF h, r
      <4>6. QED  BY <3>2, <4>4, <4>5, Zenon DEF r
    <3>3. QED  BY <3>1, <3>2, Zenon
  <2>7. Upto(h, n)
    BY <2>6, Zenon
  <2>8. QED  BY <2>1, <2>5, <2>7, Zenon
<1>3. PICK g \in [SUBSET S -> Int] : Upto(g, Cardinality(S))
  BY <1>2, FS_CardinalityType, Zenon
<1>4. \A s \in SUBSET S : g[s] = Body(g, s)
  BY <1>0, <1>3, Zenon
<1>5. g = [s \in SUBSET S |-> Body(g, s)]
  BY <1>4, Zenon
<1>6. QED  BY <1>5, Zenon DEF Sums

LEMMA SumsAt ==
  ASSUME NEW S, NEW f, Summable(f, S)
  PROVE  /\ Sums(f, S)[{}] = 0
         /\ \A s \in SUBSET S : s # {} =>
               Sums(f, S)[s] = f[Pick(s)] + Sums(f, S)[s \ {Pick(s)}]
<1> IsFiniteSet(S) /\ \A x \in S : f[x] \in Int
  BY Zenon DEF Summable
<1> DEFINE g == Sums(f, S)
<1>1. g = [s \in SUBSET S |-> IF s = {} THEN 0 ELSE f[Pick(s)] + g[s \ {Pick(s)}]]
  BY SumsDef, Zenon
<1> HIDE DEF g
<1>2. \A s \in SUBSET S : g[s] = IF s = {} THEN 0 ELSE f[Pick(s)] + g[s \ {Pick(s)}]
  BY <1>1, Zenon
<1>3. g[{}] = 0 /\ \A s \in SUBSET S : s # {} => g[s] = f[Pick(s)] + g[s \ {Pick(s)}]
  BY <1>2, Zenon
<1>4. QED  BY <1>3, Zenon DEF g

LEMMA SumsType ==
  ASSUME NEW S, NEW f, Summable(f, S)
  PROVE  \A s \in SUBSET S : Sums(f, S)[s] \in Int
<1> IsFiniteSet(S) /\ \A x \in S : f[x] \in Int
  BY Zenon DEF Summable
<1> DEFINE Fails == {s \in SUBSET S : Sums(f, S)[s] \notin Int}
<1> SUFFICES ASSUME Fails # {} PROVE FALSE
  BY Zenon
<1>1. PICK s \in Fails : \A t \in SUBSET s : t # s => t \notin Fails
  <2>1. Fails \in SUBSET (SUBSET S)
    BY Zenon
  <2> HIDE DEF Fails
  <2>2. QED  BY <2>1, SmallestSubset, Zenon
<1>2. CASE s = {}
  BY <1>1, <1>2, SumsAt
<1>3. CASE s # {}
  <2>1. Pick(s) \in s /\ s \ {Pick(s)} \in SUBSET s /\ s \ {Pick(s)} # s /\ s \in SUBSET S
    BY <1>1, <1>3, PickIn, Zenon
  <2>2. Sums(f, S)[s \ {Pick(s)}] \in Int
    BY <1>1, <2>1, Zenon
  <2>3. Sums(f, S)[s] = f[Pick(s)] + Sums(f, S)[s \ {Pick(s)}]
    BY <1>3, <2>1, SumsAt, ZenonT(30)
  <2>4. f[Pick(s)] \in Int
    BY <2>1, Zenon
  <2>5. QED  BY <1>1, <2>2, <2>3, <2>4
<1>4. QED  BY <1>2, <1>3, Zenon

\* Any element may be taken out first.
LEMMA SumsTake ==
  ASSUME NEW S, NEW f, Summable(f, S)
  PROVE  \A s \in SUBSET S : \A x \in s : Sums(f, S)[s] = f[x] + Sums(f, S)[s \ {x}]
<1> IsFiniteSet(S) /\ \A x \in S : f[x] \in Int
  BY Zenon DEF Summable
<1> DEFINE G == Sums(f, S)
           Fails == {s \in SUBSET S : ~\A x \in s : G[s] = f[x] + G[s \ {x}]}
<1>0. \A s \in SUBSET S : G[s] \in Int
  BY SumsType, Zenon
<1>1. \A s \in SUBSET S : s # {} => Pick(s) \in s /\ G[s] = f[Pick(s)] + G[s \ {Pick(s)}]
  BY SumsAt, PickIn, Zenon
<1> HIDE DEF G
<1> SUFFICES ASSUME Fails # {} PROVE FALSE
  BY Zenon DEF G
<1>2. PICK s \in Fails : \A t \in SUBSET s : t # s => t \notin Fails
  <2>1. Fails \in SUBSET (SUBSET S)
    BY Zenon
  <2> HIDE DEF Fails
  <2>2. QED  BY <2>1, SmallestSubset, Zenon
<1>3. PICK x \in s : G[s] # f[x] + G[s \ {x}]
  BY <1>2, Zenon
<1> DEFINE y == Pick(s)
<1>4. s \in SUBSET S /\ y \in s /\ G[s] = f[y] + G[s \ {y}] /\ x # y
  BY <1>1, <1>2, <1>3, Zenon
<1> HIDE DEF y
<1>5. G[s \ {y}] = f[x] + G[(s \ {y}) \ {x}]
  BY <1>2, <1>3, <1>4, Zenon
<1>6. G[s \ {x}] = f[y] + G[(s \ {x}) \ {y}]
  BY <1>2, <1>3, <1>4, Zenon
<1>7. (s \ {x}) \ {y} = (s \ {y}) \ {x}
  BY Zenon
<1>8. f[x] \in Int /\ f[y] \in Int /\ G[(s \ {y}) \ {x}] \in Int
  BY <1>0, <1>3, <1>4, Zenon
<1>9. \A a, b, c \in Int : a + (b + c) = b + (a + c)
  OBVIOUS
<1>10. G[s] = f[y] + (f[x] + G[(s \ {y}) \ {x}]) /\ f[x] + G[s \ {x}] = f[x] + (f[y] + G[(s \ {y}) \ {x}])
  BY <1>4, <1>5, <1>6, <1>7, Zenon
<1>11. QED  BY <1>3, <1>8, <1>9, <1>10, Zenon

\* The sum depends on the values at the elements of the set only.
LEMMA SumsAgree ==
  ASSUME NEW S, NEW R, NEW f, NEW h, Summable(f, S), Summable(h, R)
  PROVE  \A s \in SUBSET (S \cap R) : (\A x \in s : f[x] = h[x]) => Sums(f, S)[s] = Sums(h, R)[s]
<1>a. \A s \in SUBSET S : \A x \in s : Sums(f, S)[s] = f[x] + Sums(f, S)[s \ {x}]
  <2> TAKE s \in SUBSET S
  <2> TAKE x \in s
  <2> QED  BY SumsTake
<1>b. \A s \in SUBSET R : \A x \in s : Sums(h, R)[s] = h[x] + Sums(h, R)[s \ {x}]
  <2> TAKE s \in SUBSET R
  <2> TAKE x \in s
  <2> QED  BY SumsTake
<1> DEFINE F == Sums(f, S)
           H == Sums(h, R)
           Fails == {s \in SUBSET (S \cap R) : (\A x \in s : f[x] = h[x]) /\ F[s] # H[s]}
<1>1. \A s \in SUBSET (S \cap R) : \A x \in s : F[s] = f[x] + F[s \ {x}] /\ H[s] = h[x] + H[s \ {x}]
  BY <1>a, <1>b, Zenon
<1>2. F[{}] = 0 /\ H[{}] = 0
  <2>1. F[{}] = 0
    BY SumsAt, Zenon
  <2>2. H[{}] = 0
    BY SumsAt, Zenon
  <2>3. QED  BY <2>1, <2>2, Zenon
<1> HIDE DEF F, H
<1> SUFFICES ASSUME Fails # {} PROVE FALSE
  BY Zenon DEF F, H
<1>3. IsFiniteSet(S \cap R)
  BY FS_Subset, Zenon DEF Summable
<1>4. PICK s \in Fails : \A t \in SUBSET s : t # s => t \notin Fails
  <2>1. Fails \in SUBSET (SUBSET (S \cap R))
    BY Zenon
  <2> HIDE DEF Fails
  <2>2. QED  BY <1>3, <2>1, SmallestSubset, Zenon
<1>5. PICK x \in s : TRUE
  BY <1>2, <1>4, Zenon
<1>6. s \ {x} \in SUBSET s /\ s \ {x} # s /\ s \ {x} \in SUBSET (S \cap R)
  BY <1>4, <1>5, Zenon
<1>7. F[s \ {x}] = H[s \ {x}]
  BY <1>4, <1>6, Zenon
<1>8. F[s] = f[x] + F[s \ {x}] /\ H[s] = h[x] + H[s \ {x}] /\ f[x] = h[x]
  BY <1>1, <1>4, <1>5, Zenon
<1>9. QED  BY <1>4, <1>7, <1>8, Zenon

-----------------------------------------------------------------------------
(* Sums over a set of the values of a function. *)

LEMMA SumOfNone ==
  ASSUME NEW f
  PROVE  SumFunctionOnSet(f, {}) = 0
<1>1. Summable(f, {})
  BY FS_EmptySet, Zenon DEF Summable
<1>2. Sums(f, {})[{}] = 0
  BY <1>1, SumsAt, Zenon
<1>3. QED  BY <1>2, SumIsSums, Zenon

LEMMA SumInt ==
  ASSUME NEW S, NEW f, Summable(f, S)
  PROVE  SumFunctionOnSet(f, S) \in Int
  BY SumsType, SumIsSums, Zenon

LEMMA SumAgree ==
  ASSUME NEW S, NEW f, NEW h, Summable(f, S), \A x \in S : h[x] = f[x]
  PROVE  Summable(h, S) /\ SumFunctionOnSet(h, S) = SumFunctionOnSet(f, S)
<1>2. Summable(h, S)
  BY Zenon DEF Summable
<1>3. S \in SUBSET (S \cap S) /\ \A x \in S : f[x] = h[x]
  BY Zenon
<1>4. Sums(f, S)[S] = Sums(h, S)[S]
  BY <1>2, <1>3, SumsAgree
<1>5. QED  BY <1>2, <1>4, SumIsSums, Zenon

LEMMA SumTake ==
  ASSUME NEW S, NEW f, Summable(f, S), NEW x \in S
  PROVE  SumFunctionOnSet(f, S) = f[x] + SumFunctionOnSet(f, S \ {x})
<1> IsFiniteSet(S) /\ \A y \in S : f[y] \in Int
  BY Zenon DEF Summable
<1> DEFINE R == S \ {x}
<1>1. Summable(f, R) /\ R \in SUBSET (S \cap R)
  BY FS_Subset, Zenon DEF Summable
<1>2. Sums(f, S)[S] = f[x] + Sums(f, S)[R]
  BY SumsTake
<1> HIDE DEF R
<1>3. Sums(f, S)[R] = Sums(f, R)[R]
  BY <1>1, SumsAgree
<1>4. QED  BY <1>2, <1>3, SumIsSums, Zenon DEF R

LEMMA SummablePart ==
  ASSUME NEW S, NEW f, Summable(f, S), NEW R \in SUBSET S
  PROVE  Summable(f, R)
  BY FS_Subset, Zenon DEF Summable

\* Larger values, a larger sum.
LEMMA SumMono ==
  ASSUME NEW S, NEW f, NEW h, Summable(f, S), Summable(h, S), \A x \in S : f[x] <= h[x]
  PROVE  SumFunctionOnSet(f, S) <= SumFunctionOnSet(h, S)
<1> DEFINE F(s) == SumFunctionOnSet(f, s)
           H(s) == SumFunctionOnSet(h, s)
           Fails == {s \in SUBSET S : ~(F(s) <= H(s))}
<1>1. \A s \in SUBSET S : /\ Summable(f, s) /\ Summable(h, s)
                         /\ F(s) \in Int /\ H(s) \in Int
  BY SummablePart, SumInt, Zenon
<1>2. \A s \in SUBSET S : \A x \in s : F(s) = f[x] + F(s \ {x}) /\ H(s) = h[x] + H(s \ {x})
  BY <1>1, SumTake, Zenon
<1>3. F({}) <= H({})
  BY SumOfNone
<1>4. \A x \in S : f[x] \in Int /\ h[x] \in Int
  BY Zenon DEF Summable
<1> HIDE DEF F, H
<1> SUFFICES ASSUME Fails # {} PROVE FALSE
  BY Zenon DEF F, H
<1>5. PICK s \in Fails : \A t \in SUBSET s : t # s => t \notin Fails
  <2>1. Fails \in SUBSET (SUBSET S) /\ IsFiniteSet(S)
    BY Zenon DEF Summable
  <2> HIDE DEF Fails
  <2>2. QED  BY <2>1, SmallestSubset, Zenon
<1>6. PICK x \in s : TRUE
  BY <1>3, <1>5, Zenon
<1>7. s \ {x} \in SUBSET s /\ s \ {x} # s /\ s \ {x} \in SUBSET S /\ s \in SUBSET S /\ x \in S
  BY <1>5, <1>6, Zenon
<1>8. F(s \ {x}) <= H(s \ {x})
  BY <1>5, <1>7, Zenon
<1>9. F(s) = f[x] + F(s \ {x}) /\ H(s) = h[x] + H(s \ {x}) /\ f[x] <= h[x]
  BY <1>2, <1>6, <1>7, Zenon
<1>10. F(s \ {x}) \in Int /\ H(s \ {x}) \in Int /\ f[x] \in Int /\ h[x] \in Int
  BY <1>1, <1>4, <1>7, Zenon
<1>11. ~(F(s) <= H(s))
  BY <1>5, Zenon
<1>12. QED
  <2> HIDE DEF Fails
  <2> QED  BY <1>8, <1>9, <1>10, <1>11

\* One value changed.
SameBut(f, h, S, x) == \A y \in S \ {x} : h[y] = f[y]

LEMMA SumUpdate ==
  ASSUME NEW S, NEW f, NEW h, Summable(f, S), Summable(h, S), NEW x \in S, SameBut(f, h, S, x)
  PROVE  SumFunctionOnSet(h, S) = SumFunctionOnSet(f, S) - f[x] + h[x]
<1> DEFINE R == S \ {x}
<1>1. Summable(f, R) /\ f[x] \in Int /\ h[x] \in Int /\ \A y \in R : h[y] = f[y]
  BY FS_Subset, Zenon DEF Summable, SameBut
<1>2. SumFunctionOnSet(f, S) = f[x] + SumFunctionOnSet(f, R)
  BY SumTake, Zenon
<1>3. SumFunctionOnSet(h, S) = h[x] + SumFunctionOnSet(h, R)
  BY SumTake, Zenon
<1> HIDE DEF R
<1>4. SumFunctionOnSet(h, R) = SumFunctionOnSet(f, R) /\ SumFunctionOnSet(f, R) \in Int
  BY <1>1, SumAgree, SumInt, Zenon
<1>5. QED  BY <1>1, <1>2, <1>3, <1>4

LEMMA SumOfZeros ==
  ASSUME NEW S, NEW f, IsFiniteSet(S), \A x \in S : f[x] = 0
  PROVE  Summable(f, S) /\ SumFunctionOnSet(f, S) = 0
<1> DEFINE F(s) == SumFunctionOnSet(f, s)
           Fails == {s \in SUBSET S : F(s) # 0}
<1>1. \A s \in SUBSET S : Summable(f, s)
  BY FS_Subset DEF Summable
<1>2. \A s \in SUBSET S : \A x \in s : F(s) = f[x] + F(s \ {x})
  <2> TAKE s \in SUBSET S
  <2> TAKE x \in s
  <2> QED  BY <1>1, SumTake, Zenon
<1>3. F({}) = 0
  BY SumOfNone, Zenon
<1> HIDE DEF F
<1> SUFFICES ASSUME Fails # {} PROVE FALSE
  BY <1>1, Zenon DEF F
<1>5. PICK s \in Fails : \A t \in SUBSET s : t # s => t \notin Fails
  <2>1. Fails \in SUBSET (SUBSET S)
    BY Zenon
  <2> HIDE DEF Fails
  <2>2. QED  BY <2>1, SmallestSubset, Zenon
<1>6. PICK x \in s : TRUE
  BY <1>3, <1>5, Zenon
<1>7. s \ {x} \in SUBSET s /\ s \ {x} # s /\ s \ {x} \in SUBSET S /\ s \in SUBSET S /\ x \in S
  BY <1>5, <1>6, Zenon
<1>8. F(s \ {x}) = 0
  BY <1>5, <1>7, Zenon
<1>9. F(s) = f[x] + F(s \ {x}) /\ f[x] = 0
  BY <1>2, <1>6, <1>7, Zenon
<1>10. QED  BY <1>5, <1>8, <1>9

\* Sums of values of one sign, and what is left of them without some.
LEMMA SumNat ==
  ASSUME NEW S, NEW f, Summable(f, S), \A x \in S : f[x] >= 0
  PROVE  /\ SumFunctionOnSet(f, S) >= 0
         /\ \A x \in S : f[x] <= SumFunctionOnSet(f, S)
<1>1. ASSUME NEW R \in SUBSET S
      PROVE  SumFunctionOnSet(f, R) >= 0 /\ SumFunctionOnSet(f, R) \in Int
  <2> DEFINE z == [x \in R |-> 0]
  <2>1. Summable(f, R) /\ IsFiniteSet(R) /\ \A x \in R : z[x] = 0 /\ z[x] <= f[x]
    BY SummablePart, Zenon DEF Summable
  <2> HIDE DEF z
  <2>2. Summable(z, R) /\ SumFunctionOnSet(z, R) = 0
    BY <2>1, SumOfZeros, Zenon
  <2>3. SumFunctionOnSet(z, R) <= SumFunctionOnSet(f, R)
    BY <2>1, <2>2, SumMono, Zenon
  <2>4. QED  BY <2>1, <2>2, <2>3, SumInt, Zenon
<1>2. ASSUME NEW x \in S
      PROVE  f[x] <= SumFunctionOnSet(f, S)
  <2>1. SumFunctionOnSet(f, S) = f[x] + SumFunctionOnSet(f, S \ {x}) /\ f[x] \in Int
    BY SumTake, Zenon DEF Summable
  <2>2. SumFunctionOnSet(f, S \ {x}) >= 0 /\ SumFunctionOnSet(f, S \ {x}) \in Int
    BY <1>1, Zenon
  <2>3. QED  BY <2>1, <2>2
<1>3. QED  BY <1>1, <1>2, Zenon

LEMMA SumNotPositive ==
  ASSUME NEW S, NEW f, Summable(f, S), \A x \in S : f[x] <= 0
  PROVE  SumFunctionOnSet(f, S) <= 0
<1> DEFINE z == [x \in S |-> 0]
<1>1. IsFiniteSet(S) /\ \A x \in S : z[x] = 0 /\ f[x] <= z[x]
  BY Zenon DEF Summable
<1> HIDE DEF z
<1>2. Summable(z, S) /\ SumFunctionOnSet(z, S) = 0
  BY <1>1, SumOfZeros, Zenon
<1>3. SumFunctionOnSet(f, S) <= SumFunctionOnSet(z, S)
  BY <1>1, <1>2, SumMono, Zenon
<1>4. QED  BY <1>2, <1>3, SumInt, Zenon

\* An inequality between multiples of the values holds of the sums.
LEMMA SumLinear ==
  ASSUME NEW S, NEW f, NEW h, Summable(f, S), Summable(h, S),
         NEW p \in Int, NEW k \in Int, NEW q \in Int,
         \A x \in S : p * f[x] <= k + q * h[x]
  PROVE  p * SumFunctionOnSet(f, S) <= k * Cardinality(S) + q * SumFunctionOnSet(h, S)
<1> DEFINE F(s) == SumFunctionOnSet(f, s)
           H(s) == SumFunctionOnSet(h, s)
           Holds(s) == p * F(s) <= k * Cardinality(s) + q * H(s)
           Fails == {s \in SUBSET S : ~Holds(s)}
<1>1. \A s \in SUBSET S : /\ Summable(f, s) /\ Summable(h, s)
                         /\ F(s) \in Int /\ H(s) \in Int
  BY SummablePart, SumInt, Zenon
<1>2. \A s \in SUBSET S : \A x \in s : F(s) = f[x] + F(s \ {x}) /\ H(s) = h[x] + H(s \ {x})
  BY <1>1, SumTake, Zenon
<1>3. Holds({})
  <2>1. F({}) = 0 /\ H({}) = 0 /\ Cardinality({}) = 0
    BY SumOfNone, FS_EmptySet, Zenon
  <2>2. QED  BY <2>1
<1>4. IsFiniteSet(S) /\ \A x \in S : f[x] \in Int /\ h[x] \in Int
  BY Zenon DEF Summable
<1> HIDE DEF F, H
<1> SUFFICES ASSUME Fails # {} PROVE FALSE
  BY Zenon DEF F, H
<1>5. PICK s \in Fails : \A t \in SUBSET s : t # s => t \notin Fails
  <2>1. Fails \in SUBSET (SUBSET S)
    BY Zenon
  <2> HIDE DEF Fails
  <2>2. QED  BY <1>4, <2>1, SmallestSubset, Zenon
<1> HIDE DEF Holds
<1>6. PICK x \in s : TRUE
  BY <1>3, <1>5, Zenon
<1>7. s \ {x} \in SUBSET s /\ s \ {x} # s /\ s \ {x} \in SUBSET S /\ s \in SUBSET S /\ x \in S
  BY <1>5, <1>6, Zenon
<1>8. Holds(s \ {x}) /\ ~Holds(s)
  BY <1>5, <1>7, Zenon
<1> HIDE DEF Fails
<1>9. F(s) = f[x] + F(s \ {x}) /\ H(s) = h[x] + H(s \ {x}) /\ p * f[x] <= k + q * h[x]
  BY <1>2, <1>6, <1>7, Zenon
<1>10. F(s \ {x}) \in Int /\ H(s \ {x}) \in Int /\ f[x] \in Int /\ h[x] \in Int
  BY <1>1, <1>4, <1>7, Zenon
<1>11. Cardinality(s \ {x}) \in Int /\ Cardinality(s) = Cardinality(s \ {x}) + 1
  <2>1. IsFiniteSet(s) /\ IsFiniteSet(s \ {x})
    BY <1>4, <1>7, FS_Subset, Zenon
  <2>2. Cardinality(s \ {x}) = Cardinality(s) - 1 /\ Cardinality(s) \in Nat /\ Cardinality(s \ {x}) \in Nat
    BY <1>6, <2>1, FS_RemoveElement, FS_CardinalityType, Zenon
  <2>3. QED  BY <2>2
<1>12. \A a, b, c, d, n \in Int :
         p * a <= k + q * b /\ p * c <= k * n + q * d => p * (a + c) <= k * (n + 1) + q * (b + d)
  OBVIOUS
<1>13. p * F(s \ {x}) <= k * Cardinality(s \ {x}) + q * H(s \ {x})
  BY <1>8, Zenon DEF Holds
<1>14. p * (f[x] + F(s \ {x})) <= k * (Cardinality(s \ {x}) + 1) + q * (h[x] + H(s \ {x}))
  BY <1>9, <1>10, <1>11, <1>12, <1>13, Zenon
<1>15. Holds(s)
  BY <1>9, <1>11, <1>14, Zenon DEF Holds
<1>16. QED  BY <1>8, <1>15, Zenon

-----------------------------------------------------------------------------
(* The best of finitely many. *)

LEMMA FiniteMax ==
  ASSUME NEW S, NEW f, Summable(f, S), S # {}
  PROVE  \E x \in S : \A y \in S : f[y] <= f[x]
<1> DEFINE Tops(s) == {x \in s : \A y \in s : f[y] <= f[x]}
           Fails == {s \in SUBSET S : s # {} /\ Tops(s) = {}}
<1>0. IsFiniteSet(S) /\ \A x \in S : f[x] \in Int
  BY Zenon DEF Summable
<1> SUFFICES ASSUME Fails # {} PROVE FALSE
  BY Zenon
<1>1. PICK s \in Fails : \A t \in SUBSET s : t # s => t \notin Fails
  <2>1. Fails \in SUBSET (SUBSET S)
    BY Zenon
  <2> HIDE DEF Fails
  <2>2. QED  BY <1>0, <2>1, SmallestSubset, Zenon
<1>2. PICK x \in s : TRUE
  BY <1>1, Zenon
<1>3. CASE s \ {x} = {}
  <2>1. x \in Tops(s)
    BY <1>0, <1>1, <1>2, <1>3
  <2>2. QED  BY <1>1, <2>1, Zenon
<1>4. CASE s \ {x} # {}
  <2>1. s \ {x} \in SUBSET s /\ s \ {x} # s
    BY <1>2, Zenon
  <2>2. Tops(s \ {x}) # {}
    BY <1>1, <1>4, <2>1, Zenon
  <2>3. PICK z \in s \ {x} : \A y \in s \ {x} : f[y] <= f[z]
    BY <2>2, Zenon
  <2>4. f[x] \in Int /\ f[z] \in Int /\ \A y \in s : f[y] \in Int
    BY <1>0, <1>1, <1>2, <2>3, Zenon
  <2>5. x \in Tops(s) \/ z \in Tops(s)
    BY <1>2, <2>3, <2>4
  <2>6. QED  BY <1>1, <2>5, Zenon
<1>5. QED  BY <1>3, <1>4, Zenon

-----------------------------------------------------------------------------
(* The weights of the solver. *)

\* The largest of finitely many values and 0.
LEMMA MaxWithZero ==
  ASSUME NEW E, IsFiniteSet(E), NEW f, \A c \in E : f[c] \in Nat
  PROVE  LET m == Max({f[c] : c \in E} \cup {0})
         IN  m \in Nat /\ \A c \in E : f[c] <= m
<1> DEFINE V == {f[c] : c \in E} \cup {0}
<1>1. \E x \in V : \A y \in V : x >= y
  <2>1. CASE E = {}
    BY <2>1
  <2>2. CASE E # {}
    <3>1. Summable(f, E)
      BY DEF Summable
    <3>2. PICK x \in E : \A y \in E : f[y] <= f[x]
      BY <2>2, <3>1, FiniteMax, Zenon
    <3>3. f[x] \in V /\ \A y \in V : f[x] >= y
      BY <3>2
    <3>4. QED  BY <3>3, Zenon
  <2>3. QED  BY <2>1, <2>2, Zenon
<1>2. Max(V) \in V /\ \A y \in V : Max(V) >= y
  BY <1>1, Zenon DEF Max
<1>3. V \in SUBSET Nat
  OBVIOUS
<1> DEFINE m == Max(V)
<1>4. m \in Nat
  BY <1>2, <1>3, Zenon
<1>5. ASSUME NEW c \in E PROVE f[c] <= m
  <2>1. f[c] \in V
    BY Zenon
  <2>2. m >= f[c]
    BY <1>2, <2>1, Zenon
  <2> HIDE DEF m
  <2>3. QED  BY <1>4, <2>2, Zenon
<1>6. QED  BY <1>4, <1>5, Zenon

\* A quotient is between the bounds of the dividend.
LEMMA DivAtMost ==
  ASSUME NEW a \in Int, NEW b \in Int, NEW k \in Int, b > 0, a <= k * b
  PROVE  a \div b <= k
<1> DEFINE q == a \div b
<1>1. q \in Int /\ b * q <= a /\ a < b * q + b
  OBVIOUS
<1> HIDE DEF q
<1>2. ASSUME q >= k + 1 PROVE FALSE
  <2>1. b * q >= b * (k + 1)
    BY <1>1, <1>2
  <2>2. b * (k + 1) = k * b + b
    OBVIOUS
  <2>3. QED  BY <1>1, <2>1, <2>2
<1>3. q <= k
  BY <1>1, <1>2
<1>4. QED  BY <1>3, Zenon DEF q

LEMMA DivAtLeast ==
  ASSUME NEW a \in Int, NEW b \in Int, NEW k \in Int, b > 0, k * b <= a
  PROVE  k <= a \div b
<1> DEFINE q == a \div b
<1>1. q \in Int /\ b * q <= a /\ a < b * q + b
  OBVIOUS
<1> HIDE DEF q
<1>2. ASSUME q + 1 <= k PROVE FALSE
  <2>1. b * (q + 1) <= b * k
    BY <1>1, <1>2
  <2>2. b * (q + 1) = b * q + b /\ b * k = k * b
    BY <1>1
  <2>3. QED  BY <1>1, <2>1, <2>2
<1>3. k <= q
  BY <1>1, <1>2
<1>4. QED  BY <1>3, Zenon DEF q

\* The score of a cost or a carbon intensity is not negative.
LEMMA InvertedPercent ==
  ASSUME NEW x \in Nat, NEW max \in Nat, x <= max
  PROVE  Inverted(x, max) \in Nat
<1>1. CASE max > 0
  <2>1. 100 * x <= 100 * max /\ 0 * max <= 100 * x
    OBVIOUS
  <2>2. (100 * x) \div max <= 100 /\ (100 * x) \div max \in Int
    BY <1>1, <2>1, DivAtMost
  <2>3. QED  BY <1>1, <2>2 DEF Inverted
<1>2. CASE ~(max > 0)
  BY <1>2, Zenon DEF Inverted
<1>3. QED  BY <1>1, <1>2, Zenon

\* A profile as the hub stores it.
Sane(p) ==
  /\ p.util \in 0 .. 100 \/ p.util = NoCapacity
  /\ p.slo \in Nat /\ p.cost \in Nat /\ p.carbon \in Nat

\* Scores are natural numbers, whatever the strategy (scoreAll).
LEMMA ScoresNat ==
  ASSUME NEW snap, NEW E \in SUBSET DOMAIN snap, IsFiniteSet(E), \A c \in E : Sane(snap[c]), NEW strategy
  PROVE  scoreAll(snap, E, strategy) \in [E -> Nat]
<1> DEFINE w         == strategyWeights(strategy)
           costs     == [c \in E |-> snap[c].cost]
           carbons   == [c \in E |-> snap[c].carbon]
           maxCost   == Max({snap[c].cost : c \in E} \cup {0})
           maxCarbon == Max({snap[c].carbon : c \in E} \cup {0})
<1>1. w.latency \in Nat /\ w.cost \in Nat /\ w.carbon \in Nat /\ w.slo \in Nat
  BY Zenon DEF strategyWeights
<1>2. maxCost \in Nat /\ \A c \in E : snap[c].cost <= maxCost
  <2>1. {snap[c].cost : c \in E} = {costs[c] : c \in E} /\ \A c \in E : costs[c] \in Nat /\ costs[c] = snap[c].cost
    BY Zenon DEF Sane
  <2> HIDE DEF costs
  <2>2. QED  BY <2>1, MaxWithZero
<1>3. maxCarbon \in Nat /\ \A c \in E : snap[c].carbon <= maxCarbon
  <2>1. {snap[c].carbon : c \in E} = {carbons[c] : c \in E} /\ \A c \in E : carbons[c] \in Nat /\ carbons[c] = snap[c].carbon
    BY Zenon DEF Sane
  <2> HIDE DEF carbons
  <2>2. QED  BY <2>1, MaxWithZero
<1> HIDE DEF w, maxCost, maxCarbon
<1>4. \A a, b, c, d, p, q, r, s \in Nat : a * p + b * q + c * r + d * s \in Nat
  OBVIOUS
<1>5. ASSUME NEW c \in E
      PROVE  w.latency * FreePercent(snap[c]) + w.cost * Inverted(snap[c].cost, maxCost)
               + w.carbon * Inverted(snap[c].carbon, maxCarbon) + w.slo * Min({snap[c].slo, 100}) \in Nat
  <2>1. FreePercent(snap[c]) \in Nat
    BY DEF Sane, FreePercent
  <2>2. Inverted(snap[c].cost, maxCost) \in Nat /\ Inverted(snap[c].carbon, maxCarbon) \in Nat
    BY <1>2, <1>3, InvertedPercent, Zenon DEF Sane
  <2>3. Min({snap[c].slo, 100}) \in Nat
    <3>1. snap[c].slo \in Nat
      BY Zenon DEF Sane
    <3>2. \E z \in {snap[c].slo, 100} : \A t \in {snap[c].slo, 100} : z <= t
      BY <3>1
    <3>3. QED  BY <3>1, <3>2 DEF Min
  <2>4. QED  BY <1>1, <1>4, <2>1, <2>2, <2>3, SMTT(30)
<1>6. QED
  BY <1>5, Zenon DEF scoreAll, w, maxCost, maxCarbon

\* A positive factor can be dropped from both sides.
LEMMA Cancel ==
  ASSUME NEW t \in Int, NEW x \in Int, NEW y \in Int, t > 0, t * x <= t * y
  PROVE  x <= y
<1>1. ASSUME x >= y + 1 PROVE FALSE
  <2>1. t * x >= t * (y + 1) /\ t * (y + 1) = t * y + t
    BY <1>1
  <2>2. QED  BY <2>1
<1>2. QED  BY <1>1

\* A rounded quotient is at most one half off.
LEMMA RoundNear ==
  ASSUME NEW num \in Int, NEW den \in Int, den > 0
  PROVE  /\ Round(num, den) \in Int
         /\ 2 * (den * Round(num, den)) <= 2 * num + den
         /\ 2 * num - den < 2 * (den * Round(num, den))
<1> DEFINE a == 2 * num + den
           b == 2 * den
           q == a \div b
<1>1. a \in Int /\ b \in Int /\ b > 0
  OBVIOUS
<1>2. q \in Int /\ b * q <= a /\ a < b * q + b
  <2> HIDE DEF a, b
  <2> QED  BY <1>1
<1>3. Round(num, den) = q
  BY Zenon DEF Round
<1> HIDE DEF q
<1>4. b * q = 2 * (den * q)
  BY <1>2
<1>5. QED  BY <1>2, <1>3, <1>4

\* The weight of one of n clusters before the difference is made up.
Rounded(n, T, k) == Max({1, Round(100 * T + k, n * T)})

LEMMA RoundedIsMax ==
  ASSUME NEW n \in Nat, n >= 1, NEW T \in Nat, T >= 1, NEW k \in Int
  PROVE  Rounded(n, T, k) = IF Round(100 * T + k, n * T) < 1 THEN 1 ELSE Round(100 * T + k, n * T)
<1> DEFINE r == Round(100 * T + k, n * T)
<1>1. n * T \in Int /\ n * T > 0 /\ 100 * T + k \in Int
  OBVIOUS
<1>2. r \in Int
  BY <1>1, RoundNear, Zenon
<1> HIDE DEF r
<1>3. \E z \in {1, r} : \A t \in {1, r} : z >= t
  BY <1>2
<1>4. Max({1, r}) \in {1, r} /\ \A t \in {1, r} : Max({1, r}) >= t
  BY <1>3, Zenon DEF Max
<1>5. Max({1, r}) = IF r < 1 THEN 1 ELSE r
  BY <1>2, <1>4
<1>6. QED  BY <1>2, <1>5, Zenon DEF Rounded, r

\* It is at least 1, and with a deviation within m it is within m, rounded, of
\* the equal share.
LEMMA RoundedNear ==
  ASSUME NEW n \in Nat, n >= 1, NEW T \in Nat, T >= 1, NEW m \in Nat, m >= 1,
         NEW k \in Int, -(m * n * T) <= k, k <= m * n * T
  PROVE  /\ Rounded(n, T, k) \in Int /\ Rounded(n, T, k) >= 1
         /\ 2 * Abs(n * Rounded(n, T, k) - 100) <= (2 * m + 1) * n
<1> DEFINE r == Round(100 * T + k, n * T)
           x == Rounded(n, T, k)
<1>1. n * T \in Int /\ n * T > 0 /\ 100 * T + k \in Int
  OBVIOUS
<1>2. r \in Int /\ 2 * ((n * T) * r) <= 2 * (100 * T + k) + n * T /\ 2 * (100 * T + k) - n * T < 2 * ((n * T) * r)
  BY <1>1, RoundNear, ZenonT(30)
<1>3. x = IF r < 1 THEN 1 ELSE r
  BY RoundedIsMax, Zenon
<1> HIDE DEF r, x
<1>4. T * (2 * (n * r)) <= T * (200 + (2 * m + 1) * n)
  <2>1. 2 * ((n * T) * r) = T * (2 * (n * r))
    BY <1>2
  <2>2. 2 * (100 * T + k) + n * T <= 200 * T + 2 * (m * n * T) + n * T
    OBVIOUS
  <2>3. 200 * T + 2 * (m * n * T) + n * T = T * (200 + (2 * m + 1) * n)
    OBVIOUS
  <2>4. QED  BY <1>2, <2>1, <2>2, <2>3
<1>5. T * (200 - (2 * m + 1) * n) <= T * (2 * (n * r))
  <2>1. 2 * ((n * T) * r) = T * (2 * (n * r))
    BY <1>2
  <2>2. 200 * T - 2 * (m * n * T) - n * T <= 2 * (100 * T + k) - n * T
    OBVIOUS
  <2>3. 200 * T - 2 * (m * n * T) - n * T = T * (200 - (2 * m + 1) * n)
    OBVIOUS
  <2>4. QED  BY <1>2, <2>1, <2>2, <2>3
<1>6. 2 * (n * r) <= 200 + (2 * m + 1) * n
  BY <1>2, <1>4, Cancel
<1>7. 200 - (2 * m + 1) * n <= 2 * (n * r)
  BY <1>2, <1>5, Cancel
<1>8. CASE r >= 1
  <2>1. x = r /\ n * r \in Int /\ (2 * m + 1) * n \in Int
    BY <1>2, <1>3, <1>8
  <2>2. QED  BY <1>2, <1>6, <1>7, <1>8, <2>1 DEF Abs, x
<1>9. CASE r < 1
  <2>1. x = 1
    BY <1>3, <1>9, Zenon
  <2>2. n * r <= 0 /\ n * r \in Int
    BY <1>2, <1>9
  <2>3. (2 * m + 1) * n >= 3 * n /\ (2 * m + 1) * n \in Int
    OBVIOUS
  <2>4. QED  BY <1>7, <2>1, <2>2, <2>3 DEF Abs, x
<1>10. QED  BY <1>2, <1>8, <1>9

\* A quadratic form without a real root.
LEMMA FormPositive ==
  ASSUME NEW a \in Int, NEW b \in Int, NEW c \in Int, a > 0, 4 * (a * c) > b * b,
         NEW w \in Int, NEW T \in Int, T > 0
  PROVE  b * (T * w) < a * (w * w) + c * (T * T)
<1> DEFINE P == a * (w * w) + c * (T * T) - b * (T * w)
           u == 2 * (a * w) - b * T
           e == 4 * (a * c) - b * b
<1>1. P \in Int /\ u \in Int /\ e \in Int /\ e > 0
  OBVIOUS
<1>2. 4 * (a * P) = u * u + e * (T * T)
  OBVIOUS
<1> HIDE DEF u, e
<1>3. u * u >= 0 /\ T * T > 0
  BY <1>1
<1>4. e * (T * T) > 0
  BY <1>1, <1>3
<1>5. 4 * (a * P) > 0
  BY <1>2, <1>3, <1>4
<1> HIDE DEF P
<1>6. P > 0
  BY <1>1, <1>5
<1>7. QED  BY <1>6 DEF P

\* The rounded weight of a cluster with the score s, and the weights, doubled,
\* that the clamp and the floor allow between: at least d and at most w.
Share(n, T, m, s) == Rounded(n, T, Clamp(100 * n * s - 100 * T, -(m * n * T), m * n * T))

Chord(n, T, m, sb, d, w) ==
  /\ d \in Int /\ w \in Int /\ d <= w
  /\ d >= n * T /\ d >= 200 * T - 2 * (m * n * T)
  /\ d = n * T \/ d = 200 * T - 2 * (m * n * T)
  /\ w <= 200 * (n * sb) /\ w <= 200 * T + 2 * (m * n * T)
  /\ w = 200 * (n * sb) \/ w = 200 * T + 2 * (m * n * T)

\* No score up to that of the best cluster gets a weight above the line through
\* the two.
LEMMA BelowChord ==
  ASSUME NEW n \in Nat, n >= 1, NEW T \in Nat, T >= 1, NEW m \in Nat, m >= 1,
         NEW s \in Nat, NEW sb \in Nat, s <= sb, NEW d, NEW w, Chord(n, T, m, sb, d, w)
  PROVE  (2 * (n * T) * w) * Share(n, T, m, s) <= (w * d + n * T * w) + (200 * n * (w - d)) * s
<1> USE DEF Chord
<1>0. \A j \in Int :
         Rounded(n, T, j) = IF Round(100 * T + j, n * T) < 1 THEN 1 ELSE Round(100 * T + j, n * T)
  BY RoundedIsMax, Zenon
<1> DEFINE D == n * T
           M == m * n * T
           X == 200 * n * s
           k == Clamp(100 * n * s - 100 * T, -M, M)
           r == Round(100 * T + k, D)
           x == Rounded(n, T, k)
           y == IF 200 * T + 2 * k < D THEN D ELSE 200 * T + 2 * k
<1>1. D \in Int /\ D > 0 /\ M \in Int /\ M > 0 /\ X \in Int /\ X >= 0 /\ X <= 200 * (n * sb)
  OBVIOUS
<1>2. k = IF X < 200 * T - 2 * M THEN -M ELSE IF X > 200 * T + 2 * M THEN M ELSE 100 * n * s - 100 * T
  BY <1>1 DEF Clamp
<1>2a. k \in Int /\ 100 * n * s - 100 * T \in Int /\ 2 * (100 * n * s - 100 * T) = X - 200 * T
  BY <1>1, <1>2
<1> HIDE DEF k
<1>3. r \in Int /\ 2 * (D * r) <= 2 * (100 * T + k) + D /\ x = IF r < 1 THEN 1 ELSE r
  <2>1. 100 * T + k \in Int
    BY <1>2a
  <2>2. r \in Int /\ 2 * (D * r) <= 2 * (100 * T + k) + D
    <3> HIDE DEF D
    <3> QED  BY <1>1, <2>1, RoundNear, ZenonT(30)
  <2>3. x = IF r < 1 THEN 1 ELSE r
    BY <1>0, <1>2a, ZenonT(30)
  <2>4. QED  BY <2>2, <2>3, Zenon
<1> HIDE DEF r, x
<1>4. 2 * (D * x) <= y + D /\ x \in Int
  <2>1. CASE r < 1
    BY <1>1, <1>2a, <1>3, <2>1
  <2>2. CASE ~(r < 1)
    BY <1>1, <1>2a, <1>3, <2>2, SMTT(30)
  <2>3. QED  BY <2>1, <2>2, Zenon
<1>5. /\ y \in Int
      /\ \/ y = d /\ X >= 0
         \/ y = X /\ X <= w
         \/ y = w /\ X >= w
  <2>1. /\ d >= D /\ d >= 200 * T - 2 * M /\ (d = D \/ d = 200 * T - 2 * M)
        /\ w <= 200 * T + 2 * M /\ (w = 200 * (n * sb) \/ w = 200 * T + 2 * M)
        /\ w <= 200 * (n * sb) /\ n * sb \in Int
    OBVIOUS
  <2> HIDE DEF D, M, X
  <2>2. CASE k = -M /\ X < 200 * T - 2 * M
    BY <1>1, <2>1, <2>2
  <2>3. CASE k = M /\ X > 200 * T + 2 * M
    BY <1>1, <2>1, <2>3
  <2>4. CASE 2 * k = X - 200 * T /\ X >= 200 * T - 2 * M /\ X <= 200 * T + 2 * M
    BY <1>1, <1>2a, <2>1, <2>4
  <2>5. QED  BY <1>1, <1>2, <1>2a, <2>2, <2>3, <2>4, SMTT(30)
<1> HIDE DEF y, X, D
<1>5a. d > 0 /\ w > 0
  BY <1>1 DEF D
<1>6. w * y <= w * d + X * (w - d)
  <2>1. CASE y = d
    <3>1. X * (w - d) >= 0
      BY <1>1
    <3>2. w * y = w * d /\ w * d \in Int /\ X * (w - d) \in Int
      BY <1>1, <2>1
    <3>3. QED  BY <3>1, <3>2
  <2>2. CASE y = X /\ X <= w
    <3>1. X * (w - d) = w * X - X * d /\ X * d <= w * d
      BY <1>1, <1>5a, <2>2
    <3>2. QED  BY <1>1, <2>2, <3>1
  <2>3. CASE y = w /\ X >= w
    <3>1. X * (w - d) >= w * (w - d)
      BY <1>1, <2>3
    <3>2. w * d + w * (w - d) = w * w
      OBVIOUS
    <3>3. w * y = w * w
      BY <2>3, Zenon
    <3>4. w * w \in Int /\ w * d \in Int /\ X * (w - d) \in Int /\ w * (w - d) \in Int
      BY <1>1
    <3>5. QED  BY <3>1, <3>2, <3>3, <3>4
  <2>4. QED  BY <1>5, <2>1, <2>2, <2>3, Zenon
<1>7. w * (2 * (D * x)) <= w * (y + D)
  BY <1>1, <1>4, <1>5, <1>5a
<1>8. w * (y + D) = w * y + D * w /\ w * (2 * (D * x)) = (2 * D * w) * x
  BY <1>1, <1>4, <1>5
<1>9. (2 * D * w) * x <= (w * d + D * w) + X * (w - d)
  <2>1. w * y \in Int /\ D * w \in Int /\ w * d \in Int /\ X * (w - d) \in Int /\ (2 * D * w) * x \in Int
    BY <1>1, <1>4, <1>5
  <2>2. QED  BY <1>6, <1>7, <1>8, <2>1
<1>10. X * (w - d) = (200 * n * (w - d)) * s
  BY DEF X
<1>11. QED  BY <1>9, <1>10, Zenon DEF D, x, k, Share

\* The line of BelowChord, summed over the n - 1 others, stays below 100
\* for up to six clusters.
LEMMA LineBelow ==
  ASSUME NEW n \in 2 .. 6, NEW T \in Nat, T >= 1, NEW d \in Int, NEW w \in Int,
         w >= 200 * T, d = n * T \/ d <= 400 * T - w
  PROVE  n * (d * (w - 200 * T)) + (n - 1) * (n * (T * w)) < w * w
<1> DEFINE v == w - 200 * T
<1>0. v \in Int /\ v >= 0 /\ T * w \in Int /\ T * T \in Int /\ w * w \in Int
  OBVIOUS
<1>1. CASE d = n * T
  <2>1. 4 * (1 * (200 * (n * n))) > (2 * n * n - n) * (2 * n * n - n)
    <3>1. n = 2 \/ n = 3 \/ n = 4 \/ n = 5 \/ n = 6
      OBVIOUS
    <3>2. QED  BY <3>1
  <2>2. (2 * n * n - n) * (T * w) < 1 * (w * w) + (200 * (n * n)) * (T * T)
    BY <2>1, FormPositive
  <2>3. n * (d * (w - 200 * T)) + (n - 1) * (n * (T * w))
          = (2 * n * n - n) * (T * w) - (200 * (n * n)) * (T * T)
    BY <1>1
  <2>4. QED  BY <1>0, <2>2, <2>3
<1>2. CASE d <= 400 * T - w
  <2>1. 4 * ((n + 1) * (80000 * n)) > (599 * n + n * n) * (599 * n + n * n)
    <3>1. n = 2 \/ n = 3 \/ n = 4 \/ n = 5 \/ n = 6
      OBVIOUS
    <3>2. QED  BY <3>1
  <2>2. (599 * n + n * n) * (T * w) < (n + 1) * (w * w) + (80000 * n) * (T * T)
    BY <2>1, FormPositive
  <2>3. d * v <= (400 * T - w) * v
    BY <1>0, <1>2
  <2>4. n * (d * v) <= n * ((400 * T - w) * v)
    BY <1>0, <2>3
  <2>5. n * ((400 * T - w) * v) + (n - 1) * (n * (T * w))
          = (599 * n + n * n) * (T * w) - (n * (w * w) + (80000 * n) * (T * T))
    OBVIOUS
  <2>6. (n + 1) * (w * w) = n * (w * w) + w * w
    OBVIOUS
  <2>7. /\ n * (d * v) \in Int /\ n * ((400 * T - w) * v) \in Int /\ (n - 1) * (n * (T * w)) \in Int
        /\ (599 * n + n * n) * (T * w) \in Int /\ n * (w * w) \in Int /\ (80000 * n) * (T * T) \in Int
    OBVIOUS
  <2> HIDE DEF v
  <2>8. n * (d * v) + (n - 1) * (n * (T * w)) < w * w
    BY <1>0, <2>2, <2>4, <2>5, <2>6, <2>7
  <2>9. QED  BY <2>8, Zenon DEF v
<1>3. QED  BY <1>1, <1>2, Zenon

\* The cluster that takes the difference has the highest score.
LEMMA BestIsBest ==
  ASSUME NEW E \in SUBSET Nat, IsFiniteSet(E), E # {}, NEW scores \in [E -> Nat]
  PROVE  Best(scores) \in E /\ \A c \in E : scores[c] <= scores[Best(scores)]
<1> DEFINE B == {c \in E : \A d \in E : scores[d] <= scores[c]}
<1>1. Summable(scores, E)
  BY DEF Summable
<1>2. B # {} /\ B \in SUBSET Nat
  BY <1>1, FiniteMax, Zenon
<1>3. Best(scores) = Min(B)
  BY Zenon DEF Best
<1> HIDE DEF B
<1>4. \E x \in B : \A y \in B : x <= y
  BY <1>2, LeastNat, Zenon
<1>5. Min(B) \in B
  BY <1>4, Zenon DEF Min
<1>6. QED  BY <1>3, <1>5, Zenon DEF B

\* A line above the weight of each of the others which makes their sum less
\* than 100.
IsLine(n, T, m, sb, p, k, q) ==
  /\ \A s \in Nat : s <= sb => p * Share(n, T, m, s) <= k + q * s
  /\ \A R, S \in Int : T = sb + S /\ p * R <= k * (n - 1) + q * S => R <= 99

\* There is one for up to six clusters.
LEMMA LineFor ==
  ASSUME NEW n \in 2 .. 6, NEW T \in Nat, T >= 1, NEW m \in Nat, m >= 1,
         NEW sb \in Nat, n * sb >= T
  PROVE  \E p, k, q \in Int : IsLine(n, T, m, sb, p, k, q)
<1> DEFINE D == n * T
           M == m * n * T
           d == IF D >= 200 * T - 2 * M THEN D ELSE 200 * T - 2 * M
           w == IF 200 * (n * sb) <= 200 * T + 2 * M THEN 200 * (n * sb) ELSE 200 * T + 2 * M
           p == 2 * (n * T) * w
           k == w * d + n * T * w
           q == 200 * n * (w - d)
<1>1. D \in Int /\ D > 0 /\ D <= 200 * T /\ M \in Int /\ M > 0 /\ n * sb \in Int
  OBVIOUS
<1>2. /\ d \in Int /\ d >= D /\ d >= 200 * T - 2 * M /\ (d = D \/ d = 200 * T - 2 * M) /\ d <= 200 * T
      /\ w \in Int /\ w <= 200 * (n * sb) /\ w <= 200 * T + 2 * M
      /\ w = 200 * (n * sb) \/ w = 200 * T + 2 * M
      /\ w >= 200 * T
  <2> HIDE DEF D, M
  <2> QED  BY <1>1
<1> HIDE DEF d, w
<1>3. d = D \/ d <= 400 * T - w
  <2> HIDE DEF D, M
  <2> QED  BY <1>1, <1>2
<1>4. n * (d * (w - 200 * T)) + (n - 1) * (n * (T * w)) < w * w
  BY <1>2, <1>3, LineBelow, ZenonT(30)
<1>5. ASSUME NEW s \in Nat, s <= sb
      PROVE  p * Share(n, T, m, s) <= k + q * s
  <2>1. Chord(n, T, m, sb, d, w)
    BY <1>2 DEF Chord
  <2>2. n \in Nat /\ n >= 1
    OBVIOUS
  <2>3. QED  BY <1>5, <2>1, <2>2, BelowChord, ZenonT(90)
<1>6. ASSUME NEW R \in Int, NEW S \in Int, T = sb + S, p * R <= k * (n - 1) + q * S
      PROVE  R <= 99
  <2>1. q * S <= (w - d) * (200 * D - w)
    <3>1. q * S = (w - d) * (200 * (n * S))
      BY <1>2
    <3>2. n * S = D - n * sb /\ n * S \in Int
      BY <1>6
    <3>3. 200 * (n * S) <= 200 * D - w
      <4> HIDE DEF D
      <4> QED  BY <1>1, <1>2, <3>2
    <3>4. w - d >= 0 /\ w - d \in Int
      BY <1>2
    <3> HIDE DEF q, D
    <3>5. \A x, y, z \in Int : x >= 0 /\ y <= z => x * y <= x * z
      OBVIOUS
    <3>6. 200 * (n * S) \in Int /\ 200 * D - w \in Int
      BY <1>1, <1>2, <3>2
    <3>7. (w - d) * (200 * (n * S)) <= (w - d) * (200 * D - w)
      BY <3>3, <3>4, <3>5, <3>6, Zenon
    <3>8. QED  BY <3>1, <3>7, Zenon
  <2>2. k * (n - 1) + (w - d) * (200 * D - w)
          = p * 100 + ((n * (d * (w - 200 * T)) + (n - 1) * (n * (T * w))) - w * w)
    <3>1. \A i, t, x, y \in Int :
            (x * y + i * t * x) * (i - 1) + (x - y) * (200 * (i * t) - x)
              = (2 * (i * t) * x) * 100 + ((i * (y * (x - 200 * t)) + (i - 1) * (i * (t * x))) - x * x)
      OBVIOUS
    <3>2. n \in Int /\ T \in Int
      OBVIOUS
    <3>3. QED  BY <1>2, <3>1, <3>2
  <2>3. p * R < p * 100
    <3>1. /\ k * (n - 1) \in Int /\ (w - d) * (200 * D - w) \in Int /\ q * S \in Int /\ p * 100 \in Int /\ p * R \in Int
          /\ n * (d * (w - 200 * T)) + (n - 1) * (n * (T * w)) \in Int /\ w * w \in Int
      BY <1>1, <1>2
    <3> HIDE DEF p, k, q, D
    <3> DEFINE u1 == k * (n - 1)
               u2 == (w - d) * (200 * D - w)
               u3 == q * S
               u4 == p * 100
               u5 == p * R
               u6 == n * (d * (w - 200 * T)) + (n - 1) * (n * (T * w))
               u7 == w * w
    <3>2. u5 <= u1 + u3 /\ u3 <= u2 /\ u1 + u2 = u4 + (u6 - u7) /\ u6 < u7
      <4>1. u5 <= u1 + u3
        BY <1>6, Zenon
      <4>2. u3 <= u2
        BY <2>1, Zenon
      <4>3. u1 + u2 = u4 + (u6 - u7)
        BY <2>2, Zenon
      <4>4. u6 < u7
        BY <1>4, Zenon
      <4>5. QED  BY <4>1, <4>2, <4>3, <4>4, Zenon
    <3> HIDE DEF u1, u2, u3, u4, u5, u6, u7
    <3>3. u1 \in Int /\ u2 \in Int /\ u3 \in Int /\ u4 \in Int /\ u5 \in Int /\ u6 \in Int /\ u7 \in Int
      BY <3>1, Zenon DEF u1, u2, u3, u4, u5, u6, u7
    <3>4. u5 < u4
      BY <3>2, <3>3
    <3>5. QED  BY <3>4, Zenon DEF u4, u5
  <2>4. p > 0 /\ p \in Int
    BY <1>1, <1>2
  <2> HIDE DEF p, k, q, D, M
  <2>5. ~(R < 100) => p * 100 <= p * R
    BY <1>6, <2>4
  <2>6. p * R \in Int /\ p * 100 \in Int
    BY <1>6, <2>4
  <2>7. R < 100
    BY <2>3, <2>5, <2>6
  <2>8. QED  BY <1>6, <2>7
<1>7. p \in Int /\ k \in Int /\ q \in Int
  BY <1>2
<1> HIDE DEF p, k, q
<1>8. IsLine(n, T, m, sb, p, k, q)
  BY <1>5, <1>6, Zenon DEF IsLine
<1>9. QED  BY <1>7, <1>8, Zenon

\* The weights of the clusters but the best sum to less than 100.
LEMMA OthersBelow ==
  ASSUME NEW E, IsFiniteSet(E), Cardinality(E) \in 2 .. 6, NEW scores \in [E -> Nat],
         SumFunctionOnSet(scores, E) >= 1, NEW m \in Nat, m >= 1,
         NEW b \in E, \A c \in E : scores[c] <= scores[b], NEW r,
         \A c \in E : /\ r[c] \in Int
                      /\ r[c] = Share(Cardinality(E), SumFunctionOnSet(scores, E), m, scores[c])
  PROVE  SumFunctionOnSet(r, E \ {b}) <= 99
<1> DEFINE n  == Cardinality(E)
           T  == SumFunctionOnSet(scores, E)
           O  == E \ {b}
           sb == scores[b]
           R  == SumFunctionOnSet(r, O)
           S  == SumFunctionOnSet(scores, O)
<1>1. Summable(scores, E) /\ Summable(scores, O) /\ Summable(r, O) /\ sb \in Nat
  BY FS_Subset DEF Summable
<1>2. T = sb + S /\ R \in Int /\ S \in Int /\ T \in Int /\ n \in 2 .. 6
  BY <1>1, SumTake, SumInt, Zenon
<1>3. Cardinality(O) = n - 1
  BY FS_RemoveElement, Zenon
<1>4. n * sb >= T
  <2>1. \A c \in E : 1 * scores[c] <= sb + 0 * scores[c]
    OBVIOUS
  <2>2. 1 * SumFunctionOnSet(scores, E) <= sb * Cardinality(E) + 0 * SumFunctionOnSet(scores, E)
    <3> HIDE DEF sb
    <3>1. 1 \in Int /\ 0 \in Int /\ sb \in Int
      BY <1>1
    <3>2. QED  BY <1>1, <2>1, <3>1, SumLinear, Zenon
  <2>3. sb * n = n * sb /\ n * sb \in Int
    BY <1>1, <1>2
  <2>4. QED  BY <1>2, <2>2, <2>3
<1>5. \A c \in O : scores[c] \in Nat /\ scores[c] <= sb /\ r[c] = Share(n, T, m, scores[c])
  BY Zenon
<1>5a. T \in Nat /\ T >= 1
  BY <1>2
<1> HIDE DEF sb, S, R, O, n, T
<1>6. PICK p, k, q \in Int : IsLine(n, T, m, sb, p, k, q)
  BY <1>1, <1>2, <1>4, <1>5a, LineFor, Zenon
<1>7. \A c \in O : p * r[c] <= k + q * scores[c]
  BY <1>5, <1>6, Zenon DEF IsLine
<1>8. p * SumFunctionOnSet(r, O) <= k * Cardinality(O) + q * SumFunctionOnSet(scores, O)
  BY <1>1, <1>7, SumLinear, Zenon
<1>9. p * R <= k * (n - 1) + q * S
  BY <1>3, <1>8, Zenon DEF R, S
<1>10. QED  BY <1>2, <1>6, <1>9, Zenon DEF IsLine, R, O

\* The weights of any scores are a share of the traffic (scoresToWeights).
LEMMA WeightsShare ==
  ASSUME NEW E \in SUBSET Nat, IsFiniteSet(E), Cardinality(E) >= 2, NEW scores \in [E -> Nat], NEW ms \in Int
  PROVE  /\ scoresToWeights(scores, ms) \in [E -> Int]
         /\ IsShare(scoresToWeights(scores, ms), ms)
<1> DEFINE n == Cardinality(E)
           T == SumFunctionOnSet(scores, E)
           m == IF ms <= 0 THEN 25 ELSE ms
           W == scoresToWeights(scores, ms)
           Near(w, best) == \A c \in E \ {best} : /\ n <= 100 => w[c] >= 1
                                                  /\ 2 * Abs(n * w[c] - 100) <= (2 * m + 1) * n
<1>1. n \in Nat /\ n >= 2 /\ m \in Nat /\ m >= 1
  BY FS_CardinalityType
<1>2. Summable(scores, E) /\ T \in Nat
  <2>1. Summable(scores, E) /\ \A x \in E : scores[x] >= 0
    BY DEF Summable
  <2>2. T \in Int
    BY <2>1, SumInt, Zenon
  <2>3. T >= 0
    BY <2>1, SumNat, Zenon
  <2> HIDE DEF T
  <2>4. QED  BY <2>1, <2>2, <2>3
<1>3. SumFunction(scores) = T /\ DOMAIN scores = E
  BY Zenon DEF SumFunction
<1>4. E # {}
  BY <1>1, FS_EmptySet
<1> HIDE DEF m
<1>5. CASE T = 0
  <2>1. W = [c \in E |-> 100 \div n]
    BY <1>3, <1>5, Zenon DEF scoresToWeights
  <2> HIDE DEF W, n, T
  <2> DEFINE q == 100 \div n
  <2>2. q \in Int /\ n * q <= 100 /\ 100 < n * q + n
    BY <1>1
  <2>3. n <= 100 => q >= 1
    BY <1>1, DivAtLeast
  <2> HIDE DEF q
  <2>4. 2 * Abs(n * q - 100) <= (2 * m + 1) * n
    <3>1. (2 * m + 1) * n >= 3 * n /\ (2 * m + 1) * n \in Int /\ n * q \in Int
      BY <1>1, <2>2
    <3>2. QED  BY <1>1, <2>2, <3>1 DEF Abs
  <2>5. W \in [E -> Int] /\ DOMAIN W = E /\ \A c \in E : W[c] = q
    BY <2>1, <2>2, Zenon DEF q
  <2>6. PICK best \in E : TRUE
    BY <1>4, Zenon
  <2>7. Near(W, best)
    BY <2>3, <2>4, <2>5, Zenon
  <2>8. \A c \in DOMAIN W : W[c] = 100 \div n
    BY <2>5, Zenon DEF q
  <2>9. n <= 6 => \A c \in DOMAIN W : W[c] >= 1
    BY <1>1, <2>3, <2>5
  <2>10. IsShare(W, ms)
    BY <2>5, <2>6, <2>7, <2>8, <2>9, ZenonT(30)  DEF IsShare, n, m
  <2>11. QED  BY <2>5, <2>10, Zenon DEF W
<1>6. CASE T # 0
  <2> DEFINE r    == [c \in E |-> Share(n, T, m, scores[c])]
             R    == SumFunctionOnSet(r, E)
             best == Best(scores)
  <2>1. T >= 1
    BY <1>2, <1>6
  <2>2. best \in E /\ \A c \in E : scores[c] <= scores[best]
    BY <1>4, BestIsBest, Zenon
  <2>3. W = [r EXCEPT ![best] = @ + 100 - R]
    <3>1. SumFunction(r) = R
      BY Zenon DEF SumFunction
    <3> DEFINE n0 == Cardinality(DOMAIN scores)
               T0 == SumFunction(scores)
               k0 == (IF ms <= 0 THEN 25 ELSE ms) * n0 * T0
               r0 == [c \in DOMAIN scores |->
                        Max({1, Round(100 * T0 + Clamp(100 * n0 * scores[c] - 100 * T0, -k0, k0), n0 * T0)})]
    <3>2. W = IF T0 = 0 THEN [c \in DOMAIN scores |-> 100 \div n0]
              ELSE [r0 EXCEPT ![best] = @ + 100 - SumFunction(r0)]
      BY Zenon DEF scoresToWeights
    <3>3. r0 = r
      <4>1. n0 = n /\ T0 = T
        BY <1>3, Zenon
      <4> HIDE DEF n0, T0, n, T
      <4>2. QED  BY <1>3, <4>1 DEF Share, Rounded, m
    <3> HIDE DEF r0, r, W, best, R
    <3>4. QED  BY <1>3, <1>6, <3>1, <3>2, <3>3, Zenon
  <2>4. \A c \in E : r[c] \in Int /\ r[c] >= 1 /\ 2 * Abs(n * r[c] - 100) <= (2 * m + 1) * n
    <3> TAKE c \in E
    <3> DEFINE M == m * n * T
               k == Clamp(100 * n * scores[c] - 100 * T, -M, M)
    <3>1. M \in Int /\ M >= 0 /\ 100 * n * scores[c] - 100 * T \in Int
      BY <1>1, <1>2, SMTT(30)
    <3>2. k \in Int /\ -M <= k /\ k <= M
      <4> HIDE DEF M
      <4> QED  BY <3>1 DEF Clamp
    <3>3. r[c] = Rounded(n, T, k)
      BY Zenon DEF Share
    <3> HIDE DEF k, r, n, T
    <3>4. n >= 1
      BY <1>1
    <3>5. /\ Rounded(n, T, k) \in Int /\ Rounded(n, T, k) >= 1
          /\ 2 * Abs(n * Rounded(n, T, k) - 100) <= (2 * m + 1) * n
      BY <1>1, <1>2, <2>1, <3>2, <3>4, RoundedNear, Zenon
    <3>6. QED  BY <3>3, <3>5, Zenon
  <2> HIDE DEF best, W
  <2>5. Summable(r, E) /\ R \in Int
    BY <2>4, SumInt, Zenon DEF Summable
  <2>6. /\ W \in [E -> Int] /\ DOMAIN W = E
        /\ W[best] = r[best] + 100 - R
        /\ \A c \in E \ {best} : W[c] = r[c]
    <3> HIDE DEF R
    <3>1. r \in [E -> Int]
      BY <2>4, Zenon
    <3> HIDE DEF r
    <3>2. QED  BY <2>2, <2>3, <2>5, <3>1
  <2>7. SumFunction(W) = 100
    <3>1. Summable(W, E) /\ SameBut(r, W, E, best)
      BY <2>6, Zenon DEF Summable, SameBut
    <3> HIDE DEF r, R, n, T
    <3>2. SumFunctionOnSet(W, E) = SumFunctionOnSet(r, E) - r[best] + W[best]
      BY <2>2, <2>5, <3>1, SumUpdate
    <3>3. r[best] \in Int
      BY <2>2, <2>4, Zenon
    <3>4. SumFunctionOnSet(W, E) = 100
      BY <2>5, <2>6, <3>2, <3>3 DEF R
    <3>5. QED  BY <2>6, <3>4, Zenon DEF SumFunction
  <2>8. Near(W, best)
    <3> HIDE DEF r, n, T
    <3> QED  BY <2>2, <2>4, <2>6, ZenonT(30)
  <2>9. n <= 6 => \A c \in E : W[c] >= 1
    <3> SUFFICES ASSUME n <= 6 PROVE \A c \in E : W[c] >= 1
      BY Zenon
    <3>1. n \in 2 .. 6
      BY <1>1
    <3>2. \A c \in E : r[c] \in Int /\ r[c] = Share(n, T, m, scores[c])
      BY <2>4, Zenon
    <3> HIDE DEF r
    <3>3. SumFunctionOnSet(r, E \ {best}) <= 99
      BY <1>1, <2>1, <2>2, <3>1, <3>2, OthersBelow, Zenon
    <3>4. R = r[best] + SumFunctionOnSet(r, E \ {best}) /\ SumFunctionOnSet(r, E \ {best}) \in Int
      <4>1. Summable(r, E \ {best})
        BY <2>5, SummablePart, Zenon
      <4>2. QED  BY <2>2, <2>5, <4>1, SumTake, SumInt, Zenon
    <3>5. W[best] >= 1
      BY <2>2, <2>4, <2>6, <3>3, <3>4
    <3>6. QED  BY <2>4, <2>6, <3>5, Zenon
  <2>10. IsShare(W, ms)
    <3> HIDE DEF r, T
    <3> QED  BY <2>2, <2>6, <2>7, <2>8, <2>9, ZenonT(90)  DEF IsShare, m
  <2>11. QED  BY <2>6, <2>10, Zenon DEF W
<1>7. QED  BY <1>5, <1>6, Zenon

-----------------------------------------------------------------------------
(* Plans. *)

\* A plan of the solver, for a policy's maxShift.
IsPlan(p, maxShift) ==
  /\ DOMAIN p \in SUBSET Cluster
  /\ p \in [DOMAIN p -> Int]
  /\ Cardinality(DOMAIN p) >= 2
  /\ IsShare(p, maxShift)

\* The solver directs no traffic, or shares it out among clusters
\* (solveTrafficWeights).
LEMMA SolverPlan ==
  ASSUME NEW profiles \in [Cluster -> Profiles], NEW ts \in Policies
  PROVE  LET p == solveTrafficWeights(Snapshot(profiles), ts)
         IN  p = <<>> \/ IsPlan(p, ts.maxShift)
<1> DEFINE snap == Snapshot(profiles)
           E    == eligibleForTraffic(snap, ts.minSLO)
           p    == solveTrafficWeights(snap, ts)
<1>1. DOMAIN snap = Cluster /\ \A c \in Cluster : Sane(snap[c])
  <2>1. DOMAIN snap = Cluster
    BY Zenon DEF Snapshot
  <2>2. ASSUME NEW c \in Cluster PROVE Sane(snap[c])
    <3>1. profiles[c] \in [health : Health, util : 0 .. 100 \cup {NoCapacity}, slo : Nat, cost : Nat, carbon : Nat]
      BY PlaneAssumption, Zenon
    <3>2. snap[c] = IF c \in seen THEN [profiles[c] EXCEPT !.health = "Hibernating"] ELSE profiles[c]
      BY Zenon DEF Snapshot
    <3>3. QED  BY <3>1, <3>2, Zenon DEF Sane
  <2>3. QED  BY <2>1, <2>2, Zenon
<1> HIDE DEF snap
<1>2. E \in SUBSET Cluster
  BY <1>1, Zenon DEF eligibleForTraffic
<1>3. E \in SUBSET Nat /\ IsFiniteSet(E)
  <2>1. Cluster \in SUBSET Nat
    BY PlaneAssumption, FS_CardinalityType
  <2>2. QED  BY <1>2, <2>1, PlaneAssumption, FS_Subset, Zenon
<1>4. CASE Cardinality(E) < 2
  BY <1>4, Zenon DEF solveTrafficWeights, snap
<1>5. CASE ~(Cardinality(E) < 2)
  <2> DEFINE scores == scoreAll(snap, E, ts.strategy)
  <2>1. p = scoresToWeights(scores, ts.maxShift)
    BY <1>5, Zenon DEF solveTrafficWeights
  <2>2. Cardinality(E) >= 2
    BY <1>3, <1>5, FS_CardinalityType
  <2> HIDE DEF E
  <2>3. scores \in [E -> Nat]
    BY <1>1, <1>2, <1>3, ScoresNat, Zenon
  <2>4. ts.maxShift \in Int
    BY PlaneAssumption, Zenon
  <2> HIDE DEF scores, p
  <2>5. p \in [E -> Int] /\ IsShare(p, ts.maxShift)
    BY <1>3, <2>1, <2>2, <2>3, <2>4, WeightsShare, Zenon
  <2>6. QED  BY <1>2, <2>2, <2>5, Zenon DEF IsPlan, p, snap
<1>6. QED  BY <1>4, <1>5, Zenon

\* The policy stays, and what waits for the shifter is a plan of the solver.
PlanInv ==
  /\ policy \in Policies
  /\ plan # <<>> => IsPlan(plan, policy.maxShift)

LEMMA PlanInit == Init => PlanInv
  BY Zenon DEF Init, PlanInv

LEMMA PlanStep == PlanInv /\ [Next]_vars => PlanInv'
<1> SUFFICES ASSUME PlanInv, [Next]_vars PROVE PlanInv'
  BY Zenon
<1>0. policy' = policy
  BY Zenon DEF Next, vars, planeVars, Solve, ShiftTraffic, CarryOut, ReportStatus
<1>1. ASSUME NEW profiles \in [Cluster -> Profiles], Solve(profiles) PROVE PlanInv'
  <2>1. plan' = solveTrafficWeights(Snapshot(profiles), policy)
    BY <1>1, Zenon DEF Solve
  <2>2. plan' = <<>> \/ IsPlan(plan', policy.maxShift)
    BY <2>1, SolverPlan, Zenon DEF PlanInv
  <2>3. QED  BY <1>0, <2>2, Zenon DEF PlanInv
<1>2. CASE plan' = <<>> \/ plan' = plan
  BY <1>0, <1>2, Zenon DEF PlanInv
<1>3. QED
  BY <1>1, <1>2, Zenon DEF Next, vars, planeVars, ShiftTraffic, CarryOut, ReportStatus

(* Every traffic directive shares out the whole of the traffic, within the   *)
(* policy's shift of equal shares but for the one cluster that takes the     *)
(* difference, and among up to six clusters with at least 1 for each         *)
(* (scoresToWeights).                                                        *)
THEOREM PlanIsShareHolds == Spec => []PlanIsShare
<1>1. PlanInv => PlanIsShare
  BY Zenon DEF PlanInv, PlanIsShare, IsPlan
<1>2. QED
  BY <1>1, PlanInit, PlanStep, PTL DEF Spec

-----------------------------------------------------------------------------
(* Reading and writing weights. *)

\* A route of any kind, whose entries have a weight or none.
IsRoute(r) ==
  /\ DOMAIN r = {"kind", "entry"}
  /\ r.kind \in Kinds
  /\ r.entry \in [Backend -> [weight : Int \cup {Unset}, extra : BOOLEAN]]

\* Weights as they are read: a number for every entry.
IsReading(w) == w \in [Backend -> Int]

\* What an entry's weight is read as.
AsRead(x) == IF x = Unset THEN 0 ELSE x

LEMMA ReadIs ==
  ASSUME NEW r, IsRoute(r)
  PROVE  readCurrentWeights(r) = [b \in Backend |-> AsRead(r.entry[b].weight)]
  BY Zenon DEF IsRoute, Kinds, readCurrentWeights, readHTTPRouteWeights, readVirtualServiceWeights,
         readDNSEndpointWeights, parseWeight, AsRead

\* Whatever the kind, every entry is read, and as a number.
LEMMA ReadIsReading ==
  ASSUME NEW r, IsRoute(r)
  PROVE  IsReading(readCurrentWeights(r))
<1>1. \A b \in Backend : AsRead(r.entry[b].weight) \in Int
  BY DEF IsRoute, AsRead
<1>2. QED  BY <1>1, ReadIs, Zenon DEF IsReading

\* Entries that are written have the new weight, the others keep theirs.
LEMMA PatchIs ==
  ASSUME NEW r, IsRoute(r), NEW w, \A b \in DOMAIN w : w[b] \in Int
  PROVE  LET p == patchWeights(r, w)
         IN  /\ IsRoute(p)
             /\ \A b \in Backend : p.entry[b].weight = IF b \in DOMAIN w THEN w[b] ELSE r.entry[b].weight
<1> DEFINE p == patchWeights(r, w)
           e == r.entry
<1>0. e \in [Backend -> [weight : Int \cup {Unset}, extra : BOOLEAN]] /\ DOMAIN e = Backend
  BY Zenon DEF IsRoute
<1>1. CASE r.kind = "gateway-api"
  <2>1. p = [r EXCEPT !.entry = patchHTTPRoute(e, w)]
    BY <1>1, Zenon DEF patchWeights
  <2>2. patchHTTPRoute(e, w) \in [Backend -> [weight : Int \cup {Unset}, extra : BOOLEAN]]
    BY <1>0, Zenon DEF patchHTTPRoute
  <2>3. \A b \in Backend : patchHTTPRoute(e, w)[b].weight = IF b \in DOMAIN w THEN w[b] ELSE e[b].weight
    BY <1>0, Zenon DEF patchHTTPRoute
  <2>4. QED  BY <2>1, <2>2, <2>3, Zenon DEF IsRoute
<1>2. CASE r.kind = "istio"
  <2>1. p = [r EXCEPT !.entry = patchVirtualService(e, w)]
    BY <1>2, Zenon DEF patchWeights
  <2>2. patchVirtualService(e, w) \in [Backend -> [weight : Int \cup {Unset}, extra : BOOLEAN]]
    BY <1>0, Zenon DEF patchVirtualService
  <2>3. \A b \in Backend : patchVirtualService(e, w)[b].weight = IF b \in DOMAIN w THEN w[b] ELSE e[b].weight
    BY <1>0, Zenon DEF patchVirtualService
  <2>4. QED  BY <2>1, <2>2, <2>3, Zenon DEF IsRoute
<1>3. CASE r.kind = "external-dns"
  <2>1. p = [r EXCEPT !.entry = patchDNSEndpoint(e, w)]
    BY <1>3, Zenon DEF patchWeights
  <2>2. patchDNSEndpoint(e, w) \in [Backend -> [weight : Int \cup {Unset}, extra : BOOLEAN]]
    BY <1>0, Zenon DEF patchDNSEndpoint
  <2>3. \A b \in Backend : patchDNSEndpoint(e, w)[b].weight = IF b \in DOMAIN w THEN w[b] ELSE e[b].weight
    BY <1>0, Zenon DEF patchDNSEndpoint
  <2>4. QED  BY <2>1, <2>2, <2>3, Zenon DEF IsRoute
<1>4. QED
  BY <1>1, <1>2, <1>3, Zenon DEF IsRoute, Kinds

\* So they are read.
LEMMA PatchIsRead ==
  ASSUME NEW r, IsRoute(r), NEW w, \A b \in DOMAIN w : w[b] \in Int
  PROVE  readCurrentWeights(patchWeights(r, w))
           = [b \in Backend |-> IF b \in DOMAIN w THEN w[b] ELSE readCurrentWeights(r)[b]]
<1> DEFINE p == patchWeights(r, w)
<1>1. IsRoute(p) /\ \A b \in Backend : p.entry[b].weight = IF b \in DOMAIN w THEN w[b] ELSE r.entry[b].weight
  BY PatchIs, Zenon
<1> HIDE DEF p
<1>2. readCurrentWeights(p) = [b \in Backend |-> AsRead(p.entry[b].weight)]
  BY <1>1, ReadIs, Zenon
<1>3. readCurrentWeights(r) = [b \in Backend |-> AsRead(r.entry[b].weight)]
  BY ReadIs, Zenon
<1>4. \A b \in DOMAIN w : AsRead(w[b]) = w[b]
  BY ShiftAssumption, Zenon DEF AsRead
<1>5. \A b \in Backend : AsRead(p.entry[b].weight)
                           = IF b \in DOMAIN w THEN w[b] ELSE readCurrentWeights(r)[b]
  BY <1>1, <1>3, <1>4, Zenon
<1>6. QED  BY <1>2, <1>5, Zenon DEF p

\* What is written for every entry is what is read afterwards.
LEMMA PatchWhole ==
  ASSUME NEW r, IsRoute(r), NEW w, IsReading(w)
  PROVE  readCurrentWeights(patchWeights(r, w)) = w
<1>1. DOMAIN w = Backend /\ \A b \in DOMAIN w : w[b] \in Int
  BY Zenon DEF IsReading
<1>2. readCurrentWeights(patchWeights(r, w))
        = [b \in Backend |-> IF b \in DOMAIN w THEN w[b] ELSE readCurrentWeights(r)[b]]
  BY <1>1, PatchIsRead, ZenonT(90)
<1>3. QED  BY <1>1, <1>2, Zenon DEF IsReading

-----------------------------------------------------------------------------
(* Clamping a plan. *)

\* An entry's weight before a shift.
Before(old, b) == IF b \in DOMAIN old THEN old[b] ELSE 0

\* After the clamp and before the correction no weight is negative.
LEMMA MovedNat ==
  ASSUME NEW old, \A b \in DOMAIN old : old[b] \in Int, NEW p, \A b \in DOMAIN p : p[b] \in Int
  PROVE  Moved(old, p) \in [DOMAIN p -> Nat]
<1>1. \A x, y \in Int : Floored(x + Step(x, y)) \in Nat
  BY ShiftAssumption DEF Floored, Step
<1>2. \A b \in DOMAIN p : Before(old, b) \in Int
  BY DEF Before
<1>3. Moved(old, p) = [b \in DOMAIN p |-> Floored(Before(old, b) + Step(Before(old, b), p[b]))]
  BY Zenon DEF Moved, Before
<1>4. \A b \in DOMAIN p : Floored(Before(old, b) + Step(Before(old, b), p[b])) \in Nat
  BY <1>1, <1>2, Zenon
<1>5. QED  BY <1>3, <1>4, Zenon

\* The correction makes the sum 100 if there is any weight (clampWeights).
LEMMA ClampedType ==
  ASSUME NEW old, \A b \in DOMAIN old : old[b] \in Int,
         NEW p, IsFiniteSet(DOMAIN p), \A b \in DOMAIN p : p[b] \in Int,
         NEW w \in clampWeights(old, p)
  PROVE  w \in [DOMAIN p -> Int] /\ (SumFunction(Moved(old, p)) > 0 => SumFunction(w) = 100)
<1> DEFINE D     == DOMAIN p
           moved == Moved(old, p)
           total == SumFunction(moved)
<1>1. moved \in [D -> Nat] /\ DOMAIN moved = D
  BY MovedNat, Zenon
<1>2. w \in Normalised(moved)
  BY Zenon DEF clampWeights
<1> HIDE DEF moved
<1>3. Summable(moved, D) /\ total = SumFunctionOnSet(moved, D) /\ total \in Int
  BY <1>1, SumInt DEF Summable, SumFunction
<1>4. CASE total = 100 \/ total <= 0
  <2>1. w = moved
    BY <1>2, <1>4, Zenon DEF Normalised
  <2>2. QED  BY <1>1, <1>3, <1>4, <2>1 DEF moved
<1>5. CASE ~(total = 100 \/ total <= 0)
  <2>1. PICK b \in D : w = [moved EXCEPT ![b] = @ + 100 - total]
    BY <1>1, <1>2, <1>5, Zenon DEF Normalised
  <2> HIDE DEF total
  <2>2. moved[b] \in Int /\ moved[b] + 100 - total \in Int
    BY <1>1, <1>3
  <2>3. w \in [D -> Int] /\ w[b] = moved[b] + 100 - total /\ SameBut(moved, w, D, b)
    BY <1>1, <2>1, <2>2 DEF SameBut
  <2>4. Summable(w, D)
    BY <2>3, Zenon DEF Summable
  <2>5. SumFunctionOnSet(w, D) = SumFunctionOnSet(moved, D) - moved[b] + w[b]
    BY <1>3, <2>3, <2>4, SumUpdate, SMTT(30)
  <2>6. SumFunctionOnSet(w, D) = 100
    BY <1>3, <2>2, <2>3, <2>5, SMTT(30)
  <2>7. QED  BY <2>3, <2>6, Zenon DEF SumFunction
<1>6. QED  BY <1>4, <1>5, Zenon

\* A plan for just the entries of a route that sums to 100 leaves some weight
\* after the clamp.
LEMMA SomeWeightLeft ==
  ASSUME NEW old, IsReading(old), SumFunction(old) = 100,
         NEW p, IsPlan(p, policy.maxShift), DOMAIN p = Backend, Cardinality(Backend) <= 100
  PROVE  SumFunction(Moved(old, p)) > 0
<1> DEFINE moved == Moved(old, p)
           total == SumFunctionOnSet(moved, Backend)
<1>1. IsFiniteSet(Backend) /\ Cardinality(Backend) >= 2 /\ \A b \in Backend : p[b] \in Int
  BY PlaneAssumption, FS_Subset, ZenonT(30)  DEF IsPlan
<1>2. PICK best \in Backend : \A c \in Backend \ {best} : p[c] >= 1
  BY ZenonT(30)  DEF IsPlan, IsShare
<1>3. DOMAIN old = Backend /\ \A b \in Backend : old[b] \in Int
  BY Zenon DEF IsReading
<1>4. moved \in [Backend -> Nat] /\ \A b \in Backend : moved[b] = Floored(old[b] + Step(old[b], p[b]))
  BY <1>1, <1>3, MovedNat, Zenon DEF Moved
<1>5. SumFunction(moved) = total /\ SumFunctionOnSet(old, Backend) = 100
  BY <1>3, <1>4, Zenon DEF SumFunction
<1> HIDE DEF moved
<1>6. Summable(moved, Backend) /\ Summable(old, Backend) /\ (\A b \in Backend : moved[b] >= 0)
  BY <1>1, <1>3, <1>4 DEF Summable
<1>7. total \in Int /\ \A b \in Backend : moved[b] <= total
  BY <1>6, SumInt, SumNat, ZenonT(30)
<1> HIDE DEF total
<1> SUFFICES ASSUME ~(total > 0) PROVE FALSE
  BY <1>5, <1>7, Zenon DEF moved
<1>8. \A b \in Backend : old[b] + Step(old[b], p[b]) <= 0
  <2> TAKE b \in Backend
  <2>1. moved[b] = 0
    BY <1>4, <1>7, SMTT(30)
  <2>2. Step(old[b], p[b]) \in Int
    BY <1>1, <1>3, ShiftAssumption, SMTT(30) DEF Step
  <2>3. QED  BY <1>3, <1>4, <2>1, <2>2 DEF Floored
<1>9. \A c \in Backend \ {best} : old[c] <= -MaxShift
  <2> TAKE c \in Backend \ {best}
  <2>1. p[c] >= 1 /\ p[c] \in Int /\ old[c] \in Int /\ old[c] + Step(old[c], p[c]) <= 0
    BY <1>1, <1>2, <1>3, <1>8, ZenonT(90)
  <2>2. QED  BY <2>1, ShiftAssumption DEF Step
<1>10. old[best] <= MaxShift
  <2>1. p[best] \in Int /\ old[best] \in Int /\ old[best] + Step(old[best], p[best]) <= 0
    BY <1>1, <1>2, <1>3, <1>8, ZenonT(90)
  <2>2. QED  BY <2>1, ShiftAssumption, SMTT(30) DEF Step
<1> DEFINE O == Backend \ {best}
<1>11. PICK c \in O : TRUE
  <2>1. Cardinality(O) = Cardinality(Backend) - 1
    BY <1>1, <1>2, FS_RemoveElement, ZenonT(30)
  <2>2. Cardinality(O) # 0
    BY <1>1, <2>1, FS_CardinalityType
  <2>3. QED  BY <2>2, FS_EmptySet, Zenon
<1> DEFINE O2 == O \ {c}
<1>12. Summable(old, O) /\ Summable(old, O2)
  BY <1>6, SummablePart, Zenon
<1>13. SumFunctionOnSet(old, Backend) = old[best] + SumFunctionOnSet(old, O)
  BY <1>2, <1>6, SumTake, ZenonT(30)
<1>14. SumFunctionOnSet(old, O) = old[c] + SumFunctionOnSet(old, O2)
  BY <1>11, <1>12, SumTake, SMTT(30)
<1>15. SumFunctionOnSet(old, O2) <= 0 /\ SumFunctionOnSet(old, O2) \in Int
  <2>1. \A b \in O2 : old[b] <= 0
    BY <1>3, <1>9, ShiftAssumption, SMTT(30)
  <2> HIDE DEF O2
  <2>2. QED  BY <1>12, <2>1, SumNotPositive, SumInt, ZenonT(30)
<1>16. old[best] \in Int /\ old[c] \in Int /\ old[c] <= -MaxShift
  BY <1>2, <1>3, <1>9, <1>11, ZenonT(30)
<1> HIDE DEF O, O2
<1>17. QED  BY <1>5, <1>10, <1>13, <1>14, <1>15, <1>16, ShiftAssumption, SMTT(30)

-----------------------------------------------------------------------------
(* Shifts, monitors and rollbacks. *)

\* An Apply under way: its plan, the weights it read, which are still those of
\* the route unless a rollback came in between, and the new ones, of which those
\* that are larger are checked or still to check.
ShiftOK ==
  /\ shift = [plan |-> shift.plan, oldW |-> shift.oldW, newW |-> shift.newW, unchecked |-> shift.unchecked]
  /\ IsReading(shift.oldW)
  /\ shift.newW \in [DOMAIN shift.plan -> Int]
  /\ shift.unchecked \in SUBSET DOMAIN shift.newW
  /\ \A b \in DOMAIN shift.newW :
       shift.newW[b] > Before(shift.oldW, b) => b \in shift.unchecked \cup checked
  /\ ~overtaken => shift.oldW = readCurrentWeights(route)

\* A monitor that sleeps or rolls back holds the weights of its shift.
MonitorOK(m) ==
  /\ mon[m] = [step |-> mon[m].step, applied |-> mon[m].applied]
  /\ mon[m].step \in {"idle", "sleep", "rollback"}
  /\ mon[m].step # "idle" => IsReading(mon[m].applied.oldW)

\* The record of the last shift holds what that shift replaced.
ShiftInv ==
  /\ IsRoute(route)
  /\ mon = [m \in Monitor |-> mon[m]]
  /\ \A m \in Monitor : MonitorOK(m)
  /\ shift # None => ShiftOK
  /\ lastApplied # None => IsReading(lastApplied.oldW)
  /\ undo # None => lastApplied.oldW = undo /\ IsReading(undo)
  /\ overtaken \in BOOLEAN /\ partial \in BOOLEAN

LEMMA ShiftInit == Init => ShiftInv
<1> SUFFICES ASSUME Init PROVE ShiftInv
  BY Zenon
<1>1. IsRoute(route)
  BY ShiftAssumption, Zenon DEF Init, ShifterInit, IsRoute
<1>2. QED
  BY <1>1, Zenon DEF Init, ShifterInit, ShiftInv, MonitorOK, IdleMonitor

LEMMA ShiftStep == PlanInv /\ ShiftInv /\ [Next]_vars => ShiftInv'
<1> SUFFICES ASSUME PlanInv, ShiftInv, [Next]_vars PROVE ShiftInv'
  BY Zenon
<1> USE DEF ShiftInv
<1>1. CASE UNCHANGED shifterVars
  BY <1>1, Zenon DEF shifterVars, ShiftOK, MonitorOK
<1>2. CASE ShiftTraffic
  <2> DEFINE old == readCurrentWeights(route)
  <2>1. plan # <<>> /\ Apply(plan)
    BY <1>2, Zenon DEF ShiftTraffic
  <2>2. PICK new \in clampWeights(old, plan) :
          shift' = [plan |-> plan, oldW |-> old, newW |-> new,
                    unchecked |-> {b \in DOMAIN new : new[b] > (IF b \in DOMAIN old THEN old[b] ELSE 0)}]
    BY <2>1, Zenon DEF Apply
  <2>3. IsReading(old)
    BY ReadIsReading, Zenon
  <2>4. new \in [DOMAIN plan -> Int]
    <3>1. IsFiniteSet(DOMAIN plan) /\ \A b \in DOMAIN plan : plan[b] \in Int
      BY <2>1, PlaneAssumption, FS_Subset, Zenon DEF PlanInv, IsPlan
    <3>2. \A b \in DOMAIN old : old[b] \in Int
      BY <2>3, Zenon DEF IsReading
    <3> HIDE DEF old
    <3>3. QED  BY <3>1, <3>2, ClampedType, Zenon
  <2>5. /\ shift'.plan = plan /\ shift'.oldW = old /\ shift'.newW = new
        /\ shift'.unchecked = {b \in DOMAIN new : new[b] > Before(old, b)}
        /\ shift' = [plan |-> shift'.plan, oldW |-> shift'.oldW, newW |-> shift'.newW,
                     unchecked |-> shift'.unchecked]
    BY <2>2, Zenon DEF Before
  <2>6. UNCHANGED <<route, lastApplied, mon, undo, partial>> /\ overtaken' = FALSE
    BY <2>1, Zenon DEF Apply
  <2>7. ShiftOK'
    BY <2>3, <2>4, <2>5, <2>6, Zenon DEF ShiftOK
  <2>8. QED  BY <2>6, <2>7, Zenon DEF MonitorOK
<1>3. CASE CheckDestination
  <2>1. PICK b \in shift.unchecked : /\ shift' = [shift EXCEPT !.unchecked = @ \ {b}]
                                     /\ checked' = checked \cup {b}
    BY <1>3, Zenon DEF CheckDestination
  <2>2. shift # None /\ UNCHANGED <<route, lastApplied, mon, overtaken, undo, partial>>
    BY <1>3, Zenon DEF CheckDestination
  <2>3. /\ shift'.plan = shift.plan /\ shift'.oldW = shift.oldW /\ shift'.newW = shift.newW
        /\ shift'.unchecked = shift.unchecked \ {b}
        /\ shift' = [plan |-> shift.plan, oldW |-> shift.oldW, newW |-> shift.newW, unchecked |-> shift.unchecked \ {b}]
    BY <2>1, <2>2, Zenon DEF ShiftOK
  <2>4. ShiftOK'
    BY <2>1, <2>2, <2>3, Zenon DEF ShiftOK
  <2>5. QED  BY <2>2, <2>4, Zenon DEF MonitorOK
<1>4. CASE RefuseShift \/ PatchShiftFails
  BY <1>4, Zenon DEF RefuseShift, PatchShiftFails, MonitorOK
<1>5. CASE PatchShift
  <2>1. shift # None /\ shift' = None /\ UNCHANGED <<mon, overtaken>> /\ lastApplied'.oldW = shift.oldW
    BY <1>5, Zenon DEF PatchShift
  <2>2. IsRoute(route') /\ IsReading(readCurrentWeights(route)) /\ IsReading(shift.oldW)
    BY <1>5, <2>1, PatchIs, ReadIsReading, Zenon DEF PatchShift, ShiftOK
  <2>3. undo' # None => ~overtaken /\ undo' = readCurrentWeights(route)
    BY <1>5, Zenon DEF PatchShift
  <2>4. partial' \in BOOLEAN
    BY <1>5, Zenon DEF PatchShift
  <2>5. undo' # None => lastApplied'.oldW = undo' /\ IsReading(undo')
    BY <2>1, <2>2, <2>3, Zenon DEF ShiftOK
  <2>6. QED  BY <2>1, <2>2, <2>4, <2>5, Zenon DEF MonitorOK
<1>6. ASSUME NEW m \in Monitor, StartMonitor(m) \/ EndMonitor(m) \/ FindDegraded(m) \/ RollbackFails(m)
      PROVE  ShiftInv'
  <2>1. UNCHANGED <<route, shift, lastApplied, checked, overtaken, undo, partial>>
    BY <1>6, Zenon DEF StartMonitor, EndMonitor, FindDegraded, RollbackFails
  <2>2. mon' = [n \in Monitor |-> mon'[n]] /\ \A n \in Monitor \ {m} : mon'[n] = mon[n]
    BY <1>6, Zenon DEF StartMonitor, EndMonitor, FindDegraded, RollbackFails
  <2>3. MonitorOK(m)'
    <3>1. CASE StartMonitor(m)
      <4>1. mon'[m] = [step |-> "sleep", applied |-> lastApplied] /\ lastApplied # None
        BY <3>1, Zenon DEF StartMonitor
      <4>2. QED  BY <4>1 DEF MonitorOK
    <3>2. CASE EndMonitor(m) \/ RollbackFails(m)
      <4>1. mon'[m] = IdleMonitor
        BY <3>2, Zenon DEF EndMonitor, RollbackFails
      <4>2. QED  BY <4>1 DEF MonitorOK, IdleMonitor
    <3>3. CASE FindDegraded(m)
      <4>1. mon'[m] = [step |-> "rollback", applied |-> mon[m].applied] /\ mon[m].step = "sleep"
        BY <3>3, SMTT(30) DEF FindDegraded, MonitorOK
      <4>2. QED  BY <4>1 DEF MonitorOK
    <3>4. QED  BY <1>6, <3>1, <3>2, <3>3, Zenon
  <2>4. \A n \in Monitor : MonitorOK(n)'
    BY <2>2, <2>3 DEF MonitorOK
  <2>5. shift' # None => ShiftOK'
    BY <2>1, Zenon DEF ShiftOK
  <2>6. QED  BY <2>1, <2>2, <2>4, <2>5, Zenon
<1>7. ASSUME NEW m \in Monitor, Rollback(m)
      PROVE  ShiftInv'
  <2>1. overtaken' = TRUE /\ UNCHANGED <<shift, lastApplied, checked, undo, partial>>
    BY <1>7, Zenon DEF Rollback
  <2>2. mon' = [n \in Monitor |-> mon'[n]] /\ mon'[m] = IdleMonitor /\ \A n \in Monitor \ {m} : mon'[n] = mon[n]
    BY <1>7, Zenon DEF Rollback
  <2>3. IsReading(mon[m].applied.oldW)
    BY <1>7, Zenon DEF Rollback, MonitorOK
  <2>4. IsRoute(route')
    BY <1>7, <2>3, PatchIs, Zenon DEF Rollback, IsReading
  <2>5. \A n \in Monitor : MonitorOK(n)'
    BY <2>2 DEF MonitorOK, IdleMonitor
  <2>6. shift' # None => ShiftOK'
    BY <2>1, Zenon DEF ShiftOK
  <2>7. QED  BY <2>1, <2>2, <2>4, <2>5, <2>6, Zenon
<1>8. QED
  BY <1>1, <1>2, <1>3, <1>4, <1>5, <1>6, <1>7, ZenonT(30)
     DEF Next, vars, Solve, CarryOut, ReportStatus, ShifterStep

(* A rollback of the latest shift puts back the weights that this shift      *)
(* replaced, however many monitors sleep and wake beside it                  *)
(* (MonitorAndRollback).                                                     *)
THEOREM RollbackUndoesHolds == Spec => RollbackUndoes
<1> DEFINE Undoes == \A m \in Monitor :
                       /\ mon[m].step = "rollback" /\ mon'[m].step = "idle" /\ route' # route
                       /\ mon[m].applied = lastApplied /\ undo # None
                       => readCurrentWeights(route') = undo
<1>1. ShiftInv /\ [Next]_vars => [Undoes]_vars
  <2> SUFFICES ASSUME ShiftInv, Next, NEW m \in Monitor,
                      mon[m].step = "rollback", mon'[m].step = "idle", route' # route,
                      mon[m].applied = lastApplied, undo # None
               PROVE  readCurrentWeights(route') = undo
    BY Zenon
  <2>1. mon' # mon
    BY Zenon
  <2>2. PICK n \in Monitor : Rollback(n)
    BY <2>1, Zenon DEF Next, Solve, ShiftTraffic, Apply, CarryOut, ReportStatus, ShifterStep, shifterVars,
                CheckDestination, RefuseShift, PatchShift, PatchShiftFails, StartMonitor, EndMonitor,
                FindDegraded, RollbackFails
  <2>3. n = m
    BY <2>2, Zenon DEF ShiftInv, Rollback
  <2>4. route' = patchWeights(route, undo)
    BY <2>2, <2>3, Zenon DEF ShiftInv, Rollback
  <2>5. QED  BY <2>4, PatchWhole, Zenon DEF ShiftInv
<1>2. QED
  BY <1>1, PlanInit, PlanStep, ShiftInit, ShiftStep, PTL DEF Spec, RollbackUndoes

(* A shift that no rollback came across raises the weight of a destination   *)
(* only after CheckSLO found it healthy in this very Apply.                   *)
THEOREM IncreaseCheckedHolds == Spec => IncreaseChecked
<1> DEFINE Checks == shift # None /\ shift' = None /\ route' # route /\ ~overtaken =>
                       \A b \in Backend :
                         readCurrentWeights(route')[b] > readCurrentWeights(route)[b] => b \in checked
<1>1. ShiftInv /\ [Next]_vars => [Checks]_vars
  <2> SUFFICES ASSUME ShiftInv, Next, shift # None, shift' = None, route' # route, ~overtaken,
                      NEW b \in Backend, readCurrentWeights(route')[b] > readCurrentWeights(route)[b]
               PROVE  b \in checked
    BY Zenon
  <2>1. PatchShift
    BY Zenon DEF Next, Solve, ShiftTraffic, Apply, CarryOut, ReportStatus, ShifterStep, shifterVars,
           CheckDestination, RefuseShift, PatchShift, PatchShiftFails, StartMonitor, EndMonitor,
           FindDegraded, Rollback, RollbackFails
  <2> DEFINE old == readCurrentWeights(route)
             new == shift.newW
  <2>2. ShiftOK /\ shift.oldW = old /\ shift.unchecked = {} /\ IsReading(old)
    BY <2>1, Zenon DEF ShiftInv, ShiftOK, PatchShift
  <2>3. readCurrentWeights(route')
          = [c \in Backend |-> IF c \in DOMAIN new THEN new[c] ELSE old[c]]
    BY <2>1, <2>2, PatchIsRead, ZenonT(30)  DEF ShiftInv, ShiftOK, PatchShift
  <2>4. old[b] \in Int /\ b \in DOMAIN new /\ new[b] > old[b] /\ Before(old, b) = old[b]
    BY <2>2, <2>3 DEF IsReading, Before
  <2> HIDE DEF old, new
  <2>5. QED  BY <2>2, <2>4, Zenon DEF ShiftOK, new
<1>2. QED
  BY <1>1, PlanInit, PlanStep, ShiftInit, ShiftStep, PTL DEF Spec, IncreaseChecked

-----------------------------------------------------------------------------
(* The sum of the weights. *)

\* As long as nothing partial was applied, whatever a shift or a rollback may
\* still write sums to 100.
TotalInv ==
  ~partial =>
    /\ SumFunction(readCurrentWeights(route)) = 100
    /\ shift # None => /\ SumFunction(shift.oldW) = 100
                       /\ DOMAIN shift.plan = Backend => SumFunction(shift.newW) = 100
    /\ lastApplied # None => SumFunction(lastApplied.oldW) = 100
    /\ \A m \in Monitor : mon[m].step # "idle" => SumFunction(mon[m].applied.oldW) = 100

LEMMA TotalInit == Init => TotalInv
<1> SUFFICES ASSUME Init PROVE TotalInv
  BY Zenon
<1>1. ~partial => SumFunction(readCurrentWeights(route)) = 100
  BY Zenon DEF Init, ShifterInit
<1>2. shift = None /\ lastApplied = None /\ \A m \in Monitor : mon[m].step = "idle"
  BY Zenon DEF Init, ShifterInit, IdleMonitor
<1>3. QED  BY <1>1, <1>2, Zenon DEF TotalInv

LEMMA TotalStep ==
  ASSUME Cardinality(Cluster) <= 100, PlanInv, ShiftInv, TotalInv, [Next]_vars
  PROVE  TotalInv'
<1> SUFFICES ASSUME ~partial' PROVE TotalInv'
  BY Zenon DEF TotalInv
<1>1. ~partial
  BY ZenonT(30) DEF Next, vars, Solve, ShiftTraffic, Apply, CarryOut, ReportStatus, ShifterStep, shifterVars,
         CheckDestination, RefuseShift, PatchShift, PatchShiftFails, StartMonitor, EndMonitor,
         FindDegraded, Rollback, RollbackFails
<1> USE <1>1 DEF TotalInv
<1>2. CASE UNCHANGED shifterVars
  BY <1>2, Zenon DEF shifterVars
<1>3. CASE ShiftTraffic
  <2> DEFINE old == readCurrentWeights(route)
  <2>1. plan # <<>> /\ Apply(plan) /\ UNCHANGED <<route, lastApplied, mon>>
    BY <1>3, ZenonT(30) DEF ShiftTraffic, Apply
  <2>2. PICK new \in clampWeights(old, plan) :
          shift' = [plan |-> plan, oldW |-> old, newW |-> new,
                    unchecked |-> {b \in DOMAIN new :
                                     new[b] > (IF b \in DOMAIN old THEN old[b] ELSE 0)}]
    BY <2>1, Zenon DEF Apply
  <2>2a. shift'.plan = plan /\ shift'.oldW = old /\ shift'.newW = new
    BY <2>2, Zenon
  <2>3. IsReading(old) /\ SumFunction(old) = 100
    BY ReadIsReading, Zenon DEF ShiftInv
  <2>4. ASSUME DOMAIN plan = Backend PROVE SumFunction(new) = 100
    <3> HIDE DEF TotalInv
    <3>1. IsPlan(plan, policy.maxShift) /\ Backend \in SUBSET Cluster
      BY <2>1, <2>4, Zenon DEF PlanInv, IsPlan
    <3>2. IsFiniteSet(DOMAIN plan) /\ \A b \in DOMAIN plan : plan[b] \in Int
      BY <3>1, PlaneAssumption, FS_Subset, Zenon DEF IsPlan
    <3>3. Cardinality(Backend) <= 100
      <4>1. Cardinality(Backend) <= Cardinality(Cluster)
        BY <3>1, PlaneAssumption, FS_Subset, Zenon
      <4>2. IsFiniteSet(Backend)
        BY <3>1, PlaneAssumption, FS_Subset, Zenon
      <4>3. Cardinality(Backend) \in Nat /\ Cardinality(Cluster) \in Nat
        BY <4>2, PlaneAssumption, FS_CardinalityType, Zenon
      <4>4. \A i, j \in Nat : i <= j /\ j <= 100 => i <= 100
        OBVIOUS
      <4>5. QED  BY <4>1, <4>3, <4>4, Zenon
    <3> HIDE DEF old
    <3>4. SumFunction(Moved(old, plan)) > 0
      BY <2>3, <2>4, <3>1, <3>3, SomeWeightLeft, Zenon
    <3>5. \A b \in DOMAIN old : old[b] \in Int
      BY <2>3, ZenonT(30)  DEF IsReading
    <3>6. QED  BY <3>2, <3>4, <3>5, ClampedType, Zenon
  <2>5. QED  BY <2>1, <2>2a, <2>3, <2>4, Zenon
<1>4. CASE CheckDestination
  <2>1. PICK b \in shift.unchecked : shift' = [shift EXCEPT !.unchecked = @ \ {b}]
    BY <1>4, Zenon DEF CheckDestination
  <2>2. shift # None /\ UNCHANGED <<route, lastApplied, mon>>
    BY <1>4, Zenon DEF CheckDestination
  <2>3. shift'.plan = shift.plan /\ shift'.oldW = shift.oldW /\ shift'.newW = shift.newW
    BY <2>1, <2>2, Zenon DEF ShiftInv, ShiftOK
  <2>4. QED  BY <2>2, <2>3, Zenon
<1>5. CASE RefuseShift \/ PatchShiftFails
  BY <1>5, ZenonT(90)  DEF RefuseShift, PatchShiftFails
<1>6. CASE PatchShift
  <2>1. shift # None /\ shift' = None /\ mon' = mon /\ lastApplied'.oldW = shift.oldW /\ DOMAIN shift.plan = Backend
    BY <1>6, Zenon DEF PatchShift
  <2>2. IsReading(shift.newW)
    BY <2>1, Zenon DEF ShiftInv, ShiftOK, IsReading
  <2>3. readCurrentWeights(route') = shift.newW
    BY <1>6, <2>2, PatchWhole, Zenon DEF ShiftInv, PatchShift
  <2>4. QED  BY <2>1, <2>3, Zenon
<1>7. ASSUME NEW m \in Monitor, StartMonitor(m) \/ EndMonitor(m) \/ FindDegraded(m) \/ RollbackFails(m)
      PROVE  TotalInv'
  <2>1. UNCHANGED <<route, shift, lastApplied>>
    BY <1>7, Zenon DEF StartMonitor, EndMonitor, FindDegraded, RollbackFails
  <2>2. \A n \in Monitor \ {m} : mon'[n] = mon[n]
    BY <1>7, ZenonT(90)  DEF StartMonitor, EndMonitor, FindDegraded, RollbackFails, ShiftInv
  <2>3. mon'[m].step # "idle" => SumFunction(mon'[m].applied.oldW) = 100
    <3>1. CASE StartMonitor(m)
      BY <3>1, Zenon DEF StartMonitor, ShiftInv
    <3>2. CASE EndMonitor(m) \/ RollbackFails(m)
      BY <3>2 DEF EndMonitor, RollbackFails, IdleMonitor, ShiftInv
    <3>3. CASE FindDegraded(m)
      BY <3>3 DEF FindDegraded, ShiftInv, MonitorOK
    <3>4. QED  BY <1>7, <3>1, <3>2, <3>3, Zenon
  <2>4. QED  BY <2>1, <2>2, <2>3
<1>8. ASSUME NEW m \in Monitor, Rollback(m)
      PROVE  TotalInv'
  <2>1. UNCHANGED <<shift, lastApplied>> /\ mon'[m].step = "idle" /\ \A n \in Monitor \ {m} : mon'[n] = mon[n]
    BY <1>8, Zenon DEF Rollback, IdleMonitor, ShiftInv
  <2>2. readCurrentWeights(route') = mon[m].applied.oldW
    <3>1. IsRoute(route) /\ MonitorOK(m)
      BY Zenon DEF ShiftInv
    <3>2. mon[m].step = "rollback" /\ route' = patchWeights(route, mon[m].applied.oldW)
      BY <1>8, Zenon DEF Rollback
    <3>3. IsReading(mon[m].applied.oldW)
      BY <3>1, <3>2, Zenon DEF MonitorOK
    <3>4. QED  BY <3>1, <3>2, <3>3, PatchWhole, Zenon
  <2>3. SumFunction(mon[m].applied.oldW) = 100
    BY <1>8, Zenon DEF Rollback
  <2>4. QED  BY <2>1, <2>2, <2>3, ZenonT(30)
<1>9. QED
  BY <1>2, <1>3, <1>4, <1>5, <1>6, <1>7, <1>8, ZenonT(30) 
     DEF Next, vars, Solve, CarryOut, ReportStatus, ShifterStep

(* From an owner's route that sums to 100, the weights sum to 100 however    *)
(* shifts, monitors and rollbacks of older shifts interleave, as long as     *)
(* each applied plan named just the route's entries (clampWeights,           *)
(* patchWeights).  With more than 100 clusters and no score the equal        *)
(* weights are all 0, and nothing is left to correct.                        *)
THEOREM TotalKeptHolds ==
  ASSUME Cardinality(Cluster) <= 100
  PROVE  Spec => []TotalKept
<1>1. TotalInv => TotalKept
  BY Zenon DEF TotalInv, TotalKept
<1>2. PlanInv /\ ShiftInv /\ TotalInv /\ [Next]_vars => TotalInv'
  BY TotalStep, Zenon
<1>3. QED
  BY <1>1, <1>2, PlanInit, PlanStep, ShiftInit, ShiftStep, TotalInit, PTL DEF Spec

-----------------------------------------------------------------------------
(* Types. *)

\* The solver's side of the type invariant.
PlaneInv ==
  /\ blind \in BOOLEAN
  /\ asleep \in SUBSET Cluster /\ seen \in SUBSET Cluster
  /\ todo \in SUBSET [type : {"hibernate", "wake_up"}, cluster : Cluster]
  /\ cycles \in 0 .. MaxCycles

\* Only clusters of the snapshot are told to hibernate or to wake up.
LEMMA LifecycleResult ==
  ASSUME NEW snap, DOMAIN snap = Cluster, NEW lc, NEW result \in solveLifecycle(snap, lc)
  PROVE  result.hibernate \subseteq Cluster /\ result.wakeUp \subseteq Cluster
<1>1. Cluster \in SUBSET Nat
  BY PlaneAssumption, FS_CardinalityType
<1>2. Wake(snap) \subseteq Cluster
  <2> DEFINE off == Cluster \ ActiveClusters(snap)
  <2>1. ASSUME off # {} PROVE Min(off) \in off
    <3>1. \E x \in off : \A y \in off : x <= y
      BY <1>1, <2>1, LeastNat, Zenon
    <3>2. QED  BY <3>1, Zenon DEF Min
  <2>2. Wake(snap) = {} \/ (off # {} /\ Wake(snap) = {Min(off)})
    BY Zenon DEF Wake
  <2>3. QED  BY <2>1, <2>2, Zenon
<1>3. \A S \in HibernateChoices(snap, lc) : S \subseteq Cluster
  BY Zenon DEF HibernateChoices, kSubset, Idle
<1>4. QED  BY <1>2, <1>3 DEF solveLifecycle

LEMMA PlaneStep == PlanInv /\ PlaneInv /\ [Next]_vars => PlaneInv'
<1> SUFFICES ASSUME PlanInv, PlaneInv, [Next]_vars PROVE PlaneInv'
  BY Zenon
<1> USE DEF PlaneInv
<1>1. ASSUME NEW profiles \in [Cluster -> Profiles], Solve(profiles) PROVE PlaneInv'
  <2>1. PICK result \in solveLifecycle(Snapshot(profiles), policy) :
          todo' = todo \cup {[type |-> "hibernate", cluster |-> c] : c \in result.hibernate}
                       \cup {[type |-> "wake_up", cluster |-> c] : c \in result.wakeUp}
    BY <1>1, Zenon DEF Solve
  <2>2. DOMAIN Snapshot(profiles) = Cluster
    BY Zenon DEF Snapshot
  <2>3. result.hibernate \subseteq Cluster /\ result.wakeUp \subseteq Cluster
    BY <2>2, LifecycleResult, Zenon
  <2>4. todo' \in SUBSET [type : {"hibernate", "wake_up"}, cluster : Cluster]
    BY <2>1, <2>3
  <2>5. cycles' \in 0 .. MaxCycles
    <3>1. cycles \in 0 .. MaxCycles /\ cycles < MaxCycles /\ cycles' = cycles + 1
      BY <1>1, Zenon DEF Solve
    <3>2. \A n \in Nat : \A c \in 0 .. n : c < n => c + 1 \in 0 .. n
      OBVIOUS
    <3>3. QED  BY <3>1, <3>2, PlaneAssumption, Zenon
  <2>6. QED  BY <1>1, <2>4, <2>5, Zenon DEF Solve
<1>2. ASSUME NEW d \in todo, CarryOut(d) PROVE PlaneInv'
  <2>1. d.cluster \in Cluster
    BY Zenon
  <2>2. QED  BY <1>2, <2>1, Zenon DEF CarryOut
<1>3. CASE ShiftTraffic \/ ReportStatus \/ UNCHANGED planeVars
  BY <1>3, Zenon DEF ShiftTraffic, ReportStatus, planeVars
<1>4. QED
  BY <1>1, <1>2, <1>3, ZenonT(30) DEF Next, vars

(* The variables have their types: in particular every record of a shift,    *)
(* also one that a monitor took over, holds a weight for every entry         *)
(* (Apply, MonitorAndRollback).                                              *)
THEOREM TypeOKHolds == Spec => []TypeOK
<1>1. Init => PlaneInv
  <2>1. 0 \in 0 .. MaxCycles
    BY PlaneAssumption
  <2>2. QED  BY <2>1, Zenon DEF Init, PlaneInv
<1>2. PlanInv /\ ShiftInv /\ PlaneInv => TypeOK
  <2> SUFFICES ASSUME PlanInv, ShiftInv, PlaneInv PROVE TypeOK
    BY Zenon
  <2>1. route.kind \in Kinds /\ \A b \in Backend : /\ route.entry[b].weight \in Int \cup {Unset}
                                                   /\ route.entry[b].extra \in BOOLEAN
    BY Zenon DEF ShiftInv, IsRoute
  <2>2. shift # None => /\ DOMAIN shift.oldW = Backend
                        /\ DOMAIN shift.newW = DOMAIN shift.plan
                        /\ shift.unchecked \subseteq DOMAIN shift.newW
    BY Zenon DEF ShiftInv, ShiftOK, IsReading
  <2>3. \A m \in Monitor : /\ mon[m].step \in {"idle", "sleep", "rollback"}
                           /\ mon[m].step # "idle" => DOMAIN mon[m].applied.oldW = Backend
    BY Zenon DEF ShiftInv, MonitorOK, IsReading
  <2>4. lastApplied # None => DOMAIN lastApplied.oldW = Backend
    BY Zenon DEF ShiftInv, IsReading
  <2>5. /\ {overtaken, partial, blind} \subseteq BOOLEAN
        /\ asleep \cup seen \subseteq Cluster
        /\ todo \subseteq [type : {"hibernate", "wake_up"}, cluster : Cluster]
        /\ policy \in Policies
        /\ cycles \in 0 .. MaxCycles
    BY Zenon DEF ShiftInv, PlanInv, PlaneInv
  <2>6. QED  BY <2>1, <2>2, <2>3, <2>4, <2>5, Zenon DEF TypeOK
<1>3. QED
  BY <1>1, <1>2, PlanInit, PlanStep, ShiftInit, ShiftStep, PlaneStep, PTL DEF Spec

-----------------------------------------------------------------------------
(* Hibernation. *)

\* The clusters neither hibernating nor told to.
Awake == Cluster \ (asleep \cup {d.cluster : d \in {d \in todo : d.type = "hibernate"}})

LEMMA MaxPair ==
  ASSUME NEW x \in Int, NEW y \in Int
  PROVE  Max({x, y}) \in {x, y} /\ Max({x, y}) >= x /\ Max({x, y}) >= y
<1>1. \E z \in {x, y} : \A t \in {x, y} : z >= t
  OBVIOUS
<1>2. QED  BY <1>1, Zenon DEF Max

LEMMA MinPair ==
  ASSUME NEW x \in Int, NEW y \in Int
  PROVE  Min({x, y}) \in {x, y} /\ Min({x, y}) <= x /\ Min({x, y}) <= y
<1>1. \E z \in {x, y} : \A t \in {x, y} : z <= t
  OBVIOUS
<1>2. QED  BY <1>1, Zenon DEF Min

\* The loop over the idle clusters hibernates none, or leaves minActive.
LEMMA ChoiceLeaves ==
  ASSUME NEW snap, DOMAIN snap = Cluster, NEW lc, lc.minActive \in Int,
         NEW S \in HibernateChoices(snap, lc)
  PROVE  S = {} \/ lc.minActive <= Cardinality(ActiveClusters(snap) \ S)
<1> DEFINE active    == ActiveClusters(snap)
           minActive == IF lc.minActive <= 0 THEN 1 ELSE lc.minActive
           slack     == Cardinality(active) - minActive
           spare     == Max({0, slack})
           idle      == Idle(snap, lc)
           k         == Min({spare, Cardinality(idle)})
<1>1. active \subseteq Cluster /\ idle \subseteq active
  BY Zenon DEF ActiveClusters, Idle
<1>2. /\ IsFiniteSet(active) /\ Cardinality(active) \in Nat
      /\ IsFiniteSet(idle) /\ Cardinality(idle) \in Nat
  BY <1>1, PlaneAssumption, FS_Subset, FS_CardinalityType, Zenon
<1>3. S \subseteq idle /\ Cardinality(S) = k
  BY Zenon DEF HibernateChoices, kSubset
<1>4. /\ IsFiniteSet(S) /\ Cardinality(S) \in Nat
      /\ IsFiniteSet(active \ S) /\ Cardinality(active \ S) \in Nat
  BY <1>1, <1>2, <1>3, FS_Subset, FS_CardinalityType, Zenon
<1>5. Cardinality(active) = Cardinality(active \ S) + Cardinality(S)
  <2>1. (active \ S) \cup S = active /\ (active \ S) \cap S = {}
    BY <1>1, <1>3, Zenon
  <2>2. Cardinality((active \ S) \cup S)
          = Cardinality(active \ S) + Cardinality(S) - Cardinality((active \ S) \cap S)
    BY <1>4, FS_Union, Zenon
  <2>3. Cardinality((active \ S) \cap S) = 0
    BY <2>1, FS_EmptySet, Zenon
  <2>4. Cardinality((active \ S) \cup S) = Cardinality(active)
    BY <2>1, Zenon
  <2>5. QED  BY <1>4, <2>2, <2>3, <2>4
<1> HIDE DEF active, idle
<1>6. minActive \in Int /\ minActive >= lc.minActive
  OBVIOUS
<1> HIDE DEF minActive
<1>7. spare \in Int /\ (spare = 0 \/ spare = Cardinality(active) - minActive)
  <2>1. slack \in Int
    BY <1>2, <1>6
  <2> HIDE DEF slack
  <2>2. spare \in {0, slack}
    BY <2>1, 0 \in Int, MaxPair, Zenon
  <2>3. QED  BY <2>1, <2>2 DEF slack
<1> HIDE DEF spare
<1>8. k <= spare
  BY <1>2, <1>7, MinPair
<1> HIDE DEF k
<1>9. CASE spare = 0
  <2>1. Cardinality(S) = 0
    BY <1>3, <1>4, <1>8, <1>9
  <2>2. QED  BY <1>4, <2>1, FS_EmptySet, Zenon
<1>10. CASE spare = Cardinality(active) - minActive
  <2>1. lc.minActive <= Cardinality(active \ S)
    BY <1>2, <1>3, <1>4, <1>5, <1>6, <1>7, <1>8, <1>10, SMTT(30)
  <2>2. QED  BY <2>1, Zenon DEF active
<1>11. QED
  BY <1>7, <1>9, <1>10, Zenon

\* The bound that KeepsMinActive compares with is that of one of the policies.
ActiveInv ==
  /\ policy \in Policies
  /\ KeepsMinActive

LEMMA AwakeCount ==
  ASSUME NEW S, NEW T \in SUBSET Cluster, S \subseteq T
  PROVE  Cardinality(S) \in Nat /\ Cardinality(T) \in Nat /\ Cardinality(S) <= Cardinality(T)
<1>1. IsFiniteSet(T)
  BY PlaneAssumption, FS_Subset, Zenon
<1>2. QED
  BY <1>1, FS_Subset, FS_CardinalityType, Zenon

LEMMA ActiveStep == ActiveInv /\ [Next]_vars => ActiveInv'
<1> SUFFICES ASSUME ActiveInv, [Next]_vars PROVE ActiveInv'
  BY Zenon
<1>0. policy' = policy /\ policy \in Policies /\ policy.minActive \in Int
  BY PlaneAssumption, Zenon DEF ActiveInv, Next, vars, planeVars, Solve, ShiftTraffic, CarryOut, ReportStatus
<1> SUFFICES ASSUME ~blind' PROVE policy.minActive <= Cardinality(Awake')
  BY <1>0, Zenon DEF ActiveInv, KeepsMinActive, Awake
<1>1. ASSUME ~blind, Awake \subseteq Awake'
      PROVE  policy.minActive <= Cardinality(Awake')
  <2>1. policy.minActive <= Cardinality(Awake)
    BY <1>1, Zenon DEF ActiveInv, KeepsMinActive, Awake
  <2>2. Cardinality(Awake) \in Nat /\ Cardinality(Awake') \in Nat /\ Cardinality(Awake) <= Cardinality(Awake')
    BY <1>1, AwakeCount, Zenon DEF Awake
  <2>3. QED  BY <1>0, <2>1, <2>2
<1>2. ASSUME NEW profiles \in [Cluster -> Profiles], Solve(profiles)
      PROVE  policy.minActive <= Cardinality(Awake')
  <2> DEFINE snap == Snapshot(profiles)
  <2>1. ~blind /\ todo = {} /\ seen = asleep /\ asleep' = asleep
    BY <1>2, Zenon DEF Solve
  <2>2. PICK result \in solveLifecycle(snap, policy) :
          todo' = todo \cup {[type |-> "hibernate", cluster |-> c] : c \in result.hibernate}
                       \cup {[type |-> "wake_up", cluster |-> c] : c \in result.wakeUp}
    BY <1>2, Zenon DEF Solve
  <2>3. Awake' = Cluster \ (asleep \cup result.hibernate) /\ Awake = Cluster \ asleep
    <3>1. {d.cluster : d \in {d \in todo' : d.type = "hibernate"}} = result.hibernate
      <4> DEFINE told == {d \in todo' : d.type = "hibernate"}
      <4>0. todo' = {[type |-> "hibernate", cluster |-> c] : c \in result.hibernate}
                      \cup {[type |-> "wake_up", cluster |-> c] : c \in result.wakeUp}
        BY <2>1, <2>2, Zenon
      <4>1. told = {[type |-> "hibernate", cluster |-> c] : c \in result.hibernate}
        BY <4>0
      <4> HIDE DEF told
      <4>2. \A d \in told : d.cluster \in result.hibernate
        <5> TAKE d \in told
        <5>1. PICK c \in result.hibernate : d = [type |-> "hibernate", cluster |-> c]
          BY <4>1, Zenon
        <5>2. QED  BY <5>1, Zenon
      <4>3. \A c \in result.hibernate : \E d \in told : d.cluster = c
        <5> TAKE c \in result.hibernate
        <5> [type |-> "hibernate", cluster |-> c] \in told
          BY <4>1, Zenon
        <5> WITNESS [type |-> "hibernate", cluster |-> c] \in told
        <5> QED  BY Zenon
      <4>4. QED  BY <4>2, <4>3, ZenonT(30)  DEF told
    <3>2. {d.cluster : d \in {d \in todo : d.type = "hibernate"}} = {}
      BY <2>1, Zenon
    <3>3. QED  BY <2>1, <3>1, <3>2, Zenon DEF Awake
  <2>4. DOMAIN snap = Cluster /\ ActiveClusters(snap) \subseteq Cluster \ asleep
    BY <2>1 DEF Snapshot, ActiveClusters
  <2> HIDE DEF snap
  <2>5. result.hibernate = {} \/ result.hibernate \in HibernateChoices(snap, policy)
    <3>1. CASE ~policy.hibernationEnabled
      BY <2>2, <3>1 DEF solveLifecycle
    <3>2. CASE policy.hibernationEnabled
      <4>1. PICK S \in HibernateChoices(snap, policy) : result = [hibernate |-> S, wakeUp |-> Wake(snap)]
        BY <2>2, <3>2, Zenon DEF solveLifecycle
      <4>2. QED  BY <4>1, Zenon
    <3>3. QED  BY <3>1, <3>2, ZenonT(30)
  <2>6. CASE result.hibernate = {}
    BY <2>1, <2>3, <2>6, <1>1, ZenonT(30)
  <2>7. CASE /\ result.hibernate \in HibernateChoices(snap, policy)
             /\ policy.minActive <= Cardinality(ActiveClusters(snap) \ result.hibernate)
    <3>1. ActiveClusters(snap) \ result.hibernate \subseteq Awake'
      BY <2>3, <2>4, Zenon
    <3>2. Awake' \in SUBSET Cluster
      BY <2>3, Zenon
    <3>3. QED  BY <1>0, <2>7, <3>1, <3>2, AwakeCount, SMTT(30)
  <2>8. QED  BY <1>0, <2>4, <2>5, <2>6, <2>7, ChoiceLeaves, ZenonT(30)
<1>3. ASSUME NEW d \in todo, CarryOut(d)
      PROVE  policy.minActive <= Cardinality(Awake')
  <2>1. ~blind
    BY <1>3, Zenon DEF CarryOut
  <2>2. Awake \subseteq Awake'
    BY <1>3, Zenon DEF CarryOut, Awake
  <2>3. QED  BY <1>1, <2>1, <2>2, Zenon
<1>4. CASE UNCHANGED <<asleep, todo, blind>>
  BY <1>1, <1>4, Zenon DEF Awake
<1>5. QED
  BY <1>2, <1>3, <1>4, Zenon DEF Next, vars, planeVars, ShiftTraffic, ReportStatus

(* As long as every cycle sees what the directives of the earlier ones did,  *)
(* the solver never tells so many clusters to hibernate that fewer than      *)
(* minActive are left (solveLifecycle).                                      *)
THEOREM KeepsMinActiveHolds == Spec => []KeepsMinActive
<1>1. Init => ActiveInv
  <2> SUFFICES ASSUME Init PROVE ActiveInv
    BY Zenon
  <2>1. policy \in Policies /\ Cluster \ (asleep \cup {d.cluster : d \in {d \in todo : d.type = "hibernate"}}) = Cluster
    BY Zenon DEF Init
  <2>2. QED  BY <2>1, PlaneAssumption, Zenon DEF ActiveInv, KeepsMinActive
<1>2. QED
  BY <1>1, ActiveStep, PTL DEF Spec, ActiveInv
=============================================================================
