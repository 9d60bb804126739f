-------------------------- MODULE FairShareProofs ---------------------------
(***************************************************************************)
(* The inductive invariant of the fair-share computation, for any number   *)
(* of tenants and any weights, guarantees and caps.  BackgroundProofs      *)
(* draws the theorem from it.                                              *)
(***************************************************************************)
EXTENDS FairShare, FiniteSetTheorems, TLAPS

-----------------------------------------------------------------------------
(* Sums over finite sets.  What would be an induction argues by a smallest   *)
(* case that fails: LeastNat and SmallestSubset give it, and the case just   *)
(* below holds.                                                              *)

\* A set of natural numbers that is not empty has a least element.
LEMMA LeastNat ==
  ASSUME NEW N \in SUBSET Nat, N # {}
  PROVE  \E x \in N : \A y \in N : x <= y
<1>1. PICK x \in N : \A y \in N : ~(<<y, x>> \in OpToRel(<, Nat))
  BY WFMin, NatLessThanWellFounded, Zenon
<1>2. \A a, b \in Nat : b < a => <<b, a>> \in OpToRel(<, Nat)
  BY Zenon DEF OpToRel
<1>3. \A y \in N : ~(y < x)
  BY <1>1, <1>2, Zenon
<1>4. QED  BY <1>3

\* Among the subsets of a finite set that have a property, one has no smaller
\* one that has it.
LEMMA SmallestSubset ==
  ASSUME NEW S, IsFiniteSet(S), NEW B \in SUBSET (SUBSET S), B # {}
  PROVE  \E s \in B : \A t \in SUBSET s : t # s => t \notin B
<1> DEFINE N == {n \in Nat : \E s \in B : Cardinality(s) = n}
<1>1. \A s \in SUBSET S : IsFiniteSet(s) /\ Cardinality(s) \in Nat
  BY FS_Subset, FS_CardinalityType, Zenon
<1>2. N \in SUBSET Nat /\ N # {}
  <2>1. PICK s \in B : TRUE
    BY Zenon
  <2>2. Cardinality(s) \in N
    BY <1>1, <2>1, Zenon
  <2>3. QED  BY <2>2, Zenon
<1>3. PICK n \in N : \A m \in N : n <= m
  BY <1>2, LeastNat, Zenon
<1>4. PICK s \in B : Cardinality(s) = n
  BY <1>3, Zenon
<1>5. ASSUME NEW t \in SUBSET s, t # s, t \in B
      PROVE  FALSE
  <2>1. s \in SUBSET S /\ t \in SUBSET S
    BY <1>5, Zenon
  <2>2. Cardinality(t) <= Cardinality(s) /\ Cardinality(t) # Cardinality(s)
    BY <1>1, <1>5, <2>1, FS_Subset, Zenon
  <2>3. Cardinality(t) \in N
    BY <1>1, <1>5, <2>1, Zenon
  <2>4. n <= Cardinality(t)
    BY <1>3, <2>3, Zenon
  <2>5. QED  BY <1>1, <1>4, <2>1, <2>2, <2>4
<1>6. QED  BY <1>4, <1>5, Zenon

-----------------------------------------------------------------------------
(* The recursive function behind SumFunctionOnSet. *)

\* A finite sum of integers.
Summable(f, S) == IsFiniteSet(S) /\ \A x \in S : f[x] \in Int

Pick(s) == CHOOSE x \in s : TRUE

Sums(f, S) ==
  CHOOSE g : g = [s \in SUBSET S |-> IF s = {} THEN 0 ELSE f[Pick(s)] + g[s \ {Pick(s)}]]

LEMMA SumIsSums ==
  ASSUME NEW f, NEW S
  PROVE  SumFunctionOnSet(f, S) = Sums(f, S)[S]
  BY Zenon DEF Sums, Pick, SumFunctionOnSet, FoldFunctionOnSet, MapThenFoldSet

LEMMA PickIn ==
  ASSUME NEW s, s # {}
  PROVE  Pick(s) \in s
  BY Zenon DEF Pick

\* There is a function that satisfies the equation, so Sums does: it can be
\* found for the sets with at most n elements, for every n.
LEMMA SumsDef ==
  ASSUME NEW S, NEW f, Summable(f, S)
  PROVE  Sums(f, S) =
           [s \in SUBSET S |-> IF s = {} THEN 0 ELSE f[Pick(s)] + Sums(f, S)[s \ {Pick(s)}]]
<1> IsFiniteSet(S) /\ \A x \in S : f[x] \in Int
  BY Zenon DEF Summable
<1> DEFINE Body(g, s) == IF s = {} THEN 0 ELSE f[Pick(s)] + g[s \ {Pick(s)}]
           Upto(g, n) == \A s \in SUBSET S : Cardinality(s) <= n => g[s] = Body(g, s)
           Fails == {n \in Nat : ~\E g \in [SUBSET S -> Int] : Upto(g, n)}
<1>0. \A s \in SUBSET S : IsFiniteSet(s) /\ Cardinality(s) \in Nat /\ Cardinality(s) <= Cardinality(S)
  BY FS_Subset, FS_CardinalityType, Zenon
<1>1. \A g \in [SUBSET S -> Int], s \in SUBSET S : Body(g, s) \in Int
  BY PickIn
<1>2. Fails = {}
  <2> SUFFICES ASSUME Fails # {} PROVE FALSE
    BY Zenon
  <2>1. PICK n \in Fails : \A m \in Fails : n <= m
    BY LeastNat, Zenon
  <2>2. n # 0
    <3> DEFINE zero == [s \in SUBSET S |-> 0]
    <3>1. \A s \in SUBSET S : Cardinality(s) <= 0 => s = {}
      BY <1>0, FS_EmptySet
    <3>2. zero \in [SUBSET S -> Int] /\ Upto(zero, 0)
      BY <3>1
    <3> HIDE DEF zero, Upto
    <3>3. 0 \notin Fails
      BY <3>2, Zenon
    <3>4. QED  BY <2>1, <3>3, Zenon
  <2>3. n - 1 \in Nat /\ n - 1 \notin Fails
    <3>1. n \in Nat
      BY <2>1, Zenon
    <3> HIDE DEF Fails
    <3>2. QED  BY <2>1, <2>2, <3>1
  <2>4. PICK g \in [SUBSET S -> Int] : Upto(g, n - 1)
    BY <2>3, Zenon
  <2> DEFINE h == [s \in SUBSET S |-> Body(g, s)]
  <2>5. h \in [SUBSET S -> Int]
    BY <1>1, Zenon
  <2>6. ASSUME NEW s \in SUBSET S, Cardinality(s) <= n
        PROVE  h[s] = Body(h, s)
    <3>1. CASE s = {}
      BY <3>1, Zenon
    <3>2. CASE s # {}
      <4> DEFINE r == s \ {Pick(s)}
      <4>1. Pick(s) \in s /\ r \in SUBSET S
        BY <3>2, PickIn, Zenon
      <4>2. Cardinality(r) <= n - 1
        BY <1>0, <2>6, <4>1, FS_RemoveElement
      <4>3. g[r] = Body(g, r)
        BY <2>4, <4>1, <4>2, Zenon
      <4>4. h[r] = g[r]
        BY <4>1, <4>3, Zenon
      <4>5. h[s] = f[Pick(s)] + g[r]
        BY <3>2, Zenon
      <4> HIDE DEF h, r
      <4>6. QED  BY <3>2, <4>4, <4>5, Zenon DEF r
    <3>3. QED  BY <3>1, <3>2, Zenon
  <2>7. Upto(h, n)
    BY <2>6, Zenon
  <2>8. QED  BY <2>1, <2>5, <2>7, Zenon
<1>3. PICK g \in [SUBSET S -> Int] : Upto(g, Cardinality(S))
  BY <1>2, FS_CardinalityType, Zenon
<1>4. \A s \in SUBSET S : g[s] = Body(g, s)
  BY <1>0, <1>3, Zenon
<1>5. g = [s \in SUBSET S |-> Body(g, s)]
  BY <1>4, Zenon
<1>6. QED  BY <1>5, Zenon DEF Sums

LEMMA SumsAt ==
  ASSUME NEW S, NEW f, Summable(f, S)
  PROVE  /\ Sums(f, S)[{}] = 0
         /\ \A s \in SUBSET S : s # {} =>
               Sums(f, S)[s] = f[Pick(s)] + Sums(f, S)[s \ {Pick(s)}]
<1> IsFiniteSet(S) /\ \A x \in S : f[x] \in Int
  BY Zenon DEF Summable
<1> DEFINE g == Sums(f, S)
<1>1. g = [s \in SUBSET S |-> IF s = {} THEN 0 ELSE f[Pick(s)] + g[s \ {Pick(s)}]]
  BY SumsDef, Zenon
<1> HIDE DEF g
<1>2. \A s \in SUBSET S : g[s] = IF s = {} THEN 0 ELSE f[Pick(s)] + g[s \ {Pick(s)}]
  BY <1>1, Zenon
<1>3. g[{}] = 0 /\ \A s \in SUBSET S : s # {} => g[s] = f[Pick(s)] + g[s \ {Pick(s)}]
  BY <1>2, Zenon
<1>4. QED  BY <1>3, Zenon DEF g

LEMMA SumsType ==
  ASSUME NEW S, NEW f, Summable(f, S)
  PROVE  \A s \in SUBSET S : Sums(f, S)[s] \in Int
<1> IsFiniteSet(S) /\ \A x \in S : f[x] \in Int
  BY Zenon DEF Summable
<1> DEFINE Fails == {s \in SUBSET S : Sums(f, S)[s] \notin Int}
<1> SUFFICES ASSUME Fails # {} PROVE FALSE
  BY Zenon
<1>1. PICK s \in Fails : \A t \in SUBSET s : t # s => t \notin Fails
  <2>1. Fails \in SUBSET (SUBSET S)
    BY Zenon
  <2> HIDE DEF Fails
  <2>2. QED  BY <2>1, SmallestSubset, Zenon
<1>2. CASE s = {}
  BY <1>1, <1>2, SumsAt
<1>3. CASE s # {}
  <2>1. Pick(s) \in s /\ s \ {Pick(s)} \in SUBSET s /\ s \ {Pick(s)} # s /\ s \in SUBSET S
    BY <1>1, <1>3, PickIn, Zenon
  <2>2. Sums(f, S)[s \ {Pick(s)}] \in Int
    BY <1>1, <2>1, Zenon
  <2>3. Sums(f, S)[s] = f[Pick(s)] + Sums(f, S)[s \ {Pick(s)}]
    BY <1>3, <2>1, SumsAt, ZenonT(30)
  <2>4. f[Pick(s)] \in Int
    BY <2>1, Zenon
  <2>5. QED  BY <1>1, <2>2, <2>3, <2>4
<1>4. QED  BY <1>2, <1>3, Zenon

\* Any element may be taken out first.
LEMMA SumsTake ==
  ASSUME NEW S, NEW f, Summable(f, S)
  PROVE  \A s \in SUBSET S : \A x \in s : Sums(f, S)[s] = f[x] + Sums(f, S)[s \ {x}]
<1> IsFiniteSet(S) /\ \A x \in S : f[x] \in Int
  BY Zenon DEF Summable
<1> DEFINE G == Sums(f, S)
           Fails == {s \in SUBSET S : ~\A x \in s : G[s] = f[x] + G[s \ {x}]}
<1>0. \A s \in SUBSET S : G[s] \in Int
  BY SumsType, Zenon
<1>1. \A s \in SUBSET S : s # {} => Pick(s) \in s /\ G[s] = f[Pick(s)] + G[s \ {Pick(s)}]
  BY SumsAt, PickIn, Zenon
<1> HIDE DEF G
<1> SUFFICES ASSUME Fails # {} PROVE FALSE
  BY Zenon DEF G
<1>2. PICK s \in Fails : \A t \in SUBSET s : t # s => t \notin Fails
  <2>1. Fails \in SUBSET (SUBSET S)
    BY Zenon
  <2> HIDE DEF Fails
  <2>2. QED  BY <2>1, SmallestSubset, Zenon
<1>3. PICK x \in s : G[s] # f[x] + G[s \ {x}]
  BY <1>2, Zenon
<1> DEFINE y == Pick(s)
<1>4. s \in SUBSET S /\ y \in s /\ G[s] = f[y] + G[s \ {y}] /\ x # y
  BY <1>1, <1>2, <1>3, Zenon
<1> HIDE DEF y
<1>5. G[s \ {y}] = f[x] + G[(s \ {y}) \ {x}]
  BY <1>2, <1>3, <1>4, Zenon
<1>6. G[s \ {x}] = f[y] + G[(s \ {x}) \ {y}]
  BY <1>2, <1>3, <1>4, Zenon
<1>7. (s \ {x}) \ {y} = (s \ {y}) \ {x}
  BY Zenon
<1>8. f[x] \in Int /\ f[y] \in Int /\ G[(s \ {y}) \ {x}] \in Int
  BY <1>0, <1>3, <1>4, Zenon
<1>9. \A a, b, c \in Int : a + (b + c) = b + (a + c)
  OBVIOUS
<1>10. G[s] = f[y] + (f[x] + G[(s \ {y}) \ {x}]) /\ f[x] + G[s \ {x}] = f[x] + (f[y] + G[(s \ {y}) \ {x}])
  BY <1>4, <1>5, <1>6, <1>7, Zenon
<1>11. QED  BY <1>3, <1>8, <1>9, <1>10, Zenon

\* The sum depends on the values at the elements of the set only.
LEMMA SumsAgree ==
  ASSUME NEW S, NEW R, NEW f, NEW h, Summable(f, S), Summable(h, R)
  PROVE  \A s \in SUBSET (S \cap R) : (\A x \in s : f[x] = h[x]) => Sums(f, S)[s] = Sums(h, R)[s]
<1>a. \A s \in SUBSET S : \A x \in s : Sums(f, S)[s] = f[x] + Sums(f, S)[s \ {x}]
  <2> TAKE s \in SUBSET S
  <2> TAKE x \in s
  <2> QED  BY SumsTake
<1>b. \A s \in SUBSET R : \A x \in s : Sums(h, R)[s] = h[x] + Sums(h, R)[s \ {x}]
  <2> TAKE s \in SUBSET R
  <2> TAKE x \in s
  <2> QED  BY SumsTake
<1> DEFINE F == Sums(f, S)
           H == Sums(h, R)
           Fails == {s \in SUBSET (S \cap R) : (\A x \in s : f[x] = h[x]) /\ F[s] # H[s]}
<1>1. \A s \in SUBSET (S \cap R) : \A x \in s : F[s] = f[x] + F[s \ {x}] /\ H[s] = h[x] + H[s \ {x}]
  BY <1>a, <1>b, Zenon
<1>2. F[{}] = 0 /\ H[{}] = 0
  <2>1. F[{}] = 0
    BY SumsAt, Zenon
  <2>2. H[{}] = 0
    BY SumsAt, Zenon
  <2>3. QED  BY <2>1, <2>2, Zenon
<1> HIDE DEF F, H
<1> SUFFICES ASSUME Fails # {} PROVE FALSE
  BY Zenon DEF F, H
<1>3. IsFiniteSet(S \cap R)
  BY FS_Subset, Zenon DEF Summable
<1>4. PICK s \in Fails : \A t \in SUBSET s : t # s => t \notin Fails
  <2>1. Fails \in SUBSET (SUBSET (S \cap R))
    BY Zenon
  <2> HIDE DEF Fails
  <2>2. QED  BY <1>3, <2>1, SmallestSubset, Zenon
<1>5. PICK x \in s : TRUE
  BY <1>2, <1>4, Zenon
<1>6. s \ {x} \in SUBSET s /\ s \ {x} # s /\ s \ {x} \in SUBSET (S \cap R)
  BY <1>4, <1>5, Zenon
<1>7. F[s \ {x}] = H[s \ {x}]
  BY <1>4, <1>6, Zenon
<1>8. F[s] = f[x] + F[s \ {x}] /\ H[s] = h[x] + H[s \ {x}] /\ f[x] = h[x]
  BY <1>1, <1>4, <1>5, Zenon
<1>9. QED  BY <1>4, <1>7, <1>8, Zenon

-----------------------------------------------------------------------------
(* Sums over a set of the values of a function. *)

LEMMA SumOfNone ==
  ASSUME NEW f
  PROVE  SumFunctionOnSet(f, {}) = 0
<1>1. Summable(f, {})
  BY FS_EmptySet, Zenon DEF Summable
<1>2. Sums(f, {})[{}] = 0
  BY <1>1, SumsAt, Zenon
<1>3. QED  BY <1>2, SumIsSums, Zenon

LEMMA SumInt ==
  ASSUME NEW S, NEW f, Summable(f, S)
  PROVE  SumFunctionOnSet(f, S) \in Int
  BY SumsType, SumIsSums, Zenon

LEMMA SumAgree ==
  ASSUME NEW S, NEW f, NEW h, Summable(f, S), \A x \in S : h[x] = f[x]
  PROVE  Summable(h, S) /\ SumFunctionOnSet(h, S) = SumFunctionOnSet(f, S)
<1>2. Summable(h, S)
  BY Zenon DEF Summable
<1>3. S \in SUBSET (S \cap S) /\ \A x \in S : f[x] = h[x]
  BY Zenon
<1>4. Sums(f, S)[S] = Sums(h, S)[S]
  BY <1>2, <1>3, SumsAgree
<1>5. QED  BY <1>2, <1>4, SumIsSums, Zenon

LEMMA SumTake ==
  ASSUME NEW S, NEW f, Summable(f, S), NEW x \in S
  PROVE  SumFunctionOnSet(f, S) = f[x] + SumFunctionOnSet(f, S \ {x})
<1> IsFiniteSet(S) /\ \A y \in S : f[y] \in Int
  BY Zenon DEF Summable
<1> DEFINE R == S \ {x}
<1>1. Summable(f, R) /\ R \in SUBSET (S \cap R)
  BY FS_Subset, Zenon DEF Summable
<1>2. Sums(f, S)[S] = f[x] + Sums(f, S)[R]
  BY SumsTake
<1> HIDE DEF R
<1>3. Sums(f, S)[R] = Sums(f, R)[R]
  BY <1>1, SumsAgree
<1>4. QED  BY <1>2, <1>3, SumIsSums, Zenon DEF R

LEMMA SummablePart ==
  ASSUME NEW S, NEW f, Summable(f, S), NEW R \in SUBSET S
  PROVE  Summable(f, R)
  BY FS_Subset, Zenon DEF Summable

\* Larger values, a larger sum.
LEMMA SumMono ==
  ASSUME NEW S, NEW f, NEW h, Summable(f, S), Summable(h, S), \A x \in S : f[x] <= h[x]
  PROVE  SumFunctionOnSet(f, S) <= SumFunctionOnSet(h, S)
<1> DEFINE F(s) == SumFunctionOnSet(f, s)
           H(s) == SumFunctionOnSet(h, s)
           Fails == {s \in SUBSET S : ~(F(s) <= H(s))}
<1>1. \A s \in SUBSET S : /\ Summable(f, s) /\ Summable(h, s)
                         /\ F(s) \in Int /\ H(s) \in Int
  BY SummablePart, SumInt, Zenon
<1>2. \A s \in SUBSET S : \A x \in s : F(s) = f[x] + F(s \ {x}) /\ H(s) = h[x] + H(s \ {x})
  BY <1>1, SumTake, Zenon
<1>3. F({}) <= H({})
  BY SumOfNone
<1>4. \A x \in S : f[x] \in Int /\ h[x] \in Int
  BY Zenon DEF Summable
<1> HIDE DEF F, H
<1> SUFFICES ASSUME Fails # {} PROVE FALSE
  BY Zenon DEF F, H
<1>5. PICK s \in Fails : \A t \in SUBSET s : t # s => t \notin Fails
  <2>1. Fails \in SUBSET (SUBSET S) /\ IsFiniteSet(S)
    BY Zenon DEF Summable
  <2> HIDE DEF Fails
  <2>2. QED  BY <2>1, SmallestSubset, Zenon
<1>6. PICK x \in s : TRUE
  BY <1>3, <1>5, Zenon
<1>7. s \ {x} \in SUBSET s /\ s \ {x} # s /\ s \ {x} \in SUBSET S /\ s \in SUBSET S /\ x \in S
  BY <1>5, <1>6, Zenon
<1>8. F(s \ {x}) <= H(s \ {x})
  BY <1>5, <1>7, Zenon
<1>9. F(s) = f[x] + F(s \ {x}) /\ H(s) = h[x] + H(s \ {x}) /\ f[x] <= h[x]
  BY <1>2, <1>6, <1>7, Zenon
<1>10. F(s \ {x}) \in Int /\ H(s \ {x}) \in Int /\ f[x] \in Int /\ h[x] \in Int
  BY <1>1, <1>4, <1>7, Zenon
<1>11. ~(F(s) <= H(s))
  BY <1>5, Zenon
<1>12. QED
  <2> HIDE DEF Fails
  <2> QED  BY <1>8, <1>9, <1>10, <1>11

LEMMA SumOfZeros ==
  ASSUME NEW S, NEW f, IsFiniteSet(S), \A x \in S : f[x] = 0
  PROVE  Summable(f, S) /\ SumFunctionOnSet(f, S) = 0
<1> DEFINE F(s) == SumFunctionOnSet(f, s)
           Fails == {s \in SUBSET S : F(s) # 0}
<1>1. \A s \in SUBSET S : Summable(f, s)
  BY FS_Subset DEF Summable
<1>2. \A s \in SUBSET S : \A x \in s : F(s) = f[x] + F(s \ {x})
  <2> TAKE s \in SUBSET S
  <2> TAKE x \in s
  <2> QED  BY <1>1, SumTake, Zenon
<1>3. F({}) = 0
  BY SumOfNone, Zenon
<1> HIDE DEF F
<1> SUFFICES ASSUME Fails # {} PROVE FALSE
  BY <1>1, Zenon DEF F
<1>5. PICK s \in Fails : \A t \in SUBSET s : t # s => t \notin Fails
  <2>1. Fails \in SUBSET (SUBSET S)
    BY Zenon
  <2> HIDE DEF Fails
  <2>2. QED  BY <2>1, SmallestSubset, Zenon
<1>6. PICK x \in s : TRUE
  BY <1>3, <1>5, Zenon
<1>7. s \ {x} \in SUBSET s /\ s \ {x} # s /\ s \ {x} \in SUBSET S /\ s \in SUBSET S /\ x \in S
  BY <1>5, <1>6, Zenon
<1>8. F(s \ {x}) = 0
  BY <1>5, <1>7, Zenon
<1>9. F(s) = f[x] + F(s \ {x}) /\ f[x] = 0
  BY <1>2, <1>6, <1>7, Zenon
<1>10. QED  BY <1>5, <1>8, <1>9

\* Sums of values of one sign, and what is left of them without some.
LEMMA SumNat ==
  ASSUME NEW S, NEW f, Summable(f, S), \A x \in S : f[x] >= 0
  PROVE  /\ SumFunctionOnSet(f, S) >= 0
         /\ \A x \in S : f[x] <= SumFunctionOnSet(f, S)
<1>1. ASSUME NEW R \in SUBSET S
      PROVE  SumFunctionOnSet(f, R) >= 0 /\ SumFunctionOnSet(f, R) \in Int
  <2> DEFINE z == [x \in R |-> 0]
  <2>1. Summable(f, R) /\ IsFiniteSet(R) /\ \A x \in R : z[x] = 0 /\ z[x] <= f[x]
    BY SummablePart, Zenon DEF Summable
  <2> HIDE DEF z
  <2>2. Summable(z, R) /\ SumFunctionOnSet(z, R) = 0
    BY <2>1, SumOfZeros, Zenon
  <2>3. SumFunctionOnSet(z, R) <= SumFunctionOnSet(f, R)
    BY <2>1, <2>2, SumMono, Zenon
  <2>4. QED  BY <2>1, <2>2, <2>3, SumInt, Zenon
<1>2. ASSUME NEW x \in S
      PROVE  f[x] <= SumFunctionOnSet(f, S)
  <2>1. SumFunctionOnSet(f, S) = f[x] + SumFunctionOnSet(f, S \ {x}) /\ f[x] \in Int
    BY SumTake, Zenon DEF Summable
  <2>2. SumFunctionOnSet(f, S \ {x}) >= 0 /\ SumFunctionOnSet(f, S \ {x}) \in Int
    BY <1>1, Zenon
  <2>3. QED  BY <2>1, <2>2
<1>3. QED  BY <1>1, <1>2, Zenon

\* An inequality between multiples of the values holds of the sums.
LEMMA SumLinear ==
  ASSUME NEW S, NEW f, NEW h, Summable(f, S), Summable(h, S),
         NEW p \in Int, NEW k \in Int, NEW q \in Int,
         \A x \in S : p * f[x] <= k + q * h[x]
  PROVE  p * SumFunctionOnSet(f, S) <= k * Cardinality(S) + q * SumFunctionOnSet(h, S)
<1> DEFINE F(s) == SumFunctionOnSet(f, s)
           H(s) == SumFunctionOnSet(h, s)
           Claim(s) == p * F(s) <= k * Cardinality(s) + q * H(s)
           Fails == {s \in SUBSET S : ~Claim(s)}
<1>1. \A s \in SUBSET S : /\ Summable(f, s) /\ Summable(h, s)
                         /\ F(s) \in Int /\ H(s) \in Int
  BY SummablePart, SumInt, Zenon
<1>2. \A s \in SUBSET S : \A x \in s : F(s) = f[x] + F(s \ {x}) /\ H(s) = h[x] + H(s \ {x})
  BY <1>1, SumTake, Zenon
<1>3. Claim({})
  <2>1. F({}) = 0 /\ H({}) = 0 /\ Cardinality({}) = 0
    BY SumOfNone, FS_EmptySet, Zenon
  <2>2. QED  BY <2>1
<1>4. IsFiniteSet(S) /\ \A x \in S : f[x] \in Int /\ h[x] \in Int
  BY Zenon DEF Summable
<1> HIDE DEF F, H
<1> SUFFICES ASSUME Fails # {} PROVE FALSE
  BY Zenon DEF F, H
<1>5. PICK s \in Fails : \A t \in SUBSET s : t # s => t \notin Fails
  <2>1. Fails \in SUBSET (SUBSET S)
    BY Zenon
  <2> HIDE DEF Fails
  <2>2. QED  BY <1>4, <2>1, SmallestSubset, Zenon
<1> HIDE DEF Claim
<1>6. PICK x \in s : TRUE
  BY <1>3, <1>5, Zenon
<1>7. s \ {x} \in SUBSET s /\ s \ {x} # s /\ s \ {x} \in SUBSET S /\ s \in SUBSET S /\ x \in S
  BY <1>5, <1>6, Zenon
<1>8. Claim(s \ {x}) /\ ~Claim(s)
  BY <1>5, <1>7, Zenon
<1> HIDE DEF Fails
<1>9. F(s) = f[x] + F(s \ {x}) /\ H(s) = h[x] + H(s \ {x}) /\ p * f[x] <= k + q * h[x]
  BY <1>2, <1>6, <1>7, Zenon
<1>10. F(s \ {x}) \in Int /\ H(s \ {x}) \in Int /\ f[x] \in Int /\ h[x] \in Int
  BY <1>1, <1>4, <1>7, Zenon
<1>11. Cardinality(s \ {x}) \in Int /\ Cardinality(s) = Cardinality(s \ {x}) + 1
  <2>1. IsFiniteSet(s) /\ IsFiniteSet(s \ {x})
    BY <1>4, <1>7, FS_Subset, Zenon
  <2>2. Cardinality(s \ {x}) = Cardinality(s) - 1 /\ Cardinality(s) \in Nat /\ Cardinality(s \ {x}) \in Nat
    BY <1>6, <2>1, FS_RemoveElement, FS_CardinalityType, Zenon
  <2>3. QED  BY <2>2
<1>12. \A a, b, c, d, n \in Int :
         p * a <= k + q * b /\ p * c <= k * n + q * d => p * (a + c) <= k * (n + 1) + q * (b + d)
  OBVIOUS
<1>13. p * F(s \ {x}) <= k * Cardinality(s \ {x}) + q * H(s \ {x})
  BY <1>8, Zenon DEF Claim
<1>14. p * (f[x] + F(s \ {x})) <= k * (Cardinality(s \ {x}) + 1) + q * (h[x] + H(s \ {x}))
  BY <1>9, <1>10, <1>11, <1>12, <1>13, Zenon
<1>15. Claim(s)
  BY <1>9, <1>11, <1>14, Zenon DEF Claim
<1>16. QED  BY <1>8, <1>15, Zenon

\* What is zero does not count.
LEMMA SumOfPart ==
  ASSUME NEW S, NEW f, Summable(f, S), NEW R \in SUBSET S, \A x \in S \ R : f[x] = 0
  PROVE  SumFunctionOnSet(f, S) = SumFunctionOnSet(f, R)
<1> DEFINE F(s) == SumFunctionOnSet(f, s)
           Fails == {s \in SUBSET S : R \in SUBSET s /\ F(s) # F(R)}
<1>1. \A s \in SUBSET S : Summable(f, s) /\ F(s) \in Int
  BY SummablePart, SumInt, Zenon
<1>2. \A s \in SUBSET S : \A x \in s : F(s) = f[x] + F(s \ {x})
  BY <1>1, SumTake, Zenon
<1> HIDE DEF F
<1> SUFFICES ASSUME Fails # {} PROVE FALSE
  BY Zenon DEF F
<1>5. PICK s \in Fails : \A t \in SUBSET s : t # s => t \notin Fails
  <2>1. Fails \in SUBSET (SUBSET S) /\ IsFiniteSet(S)
    BY Zenon DEF Summable
  <2> HIDE DEF Fails
  <2>2. QED  BY <2>1, SmallestSubset, Zenon
<1>6. PICK x \in s \ R : TRUE
  BY <1>5
<1>7. s \ {x} \in SUBSET s /\ s \ {x} # s /\ R \in SUBSET (s \ {x}) /\ s \in SUBSET S /\ f[x] = 0
  BY <1>5, <1>6, Zenon
<1>8. F(s \ {x}) = F(R)
  BY <1>5, <1>7, Zenon
<1>9. F(s) = f[x] + F(s \ {x}) /\ F(R) \in Int
  BY <1>1, <1>2, <1>6, <1>7, Zenon
<1>10. QED  BY <1>5, <1>7, <1>8, <1>9

LEMMA SumPlus ==
  ASSUME NEW S, NEW f, NEW h, NEW k, Summable(f, S), Summable(h, S), \A x \in S : k[x] = f[x] + h[x]
  PROVE  /\ Summable(k, S)
         /\ SumFunctionOnSet(k, S) = SumFunctionOnSet(f, S) + SumFunctionOnSet(h, S)
<1> DEFINE F(s) == SumFunctionOnSet(f, s)
           H(s) == SumFunctionOnSet(h, s)
           K(s) == SumFunctionOnSet(k, s)
           Fails == {s \in SUBSET S : K(s) # F(s) + H(s)}
<1>0. \A x \in S : f[x] \in Int /\ h[x] \in Int
  BY Zenon DEF Summable
<1>a. Summable(k, S)
  BY DEF Summable
<1>1. \A s \in SUBSET S : /\ Summable(f, s) /\ Summable(h, s) /\ Summable(k, s)
                         /\ F(s) \in Int /\ H(s) \in Int /\ K(s) \in Int
  BY <1>a, SummablePart, SumInt, Zenon
<1>2. \A s \in SUBSET S : \A x \in s : /\ F(s) = f[x] + F(s \ {x}) /\ H(s) = h[x] + H(s \ {x})
                                       /\ K(s) = k[x] + K(s \ {x})
  BY <1>1, SumTake, Zenon
<1>3. K({}) = F({}) + H({})
  BY SumOfNone
<1> HIDE DEF F, H, K
<1> SUFFICES ASSUME Fails # {} PROVE FALSE
  BY <1>a, Zenon DEF F, H, K
<1>5. PICK s \in Fails : \A t \in SUBSET s : t # s => t \notin Fails
  <2>1. Fails \in SUBSET (SUBSET S) /\ IsFiniteSet(S)
    BY Zenon DEF Summable
  <2> HIDE DEF Fails
  <2>2. QED  BY <2>1, SmallestSubset, Zenon
<1>6. PICK x \in s : TRUE
  BY <1>3, <1>5, Zenon
<1>7. s \ {x} \in SUBSET s /\ s \ {x} # s /\ s \ {x} \in SUBSET S /\ s \in SUBSET S /\ x \in S
  BY <1>5, <1>6, Zenon
<1>8. K(s \ {x}) = F(s \ {x}) + H(s \ {x})
  BY <1>5, <1>7, Zenon
<1>9. F(s) = f[x] + F(s \ {x}) /\ H(s) = h[x] + H(s \ {x}) /\ K(s) = k[x] + K(s \ {x})
  BY <1>2, <1>6, <1>7, Zenon
<1>10. F(s \ {x}) \in Int /\ H(s \ {x}) \in Int /\ f[x] \in Int /\ h[x] \in Int /\ k[x] = f[x] + h[x]
  BY <1>0, <1>1, <1>7, Zenon
<1>11. K(s) # F(s) + H(s)
  BY <1>5, Zenon
<1>12. QED
  <2> HIDE DEF Fails
  <2> QED  BY <1>8, <1>9, <1>10, <1>11

-----------------------------------------------------------------------------
(* The three phases. *)

LEMMA InputTypes ==
  ASSUME inputs \in Inputs
  PROVE  /\ clusterCores \in Nat /\ clusterCores > 0
         /\ IsFiniteSet(DOMAIN inputs)
         /\ \A t \in DOMAIN inputs : /\ inputs[t].weight \in Nat /\ inputs[t].weight > 0
                                     /\ inputs[t].guaranteed \in Nat
                                     /\ inputs[t].burstable \in BOOLEAN
                                     /\ inputs[t].maxBurst \in Nat
  BY FairShareAssumption DEF ShareAssumption

LEMMA SumOfFunction ==
  ASSUME NEW f
  PROVE  SumFunction(f) = SumFunctionOnSet(f, DOMAIN f)
  BY Zenon DEF SumFunction, SumFunctionOnSet, FoldFunction

\* A portion is the exact share rounded down.
LEMMA PortionBounds ==
  ASSUME NEW x \in Nat, NEW w \in Nat, NEW W \in Nat, W > 0
  PROVE  /\ Portion(x, w, W) \in Nat
         /\ W * Portion(x, w, W) <= x * w
         /\ x * w <= W * Portion(x, w, W) + W
<1> DEFINE q == x \div W
           r == x % W
           d == (r * w) \div W
<1>1. q \in Nat /\ r \in Nat /\ x = W * q + r
  OBVIOUS
<1> HIDE DEF q, r
<1>2. r * w \in Nat
  BY <1>1
<1>3. \A a \in Nat : /\ a \div W \in Nat
                     /\ W * (a \div W) <= a
                     /\ a <= W * (a \div W) + W
  OBVIOUS
<1>4. d \in Nat /\ W * d <= r * w /\ r * w <= W * d + W
  BY <1>2, <1>3, Zenon
<1>5. Portion(x, w, W) = q * w + d
  BY Zenon DEF Portion, q, r
<1> HIDE DEF d
<1>6. x * w = W * (q * w) + r * w
  BY <1>1
<1>7. q * w \in Nat
  BY <1>1
<1>8. W * (q * w + d) = W * (q * w) + W * d
  BY <1>1, <1>4, <1>7
<1>9. W * (q * w) \in Int /\ W * d \in Int /\ q * w + d \in Nat
  BY <1>4, <1>7
<1>10. QED  BY <1>2, <1>4, <1>5, <1>6, <1>8, <1>9

\* Nobody gets a negative part, all parts together are at most what there is,
\* and less than one unit per tenant is lost.
LEMMA ByWeightParts ==
  ASSUME inputs \in Inputs, NEW x \in Nat, NEW S \in SUBSET DOMAIN inputs
  PROVE  /\ ByWeight(x, S) \in [DOMAIN inputs -> Nat]
         /\ \A t \in DOMAIN inputs \ S : ByWeight(x, S)[t] = 0
         /\ SumFunction(ByWeight(x, S)) \in Nat
         /\ SumFunction(ByWeight(x, S)) <= x
         /\ S # {} => x <= SumFunction(ByWeight(x, S)) + Cardinality(S)
<1> DEFINE D == DOMAIN inputs
           w == [t \in D |-> inputs[t].weight]
           W == SumFunctionOnSet(w, S)
           p == [t \in D |-> IF t \in S /\ W > 0 THEN Portion(x, inputs[t].weight, W) ELSE 0]
<1>1. IsFiniteSet(S) /\ Cardinality(S) \in Nat /\ \A t \in D : w[t] \in Nat /\ w[t] > 0
  BY InputTypes, FS_Subset, FS_CardinalityType, Zenon
<1>2. ByWeight(x, S) = p /\ DOMAIN p = D /\ \A t \in D : w[t] = inputs[t].weight
  BY Zenon DEF ByWeight
<1>3. Summable(w, S)
  <2> HIDE DEF w
  <2>1. QED  BY <1>1 DEF Summable
<1>4. W \in Nat /\ (S # {} => W > 0)
  <2>1. \A t \in S : w[t] >= 0 /\ w[t] > 0 /\ w[t] \in Nat
    BY <1>1
  <2> HIDE DEF w
  <2>2. W \in Int /\ W >= 0 /\ \A t \in S : w[t] <= W
    BY <1>3, <2>1, SumInt, SumNat, Zenon
  <2>3. QED  BY <2>1, <2>2
<1> HIDE DEF W, w
<1>5. ASSUME NEW t \in S
      PROVE  p[t] = Portion(x, w[t], W) /\ p[t] \in Nat /\ W * p[t] <= x * w[t] /\ x * w[t] <= W * p[t] + W
  <2>1. W > 0 /\ w[t] \in Nat /\ t \in D
    BY <1>1, <1>4, Zenon
  <2>2. p[t] = Portion(x, w[t], W)
    BY <1>2, <2>1, Zenon
  <2> HIDE DEF p
  <2>3. QED  BY <1>4, <2>1, <2>2, PortionBounds, Zenon
<1>6. \A t \in D \ S : p[t] = 0
  BY Zenon
<1>7. p \in [D -> Nat]
  <2>1. \A t \in D : p[t] \in Nat
    BY <1>5, <1>6, Zenon
  <2>2. QED  BY <2>1, Zenon
<1> HIDE DEF p
<1>8. Summable(p, S) /\ Summable(p, D) /\ \A t \in D : p[t] >= 0
  BY <1>1, <1>7, InputTypes DEF Summable
<1>9. SumFunction(p) = SumFunctionOnSet(p, S)
  BY <1>2, <1>6, <1>8, SumOfFunction, SumOfPart
<1>10. SumFunctionOnSet(p, S) \in Int /\ SumFunctionOnSet(p, S) >= 0
  BY <1>8, SumInt, SumNat, Zenon
<1> DEFINE P == SumFunctionOnSet(p, S)
<1>11. W * P <= 0 * Cardinality(S) + x * W
  <2>1. \A t \in S : W * p[t] <= 0 + x * w[t]
    BY <1>1, <1>4, <1>5
  <2>2. W \in Int /\ x \in Int /\ 0 \in Int
    BY <1>4
  <2>3. W * P <= 0 * Cardinality(S) + x * SumFunctionOnSet(w, S)
    BY <1>3, <1>8, <2>1, <2>2, SumLinear, Zenon
  <2>4. QED  BY <2>3, Zenon DEF W
<1>12. x * W <= W * Cardinality(S) + W * P
  <2>1. \A t \in S : x * w[t] <= W + W * p[t]
    BY <1>1, <1>4, <1>5
  <2>2. W \in Int /\ x \in Int
    BY <1>4
  <2>3. x * SumFunctionOnSet(w, S) <= W * Cardinality(S) + W * P
    BY <1>3, <1>8, <2>1, <2>2, SumLinear, Zenon
  <2>4. QED  BY <2>3, Zenon DEF W
<1> HIDE DEF P
<1>13. P \in Nat
  BY <1>10 DEF P
<1>14. P <= x /\ (S # {} => x <= P + Cardinality(S))
  <2>1. CASE S = {}
    <3>1. P = 0
      BY <2>1, SumOfNone, Zenon DEF P
    <3>2. QED  BY <2>1, <3>1
  <2>2. CASE S # {}
    <3>1. W > 0
      BY <1>4, <2>2, Zenon
    <3>2. W * P <= W * x
      BY <1>1, <1>4, <1>11, <1>13
    <3>3. W * x <= W * (Cardinality(S) + P)
      BY <1>1, <1>4, <1>12, <1>13
    <3>4. \A a, b \in Nat : W * a <= W * b => a <= b
      BY <1>4, <3>1
    <3>5. QED  BY <1>1, <1>13, <3>2, <3>3, <3>4
  <2>3. QED  BY <2>1, <2>2, Zenon
<1>15. QED  BY <1>2, <1>6, <1>7, <1>9, <1>13, <1>14, Zenon DEF P

\* The guarantees and the caps; sane guarantees fit.
LEMMA GuaranteeParts ==
  ASSUME inputs \in Inputs
  PROVE  /\ guarantee \in [DOMAIN inputs -> Nat]
         /\ Summable(guarantee, DOMAIN inputs)
         /\ SumFunction(guarantee) \in Nat
         /\ \A t \in DOMAIN inputs : Ceiling(inputs[t]) \in Nat
         /\ SaneInputs => /\ SumFunction(guarantee) <= clusterCores
                          /\ \A t \in DOMAIN inputs :
                               Capped(inputs[t]) => guarantee[t] <= Ceiling(inputs[t])
<1> DEFINE D == DOMAIN inputs
           C == clusterCores
           given == [t \in D |-> inputs[t].guaranteed]
<1>0. C \in Nat /\ IsFiniteSet(D)
  BY InputTypes, Zenon
<1>1. \A n \in Nat : (C * n) \div 100 \in Nat /\ 100 * ((C * n) \div 100) <= C * n
  <2>1. \A a \in Nat : a \div 100 \in Nat /\ 100 * (a \div 100) <= a
    OBVIOUS
  <2>2. \A n \in Nat : C * n \in Nat
    BY <1>0
  <2>3. QED  BY <2>1, <2>2, Zenon
<1>2. \A t \in D : /\ inputs[t].guaranteed \in Nat /\ inputs[t].maxBurst \in Nat
                   /\ guarantee[t] = (C * inputs[t].guaranteed) \div 100
                   /\ Ceiling(inputs[t]) = (C * inputs[t].maxBurst) \div 100
                   /\ given[t] = inputs[t].guaranteed
  BY InputTypes, Zenon DEF guarantee, Ceiling
<1>3. \A t \in D : /\ guarantee[t] \in Nat /\ Ceiling(inputs[t]) \in Nat
                   /\ 100 * guarantee[t] <= C * given[t]
  <2> HIDE DEF given
  <2> QED  BY <1>1, <1>2, ZenonT(30)
<1>4. DOMAIN guarantee = D /\ guarantee \in [D -> Nat] /\ DOMAIN given = D
  BY <1>3, Zenon DEF guarantee
<1>5. Summable(guarantee, D) /\ Summable(given, D) /\ \A t \in D : guarantee[t] >= 0 /\ given[t] >= 0
  <2> HIDE DEF given
  <2> QED  BY <1>0, <1>2, <1>3 DEF Summable
<1>6. SumFunction(guarantee) \in Nat
  BY <1>4, <1>5, SumOfFunction, SumInt, SumNat
<1>7. ASSUME SaneInputs PROVE SumFunction(guarantee) <= C
  <2>1. SumFunction(given) <= 100
    BY <1>7, Zenon DEF SaneInputs
  <2> HIDE DEF given
  <2>2. SumFunctionOnSet(guarantee, D) \in Int /\ SumFunctionOnSet(given, D) \in Int
    BY <1>5, SumInt, Zenon
  <2>3. \A t \in D : 100 * guarantee[t] <= 0 + C * given[t]
    BY <1>0, <1>2, <1>3
  <2>4. 100 \in Int /\ 0 \in Int /\ C \in Int
    BY <1>0
  <2> HIDE DEF C
  <2>5. 100 * SumFunctionOnSet(guarantee, D) <= 0 * Cardinality(D) + C * SumFunctionOnSet(given, D)
    BY <1>5, <2>3, <2>4, SumLinear, Zenon
  <2>6. \A G, s, n \in Int : C \in Nat /\ s <= 100 /\ 100 * G <= 0 * n + C * s => G <= C
    <3> TAKE G, s, n \in Int
    <3> HAVE C \in Nat /\ s <= 100 /\ 100 * G <= 0 * n + C * s
    <3>1. C * s <= C * 100
      OBVIOUS
    <3>2. QED  BY <3>1
  <2>7. Cardinality(D) \in Int
    BY <1>0, FS_CardinalityType
  <2>8. QED  BY <1>0, <1>4, <2>1, <2>2, <2>5, <2>6, <2>7, SumOfFunction, Zenon
<1>8. ASSUME SaneInputs, NEW t \in D, Capped(inputs[t]) PROVE guarantee[t] <= Ceiling(inputs[t])
  <2>1. inputs[t].guaranteed <= inputs[t].maxBurst
    BY <1>8, Zenon DEF SaneInputs
  <2>2. \A m, n \in Nat : m <= n => (C * m) \div 100 <= (C * n) \div 100
    <3> TAKE m, n \in Nat
    <3> HAVE m <= n
    <3>1. C * m <= C * n /\ C * m \in Nat /\ C * n \in Nat
      BY <1>0
    <3>2. \A a, b \in Nat : a <= b => a \div 100 <= b \div 100
      OBVIOUS
    <3>3. QED  BY <3>1, <3>2, Zenon
  <2>3. QED  BY <1>2, <2>1, <2>2, ZenonT(90)
<1>9. QED  BY <1>3, <1>4, <1>5, <1>6, <1>7, <1>8, Zenon

\* What a round cuts off.
LEMMA CutParts ==
  ASSUME inputs \in Inputs, NEW b \in [DOMAIN inputs -> Nat]
  PROVE  /\ excess(b) \in [DOMAIN inputs -> Nat]
         /\ cutToCap(b) \in [DOMAIN inputs -> Nat]
         /\ SumFunction(excess(b)) \in Nat
         /\ \A t \in DOMAIN inputs : excess(b)[t] <= SumFunction(excess(b))
         /\ (\A t \in DOMAIN inputs : excess(b)[t] = 0) => SumFunction(excess(b)) = 0
         /\ SaneInputs => SumFunction(cutToCap(b)) + SumFunction(excess(b)) = SumFunction(b)
<1> DEFINE D == DOMAIN inputs
           e == excess(b)
           c == cutToCap(b)
<1>1. \A t \in D : guarantee[t] \in Nat /\ Ceiling(inputs[t]) \in Nat /\ b[t] \in Nat
  BY GuaranteeParts, Zenon
<1>2. \A t \in D : e[t] = IF Capped(inputs[t]) /\ guarantee[t] + b[t] - Ceiling(inputs[t]) > 0
                         THEN guarantee[t] + b[t] - Ceiling(inputs[t]) ELSE 0
  BY Zenon DEF excess
<1>3. \A t \in D : e[t] \in Nat
  BY <1>1, <1>2
<1>4. \A t \in D : c[t] = IF b[t] < e[t] THEN 0 ELSE b[t] - e[t]
  BY Zenon DEF cutToCap
<1>5. \A t \in D : c[t] \in Nat
  <2> HIDE DEF e, c
  <2> QED  BY <1>1, <1>3, <1>4
<1>6. DOMAIN e = D /\ DOMAIN c = D /\ DOMAIN b = D /\ e \in [D -> Nat] /\ c \in [D -> Nat]
  BY <1>3, <1>5, Zenon DEF excess, cutToCap
<1> HIDE DEF e, c
<1>7. Summable(e, D) /\ Summable(c, D) /\ \A t \in D : e[t] >= 0
  BY <1>3, <1>5, InputTypes DEF Summable
<1>8. SumFunction(e) \in Nat /\ \A t \in D : e[t] <= SumFunction(e)
  BY <1>6, <1>7, SumOfFunction, SumInt, SumNat
<1>9. (\A t \in D : e[t] = 0) => SumFunction(e) = 0
  BY <1>6, InputTypes, SumOfFunction, SumOfZeros, Zenon
<1>10. ASSUME SaneInputs PROVE SumFunction(c) + SumFunction(e) = SumFunction(b)
  <2>1. \A t \in D : Capped(inputs[t]) => guarantee[t] <= Ceiling(inputs[t])
    BY <1>10, GuaranteeParts, Zenon
  <2>2. \A t \in D : b[t] = c[t] + e[t]
    BY <1>1, <1>2, <1>4, <2>1
  <2>3. SumFunctionOnSet(b, D) = SumFunctionOnSet(c, D) + SumFunctionOnSet(e, D)
    BY <1>7, <2>2, SumPlus, ZenonT(30)
  <2>4. QED  BY <1>6, <2>3, SumOfFunction, Zenon
<1>11. QED  BY <1>6, <1>8, <1>9, <1>10, Zenon DEF e, c

-----------------------------------------------------------------------------
(* The reclaim loop. *)

Closed(b, t) == Capped(inputs[t]) /\ guarantee[t] + b[t] >= Ceiling(inputs[t]) - Epsilon

BelowCap(b, t) == Capped(inputs[t]) => guarantee[t] + b[t] <= Ceiling(inputs[t])

\* The burstable tenants at their cap: a round never changes their burst again.
Settled(b) == {t \in Burstable : Closed(b, t) /\ BelowCap(b, t)}

\* What is handed out to nobody.
Lost(b) == clusterCores - SumFunction(guarantee) - SumFunction(b)

Few == Cardinality(DOMAIN inputs) < Rounds

\* The capacity lost is what the divisions round off, at most a unit per tenant
\* and round, unless every burstable tenant is at its cap.  Every round that goes
\* on settles a tenant.
ShareInv ==
  /\ inputs \in Inputs
  /\ bursts \in [DOMAIN inputs -> Nat]
  /\ round \in 0 .. Rounds
  /\ SaneInputs =>
       /\ \A t \in DOMAIN inputs \ Burstable : bursts[t] = 0
       /\ Lost(bursts) >= 0
       /\ Few =>
            /\ \/ \A t \in Burstable : Closed(bursts, t)
               \/ Lost(bursts) <= 9 * (round + 1)
            /\ round < Rounds => Cardinality(Settled(bursts)) >= round
            /\ round = Rounds => \A t \in DOMAIN inputs : BelowCap(bursts, t)

\* Phase 2 hands out what the guarantees leave.
LEMMA BurstParts ==
  ASSUME inputs \in Inputs
  PROVE  /\ burst \in [DOMAIN inputs -> Nat]
         /\ \A t \in DOMAIN inputs \ Burstable : burst[t] = 0
         /\ SaneInputs => /\ Lost(burst) >= 0
                          /\ Burstable # {} => Lost(burst) <= Cardinality(Burstable)
<1> DEFINE G == SumFunction(guarantee)
           left == clusterCores - G
           x == IF left < 0 THEN 0 ELSE left
<1>1. G \in Nat /\ clusterCores \in Nat /\ (SaneInputs => G <= clusterCores)
  BY GuaranteeParts, InputTypes, Zenon
<1>2. burst = ByWeight(x, Burstable)
  BY Zenon DEF burst
<1>3. x \in Nat /\ Burstable \in SUBSET DOMAIN inputs
  BY <1>1 DEF Burstable
<1>4. SaneInputs => x = clusterCores - G
  BY <1>1
<1> HIDE DEF G, left, x
<1>5. /\ burst \in [DOMAIN inputs -> Nat]
      /\ \A t \in DOMAIN inputs \ Burstable : burst[t] = 0
      /\ SumFunction(burst) \in Nat
      /\ SumFunction(burst) <= x
      /\ Burstable # {} => x <= SumFunction(burst) + Cardinality(Burstable)
  BY <1>2, <1>3, ByWeightParts, Zenon
<1>6. Cardinality(Burstable) \in Nat
  BY <1>3, InputTypes, FS_Subset, FS_CardinalityType, Zenon
<1>7. Lost(burst) = clusterCores - G - SumFunction(burst)
  BY Zenon DEF Lost, G
<1>8. SaneInputs => /\ Lost(burst) >= 0
                    /\ Burstable # {} => Lost(burst) <= Cardinality(Burstable)
  BY <1>1, <1>4, <1>5, <1>6, <1>7
<1>9. QED  BY <1>5, <1>8, Zenon

\* The first half of a round: nobody is above its cap afterwards, and if anything
\* was reclaimed, another tenant is settled.
LEMMA CutSettles ==
  ASSUME inputs \in Inputs, NEW b \in [DOMAIN inputs -> Nat], SaneInputs,
         \A t \in DOMAIN inputs \ Burstable : b[t] = 0
  PROVE  LET c == cutToCap(b)
         IN  /\ \A t \in DOMAIN inputs \ Burstable : c[t] = 0
             /\ \A t \in DOMAIN inputs : BelowCap(c, t) /\ (Closed(b, t) => Closed(c, t))
             /\ Settled(b) \in SUBSET Settled(c)
             /\ SumFunction(excess(b)) > 0 => Settled(b) # Settled(c)
             /\ Lost(c) = Lost(b) + SumFunction(excess(b))
<1> DEFINE D == DOMAIN inputs
           e == excess(b)
           c == cutToCap(b)
<1>1. \A t \in D : /\ guarantee[t] \in Nat /\ Ceiling(inputs[t]) \in Nat /\ b[t] \in Nat
                   /\ Capped(inputs[t]) => guarantee[t] <= Ceiling(inputs[t])
  BY GuaranteeParts, Zenon
<1>2. \A t \in D : e[t] = IF Capped(inputs[t]) /\ guarantee[t] + b[t] - Ceiling(inputs[t]) > 0
                         THEN guarantee[t] + b[t] - Ceiling(inputs[t]) ELSE 0
  BY Zenon DEF excess
<1>4. \A t \in D : c[t] = IF b[t] < e[t] THEN 0 ELSE b[t] - e[t]
  BY Zenon DEF cutToCap
<1> HIDE DEF e, c
<1>5. \A t \in D : IF Capped(inputs[t]) /\ guarantee[t] + b[t] > Ceiling(inputs[t])
                   THEN guarantee[t] + c[t] = Ceiling(inputs[t]) /\ c[t] \in Nat
                   ELSE c[t] = b[t] /\ e[t] = 0
  BY <1>1, <1>2, <1>4
<1>6. \A t \in D : BelowCap(c, t) /\ (Closed(b, t) => Closed(c, t))
  BY <1>1, <1>5 DEF BelowCap, Closed, Epsilon
<1>7. \A t \in D \ Burstable : c[t] = 0
  <2> TAKE t \in D \ Burstable
  <2>1. b[t] = 0 /\ t \in D
    BY Zenon
  <2>2. QED  BY <1>1, <1>5, <2>1
<1>8. Settled(b) \in SUBSET Settled(c)
  BY <1>6, Zenon DEF Settled, Burstable
<1>9. ASSUME SumFunction(e) > 0 PROVE Settled(b) # Settled(c)
  <2>1. PICK t \in D : e[t] # 0
    BY <1>9, CutParts DEF e
  <2>2. Capped(inputs[t]) /\ guarantee[t] + b[t] > Ceiling(inputs[t])
    BY <1>5, <2>1, Zenon
  <2>3. t \in Burstable
    BY <1>1, <2>1, <2>2
  <2>4. t \in Settled(c)
    <3>1. Closed(b, t)
      BY <1>1, <2>1, <2>2 DEF Closed, Epsilon
    <3>2. QED  BY <1>6, <2>1, <2>3, <3>1, Zenon DEF Settled
  <2>5. t \notin Settled(b)
    BY <1>1, <2>1, <2>2 DEF Settled, BelowCap
  <2>6. QED  BY <2>4, <2>5, Zenon
<1>10. Lost(c) = Lost(b) + SumFunction(e)
  <2>1. SumFunction(c) + SumFunction(e) = SumFunction(b) /\ SumFunction(e) \in Nat
    BY CutParts, Zenon DEF e, c
  <2>2. SumFunction(guarantee) \in Nat /\ clusterCores \in Nat
    BY GuaranteeParts, InputTypes, Zenon
  <2>3. SumFunction(c) \in Int
    <3>1. Summable(c, D) /\ DOMAIN c = D
      BY CutParts, InputTypes DEF Summable, c
    <3>2. QED  BY <3>1, SumOfFunction, SumInt, Zenon
  <2>4. QED  BY <2>1, <2>2, <2>3 DEF Lost
<1>11. QED  BY <1>6, <1>7, <1>8, <1>9, <1>10, Zenon DEF c, e

\* The second half: the settled stay, and all that was reclaimed is handed out but
\* for the rounding, unless there is nobody left to take it.
LEMMA RedistributeParts ==
  ASSUME inputs \in Inputs, NEW c \in [DOMAIN inputs -> Nat], NEW x \in Nat,
         \A t \in DOMAIN inputs \ Burstable : c[t] = 0
  PROVE  LET r == redistribute(c, x)
         IN  /\ r \in [DOMAIN inputs -> Nat]
             /\ \A t \in DOMAIN inputs \ Burstable : r[t] = 0
             /\ \A t \in DOMAIN inputs : Closed(c, t) => Closed(r, t)
             /\ Settled(c) \in SUBSET Settled(r)
             /\ Lost(r) >= Lost(c) - x
             /\ \/ \A t \in Burstable : Closed(r, t)
                \/ Lost(r) <= Lost(c) - x + Cardinality(DOMAIN inputs)
<1> DEFINE D == DOMAIN inputs
           S == uncapped(c)
           p == ByWeight(x, S)
           r == redistribute(c, x)
<1>1. S \in SUBSET Burstable /\ Burstable \in SUBSET D /\ S \in SUBSET D
  BY Zenon DEF uncapped, Burstable
<1>2. \A t \in D : r[t] = c[t] + p[t] /\ DOMAIN r = D
  BY Zenon DEF redistribute
<1> HIDE DEF S, p, r
<1>3. /\ p \in [D -> Nat]
      /\ \A t \in D \ S : p[t] = 0
      /\ SumFunction(p) \in Nat
      /\ SumFunction(p) <= x
      /\ S # {} => x <= SumFunction(p) + Cardinality(S)
  BY <1>1, ByWeightParts, Zenon DEF p
<1>4. \A t \in D : c[t] \in Nat /\ p[t] \in Nat /\ r[t] \in Nat
  BY <1>2, <1>3
<1>5. r \in [D -> Nat]
  BY <1>4, Zenon DEF r, redistribute
<1>6. \A t \in D \ Burstable : r[t] = 0
  BY <1>1, <1>2, <1>3
<1>7. \A t \in D : guarantee[t] \in Nat /\ Ceiling(inputs[t]) \in Nat
  BY GuaranteeParts, Zenon
<1>8. \A t \in D : Closed(c, t) => Closed(r, t)
  BY <1>2, <1>4, <1>7 DEF Closed, Epsilon
<1>9. \A t \in Burstable : Closed(c, t) <=> t \notin S
  BY <1>1, <1>4, <1>7 DEF Closed, S, uncapped, Epsilon
<1>10. \A t \in Settled(c) : t \in D /\ r[t] = c[t]
  <2> TAKE t \in Settled(c)
  <2>1. t \in D \ S
    BY <1>1, <1>9, Zenon DEF Settled
  <2>2. QED  BY <1>2, <1>3, <1>4, <2>1
<1>11. Settled(c) \in SUBSET Settled(r)
  BY <1>10, Zenon DEF Settled, Closed, BelowCap
<1>12. Lost(r) = Lost(c) - SumFunction(p) /\ Lost(c) \in Int
  <2>1. Summable(c, D) /\ Summable(p, D) /\ DOMAIN c = D /\ DOMAIN p = D /\ DOMAIN r = D
    BY <1>3, <1>4, <1>5, InputTypes DEF Summable
  <2>2. SumFunction(r) = SumFunction(c) + SumFunction(p) /\ SumFunction(c) \in Int
    BY <1>2, <2>1, SumPlus, SumOfFunction, SumInt
  <2>3. SumFunction(guarantee) \in Nat /\ clusterCores \in Nat
    BY GuaranteeParts, InputTypes, Zenon
  <2>4. QED  BY <1>3, <2>2, <2>3 DEF Lost
<1>13. Lost(r) >= Lost(c) - x
  BY <1>3, <1>12
<1>14. \/ \A t \in Burstable : Closed(r, t)
      \/ Lost(r) <= Lost(c) - x + Cardinality(D)
  <2>1. CASE S = {}
    BY <1>1, <1>8, <1>9, <2>1, Zenon
  <2>2. CASE S # {}
    <3>1. Cardinality(S) <= Cardinality(D) /\ Cardinality(S) \in Nat /\ Cardinality(D) \in Nat
      BY <1>1, InputTypes, FS_Subset, FS_CardinalityType, Zenon
    <3>2. QED  BY <1>3, <1>12, <2>2, <3>1
  <2>3. QED  BY <2>1, <2>2, Zenon
<1>15. QED  BY <1>5, <1>6, <1>8, <1>11, <1>13, <1>14, Zenon DEF r

LEMMA ShareInitInv == ShareInit => ShareInv
<1> SUFFICES ASSUME ShareInit PROVE ShareInv
  BY Zenon
<1>1. inputs \in Inputs /\ bursts = burst /\ round = 0
  BY Zenon DEF ShareInit
<1>2. /\ burst \in [DOMAIN inputs -> Nat]
      /\ \A t \in DOMAIN inputs \ Burstable : burst[t] = 0
      /\ SaneInputs => /\ Lost(burst) >= 0
                       /\ Burstable # {} => Lost(burst) <= Cardinality(Burstable)
  BY <1>1, BurstParts, Zenon
<1>3. /\ Cardinality(Burstable) \in Nat /\ Cardinality(DOMAIN inputs) \in Nat
      /\ Cardinality(Burstable) <= Cardinality(DOMAIN inputs)
      /\ Cardinality(Settled(bursts)) \in Nat
  <2>1. Burstable \in SUBSET DOMAIN inputs /\ Settled(bursts) \in SUBSET DOMAIN inputs
    BY Zenon DEF Burstable, Settled
  <2>2. QED  BY <1>1, <2>1, InputTypes, FS_Subset, FS_CardinalityType, Zenon
<1>4. Lost(burst) \in Int
  <2>1. Summable(burst, DOMAIN inputs) /\ DOMAIN burst = DOMAIN inputs
    BY <1>1, <1>2, InputTypes DEF Summable
  <2>2. SumFunction(burst) \in Int
    BY <2>1, SumOfFunction, SumInt, Zenon
  <2>3. QED  BY <1>1, <2>2, GuaranteeParts, InputTypes DEF Lost
<1>5. SaneInputs /\ Few => (\A t \in Burstable : Closed(burst, t)) \/ Lost(burst) <= 9
  BY <1>2, <1>3, <1>4 DEF Few, Rounds
<1>6. QED  BY <1>1, <1>2, <1>3, <1>5 DEF ShareInv, Rounds

\* One round, for the case that the inputs are sane.
LEMMA RoundKeeps ==
  ASSUME ShareInv, SaneInputs, round < Rounds
  PROVE  LET got == SumFunction(excess(bursts))
             c   == cutToCap(bursts)
             r   == redistribute(c, got)
         IN  /\ \A t \in DOMAIN inputs \ Burstable : c[t] = 0 /\ r[t] = 0
             /\ Lost(c) >= 0 /\ Lost(r) >= 0
             /\ got < Epsilon /\ Few =>
                  /\ \/ \A t \in Burstable : Closed(c, t)
                     \/ Lost(c) <= 9 * (Rounds + 1)
                  /\ \A t \in DOMAIN inputs : BelowCap(c, t)
             /\ got >= Epsilon /\ Few =>
                  /\ \/ \A t \in Burstable : Closed(r, t)
                     \/ Lost(r) <= 9 * (round + 2)
                  /\ Cardinality(Settled(r)) >= round + 1
                  /\ round + 1 < Rounds
<1> DEFINE D   == DOMAIN inputs
           got == SumFunction(excess(bursts))
           c   == cutToCap(bursts)
           r   == redistribute(c, got)
           N   == Cardinality(D)
<1>1. /\ inputs \in Inputs /\ bursts \in [D -> Nat] /\ round \in 0 .. 9
      /\ \A t \in D \ Burstable : bursts[t] = 0
      /\ Lost(bursts) >= 0
      /\ Few => /\ \/ \A t \in Burstable : Closed(bursts, t)
                   \/ Lost(bursts) <= 9 * (round + 1)
                /\ Cardinality(Settled(bursts)) >= round
  BY DEF ShareInv, Rounds
<1>2. got \in Nat /\ c \in [D -> Nat]
  BY <1>1, CutParts, Zenon
<1>3. /\ \A t \in D \ Burstable : c[t] = 0
      /\ \A t \in D : BelowCap(c, t) /\ (Closed(bursts, t) => Closed(c, t))
      /\ Settled(bursts) \in SUBSET Settled(c)
      /\ got > 0 => Settled(bursts) # Settled(c)
      /\ Lost(c) = Lost(bursts) + got
  BY <1>1, CutSettles, Zenon
<1> HIDE DEF got, c
<1>4. /\ \A t \in D \ Burstable : r[t] = 0
      /\ \A t \in D : Closed(c, t) => Closed(r, t)
      /\ Settled(c) \in SUBSET Settled(r)
      /\ Lost(r) >= Lost(c) - got
      /\ \/ \A t \in Burstable : Closed(r, t)
         \/ Lost(r) <= Lost(c) - got + N
      /\ r \in [D -> Nat]
  BY <1>1, <1>2, <1>3, RedistributeParts, Zenon
<1> HIDE DEF r
<1>5. \A b \in [D -> Nat] : Lost(b) \in Int
  <2> TAKE b \in [D -> Nat]
  <2>1. Summable(b, D) /\ DOMAIN b = D
    BY <1>1, InputTypes DEF Summable
  <2>2. SumFunction(b) \in Int
    BY <2>1, SumOfFunction, SumInt, Zenon
  <2>3. QED  BY <1>1, <2>2, GuaranteeParts, InputTypes DEF Lost
<1>6. Lost(bursts) \in Int /\ Lost(c) \in Int /\ Lost(r) \in Int
  BY <1>1, <1>2, <1>4, <1>5, Zenon
<1>7. N \in Nat /\ (Few => N <= 9)
  BY <1>1, InputTypes, FS_CardinalityType DEF Few, Rounds
<1>8. Burstable \in SUBSET D
  BY Zenon DEF Burstable
<1>9. Lost(c) >= 0 /\ Lost(r) >= 0
  BY <1>1, <1>2, <1>3, <1>4, <1>6
<1>10. ASSUME got < Epsilon, Few
       PROVE  (\A t \in Burstable : Closed(c, t)) \/ Lost(c) <= 9 * (Rounds + 1)
  <2>1. CASE \A t \in Burstable : Closed(bursts, t)
    BY <1>3, <1>8, <2>1, Zenon
  <2>2. CASE Lost(bursts) <= 9 * (round + 1)
    BY <1>1, <1>2, <1>3, <1>6, <1>10, <2>2 DEF Epsilon, Rounds
  <2>3. QED  BY <1>1, <1>10, <2>1, <2>2, Zenon
<1>11. ASSUME got >= Epsilon, Few
       PROVE  /\ (\A t \in Burstable : Closed(r, t)) \/ Lost(r) <= 9 * (round + 2)
              /\ Cardinality(Settled(r)) >= round + 1
              /\ round + 1 < Rounds
  <2>1. (\A t \in Burstable : Closed(r, t)) \/ Lost(r) <= 9 * (round + 2)
    <3>1. CASE \A t \in Burstable : Closed(bursts, t)
      BY <1>3, <1>4, <1>8, <3>1, Zenon
    <3>2. CASE \A t \in Burstable : Closed(r, t)
      BY <3>2, Zenon
    <3>3. CASE Lost(bursts) <= 9 * (round + 1) /\ Lost(r) <= Lost(c) - got + N
      BY <1>1, <1>2, <1>3, <1>6, <1>7, <1>11, <3>3
    <3>4. QED  BY <1>1, <1>4, <1>11, <3>1, <3>2, <3>3, Zenon
  <2>2. Settled(r) \in SUBSET D /\ Settled(c) \in SUBSET D /\ Settled(bursts) \in SUBSET D
    BY <1>8, Zenon DEF Settled
  <2>3. /\ Cardinality(Settled(bursts)) \in Nat /\ Cardinality(Settled(c)) \in Nat
        /\ Cardinality(Settled(r)) \in Nat
        /\ Cardinality(Settled(bursts)) < Cardinality(Settled(c))
        /\ Cardinality(Settled(c)) <= Cardinality(Settled(r))
        /\ Cardinality(Settled(r)) <= N
    <3>1. IsFiniteSet(D) /\ IsFiniteSet(Settled(c)) /\ IsFiniteSet(Settled(r))
      BY <1>1, <2>2, InputTypes, FS_Subset, Zenon
    <3>2. Settled(bursts) # Settled(c)
      BY <1>2, <1>3, <1>11 DEF Epsilon
    <3>3. /\ Cardinality(Settled(bursts)) <= Cardinality(Settled(c))
          /\ Cardinality(Settled(bursts)) # Cardinality(Settled(c))
          /\ IsFiniteSet(Settled(bursts))
      BY <1>3, <3>1, <3>2, FS_Subset, Zenon
    <3>4. Cardinality(Settled(c)) <= Cardinality(Settled(r)) /\ Cardinality(Settled(r)) <= N
      BY <1>4, <2>2, <3>1, FS_Subset, Zenon
    <3>5. QED  BY <3>1, <3>3, <3>4, FS_CardinalityType
  <2>4. QED  BY <1>1, <1>7, <1>11, <2>1, <2>3 DEF Rounds
<1>12. QED  BY <1>3, <1>4, <1>9, <1>10, <1>11, Zenon DEF got, c, r

\* Nothing but the bursts and the round enters that a round changes.
LEMMA SameInputs ==
  ASSUME inputs' = inputs
  PROVE  /\ guarantee' = guarantee /\ Burstable' = Burstable /\ SaneInputs' = SaneInputs
         /\ Few' = Few
<1>1. guarantee' = guarantee
  BY Zenon DEF guarantee
<1>2. Burstable' = Burstable
  BY Zenon DEF Burstable
<1>3. SaneInputs' = SaneInputs
  BY Zenon DEF SaneInputs
<1>4. Few' = Few
  BY Zenon DEF Few
<1>5. QED  BY <1>1, <1>2, <1>3, <1>4, Zenon

LEMMA ShareStepInv ==
  ASSUME ShareInv, capAndReclaim
  PROVE  ShareInv'
<1> DEFINE got == SumFunction(excess(bursts))
           c   == cutToCap(bursts)
           r   == redistribute(c, got)
<1>1. /\ inputs' = inputs /\ round < Rounds
      /\ \/ got < Epsilon /\ bursts' = c /\ round' = Rounds
         \/ ~(got < Epsilon) /\ bursts' = r /\ round' = round + 1
  BY Zenon DEF capAndReclaim
<1>2. inputs \in Inputs /\ bursts \in [DOMAIN inputs -> Nat] /\ round \in 0 .. 9
  BY <1>1 DEF ShareInv, Rounds
<1>3. got \in Nat /\ c \in [DOMAIN inputs -> Nat] /\ cutToCap(bursts) = c
  BY <1>2, CutParts, Zenon
<1>4. r \in [DOMAIN inputs -> Nat]
  <2>1. uncapped(c) \in SUBSET DOMAIN inputs
    BY Zenon DEF uncapped, Burstable
  <2> HIDE DEF got, c
  <2>2. ByWeight(got, uncapped(c)) \in [DOMAIN inputs -> Nat]
    BY <1>2, <1>3, <2>1, ByWeightParts, Zenon
  <2>3. QED  BY <1>3, <2>2 DEF redistribute
<1>5. guarantee' = guarantee /\ Burstable' = Burstable /\ SaneInputs' = SaneInputs /\ Few' = Few
  BY <1>1, SameInputs, Zenon
<1>6. Lost(bursts)' = Lost(bursts')
  BY <1>5, Zenon DEF Lost
<1>7. \A t : /\ Closed(bursts, t)' = Closed(bursts', t)
             /\ BelowCap(bursts, t)' = BelowCap(bursts', t)
  BY <1>1, <1>5, Zenon DEF Closed, BelowCap, Capped, Ceiling
<1>8. Settled(bursts)' = Settled(bursts')
  BY <1>1, <1>5, <1>7, Zenon DEF Settled
<1>9. SaneInputs =>
      /\ \A t \in DOMAIN inputs \ Burstable : c[t] = 0 /\ r[t] = 0
      /\ Lost(c) >= 0 /\ Lost(r) >= 0
      /\ got < Epsilon /\ Few =>
           /\ \/ \A t \in Burstable : Closed(c, t)
              \/ Lost(c) <= 9 * (Rounds + 1)
           /\ \A t \in DOMAIN inputs : BelowCap(c, t)
      /\ got >= Epsilon /\ Few =>
           /\ \/ \A t \in Burstable : Closed(r, t)
              \/ Lost(r) <= 9 * (round + 2)
           /\ Cardinality(Settled(r)) >= round + 1
           /\ round + 1 < Rounds
  BY <1>1, RoundKeeps, Zenon
<1> HIDE DEF got, c, r
<1>10. CASE got < Epsilon /\ bursts' = c /\ round' = Rounds
  <2>1. round' \in 0 .. Rounds /\ ~(round' < Rounds) /\ bursts' \in [DOMAIN inputs -> Nat]
    BY <1>3, <1>10 DEF Rounds
  <2>2. QED  BY <1>1, <1>2, <1>5, <1>6, <1>7, <1>9, <1>10, <2>1, Zenon DEF ShareInv
<1>11. CASE ~(got < Epsilon) /\ bursts' = r /\ round' = round + 1
  <2>1. /\ round' \in 0 .. Rounds /\ got >= Epsilon /\ bursts' \in [DOMAIN inputs -> Nat]
        /\ 9 * (round' + 1) = 9 * (round + 2)
        /\ round + 1 < Rounds => round' # Rounds
    BY <1>2, <1>3, <1>4, <1>11 DEF Rounds, Epsilon
  <2>2. QED  BY <1>1, <1>2, <1>5, <1>6, <1>7, <1>8, <1>9, <1>11, <2>1, Zenon DEF ShareInv
<1>12. QED  BY <1>1, <1>10, <1>11, Zenon

LEMMA ShareSameInv ==
  ASSUME ShareInv, UNCHANGED shareVars
  PROVE  ShareInv'
<1>1. inputs' = inputs /\ bursts' = bursts /\ round' = round
  BY Zenon DEF shareVars
<1>5. guarantee' = guarantee /\ Burstable' = Burstable /\ SaneInputs' = SaneInputs /\ Few' = Few
  BY <1>1, SameInputs, Zenon
<1>6. Lost(bursts)' = Lost(bursts)
  BY <1>1, <1>5, Zenon DEF Lost
<1>7. \A t : /\ Closed(bursts, t)' = Closed(bursts, t)
             /\ BelowCap(bursts, t)' = BelowCap(bursts, t)
  BY <1>1, <1>5, Zenon DEF Closed, BelowCap, Capped, Ceiling
<1>8. Settled(bursts)' = Settled(bursts)
  BY <1>1, <1>5, <1>7, Zenon DEF Settled
<1>9. QED  BY <1>1, <1>5, <1>6, <1>7, <1>8, Zenon DEF ShareInv

-----------------------------------------------------------------------------
(* Jain's index. *)

\* The step from n numbers with sum F and squares G to one more.
LEMMA OneMoreSquare ==
  ASSUME NEW n \in Nat, NEW F \in Nat, NEW G \in Nat, NEW a \in Nat, F * F <= n * G, G <= F * F
  PROVE  /\ (F + a) * (F + a) <= (n + 1) * (G + a * a)
         /\ G + a * a <= (F + a) * (F + a)
<1> DEFINE P == F * a
           A == a * a
           B == F * F
<1>1. P \in Nat /\ A \in Nat /\ B \in Nat /\ n * G \in Nat /\ n * A \in Nat
  OBVIOUS
<1>2. (F + a) * (F + a) = B + 2 * P + A
  OBVIOUS
<1>3. (n + 1) * (G + A) = n * G + n * A + G + A
  BY <1>1
<1>4. 2 * P <= n * A + G
  <2>1. CASE n = 0
    <3>1. B <= 0
      BY <2>1
    <3>2. F = 0
      BY <3>1
    <3>3. P = 0
      BY <3>2
    <3> HIDE DEF P, A
    <3>4. QED  BY <1>1, <2>1, <3>3
  <2>2. CASE n > 0
    <3> DEFINE d == n * a - F
    <3>1. d \in Int /\ d * d >= 0
      OBVIOUS
    <3>2. d * d = n * (n * A) - n * (2 * P) + B
      OBVIOUS
    <3> HIDE DEF P, A, B, d
    <3>3. n * (2 * P) <= n * (n * A) + n * G
      BY <1>1, <3>1, <3>2 DEF B
    <3>4. n * (2 * P) <= n * (n * A + G)
      BY <1>1, <3>3
    <3>5. \A x, y \in Nat : n * x <= n * y => x <= y
      BY <2>2
    <3>6. 2 * P \in Nat /\ n * A + G \in Nat
      BY <1>1
    <3>7. QED  BY <3>4, <3>5, <3>6, Zenon
  <2>3. QED  BY <2>1, <2>2
<1>5. (F + a) * (F + a) <= (n + 1) * (G + A)
  <2>1. B <= n * G
    BY Zenon
  <2> HIDE DEF P, A, B
  <2>2. QED  BY <1>1, <1>2, <1>3, <1>4, <2>1
<1>6. G + A <= (F + a) * (F + a)
  <2>1. G <= B
    BY Zenon
  <2> HIDE DEF P, A, B
  <2>2. QED  BY <1>1, <1>2, <2>1
<1>7. QED  BY <1>5, <1>6, Zenon

\* The square of the sum is at most n times the sum of the squares, and at least
\* that sum.
LEMMA SquareOfSum ==
  ASSUME NEW S, IsFiniteSet(S), NEW x, NEW q, \A t \in S : x[t] \in Nat /\ q[t] = x[t] * x[t]
  PROVE  LET A == SumFunctionOnSet(x, S)
             Q == SumFunctionOnSet(q, S)
         IN  A \in Nat /\ Q \in Nat /\ A * A <= Cardinality(S) * Q /\ Q <= A * A
<1> DEFINE F(s) == SumFunctionOnSet(x, s)
           G(s) == SumFunctionOnSet(q, s)
           Claim(s) == F(s) * F(s) <= Cardinality(s) * G(s) /\ G(s) <= F(s) * F(s)
           Fails == {s \in SUBSET S : ~Claim(s)}
<1>0. \A t \in S : x[t] \in Nat /\ q[t] \in Nat /\ x[t] >= 0 /\ q[t] >= 0
  OBVIOUS
<1>1. \A s \in SUBSET S : Summable(x, s) /\ Summable(q, s) /\ IsFiniteSet(s)
  BY <1>0, FS_Subset DEF Summable
<1>2. \A s \in SUBSET S : F(s) \in Nat /\ G(s) \in Nat /\ Cardinality(s) \in Nat
  <2> TAKE s \in SUBSET S
  <2>1. \A t \in s : x[t] >= 0 /\ q[t] >= 0
    BY <1>0, Zenon
  <2>2. F(s) \in Int /\ G(s) \in Int /\ F(s) >= 0 /\ G(s) >= 0
    BY <1>1, <2>1, SumInt, SumNat, Zenon
  <2>3. QED  BY <1>1, <2>2, FS_CardinalityType
<1>3. \A s \in SUBSET S : \A t \in s : F(s) = x[t] + F(s \ {t}) /\ G(s) = q[t] + G(s \ {t})
  BY <1>1, SumTake, Zenon
<1>4. F({}) = 0 /\ G({}) = 0 /\ Cardinality({}) = 0
  BY SumOfNone, FS_EmptySet, Zenon
<1> HIDE DEF F, G
<1>5. Fails = {}
  <2> SUFFICES ASSUME Fails # {} PROVE FALSE
    BY Zenon
  <2>1. PICK s \in Fails : \A t \in SUBSET s : t # s => t \notin Fails
    <3>1. Fails \in SUBSET (SUBSET S)
      BY Zenon
    <3> HIDE DEF Fails
    <3>2. QED  BY <3>1, SmallestSubset, Zenon
  <2>2. Claim({})
    BY <1>4
  <2>3. PICK t \in s : TRUE
    BY <2>1, <2>2, Zenon
  <2> DEFINE r == s \ {t}
  <2>4. r \in SUBSET s /\ r # s /\ r \in SUBSET S /\ s \in SUBSET S /\ t \in S
    BY <2>1, <2>3, Zenon
  <2>5. Claim(r)
    BY <2>1, <2>4, Zenon
  <2>6. F(s) = x[t] + F(r) /\ G(s) = x[t] * x[t] + G(r) /\ x[t] \in Nat
    BY <1>3, <2>3, <2>4, Zenon
  <2>7. Cardinality(s) = Cardinality(r) + 1
    <3>1. IsFiniteSet(s) /\ Cardinality(s) \in Nat
      BY <1>1, <1>2, <2>4, Zenon
    <3>2. Cardinality(s \ {t}) = Cardinality(s) - 1
      BY <2>3, <3>1, FS_RemoveElement, Zenon
    <3>3. \A a, b \in Nat : b = a - 1 => a = b + 1
      OBVIOUS
    <3>4. Cardinality(r) \in Nat
      BY <1>2, <2>4, Zenon
    <3>5. QED  BY <3>1, <3>2, <3>3, <3>4, Zenon
  <2>8. F(r) \in Nat /\ G(r) \in Nat /\ Cardinality(r) \in Nat
    BY <1>2, <2>4, Zenon
  <2>9. ~Claim(s)
    BY <2>1, Zenon
  <2> HIDE DEF r, Fails
  <2>10. /\ (F(r) + x[t]) * (F(r) + x[t]) <= (Cardinality(r) + 1) * (G(r) + x[t] * x[t])
         /\ G(r) + x[t] * x[t] <= (F(r) + x[t]) * (F(r) + x[t])
    BY <2>5, <2>6, <2>8, OneMoreSquare, Zenon
  <2>11. F(s) = F(r) + x[t] /\ G(s) = G(r) + x[t] * x[t]
    BY <2>6, <2>8
  <2>12. QED  BY <2>7, <2>9, <2>10, <2>11, Zenon
<1>6. Claim(S)
  BY <1>5, Zenon
<1>7. QED  BY <1>2, <1>6, Zenon DEF F, G

LEMMA JainBetween ==
  ASSUME NEW D, IsFiniteSet(D), NEW current \in [D -> Nat], NEW guaranteed \in [D -> Nat]
  PROVE  LET jain == ComputeFairness(current, guaranteed)
         IN  jain # <<>> => jain.num <= jain.den /\ jain.den <= Cardinality(D) * jain.num
<1> DEFINE owed == {t \in DOMAIN guaranteed : guaranteed[t] > 0}
           x    == [t \in owed |-> (100 * current[t]) \div guaranteed[t]]
           q    == [t \in owed |-> x[t] * x[t]]
           A    == SumFunctionOnSet(x, owed)
           Q    == SumFunctionOnSet(q, owed)
           jain == ComputeFairness(current, guaranteed)
           n    == Cardinality(owed)
           N    == Cardinality(D)
<1>1. owed \in SUBSET D /\ DOMAIN x = owed /\ DOMAIN q = owed
  BY Zenon
<1>2. \A t \in owed : x[t] \in Nat /\ q[t] = x[t] * x[t]
  <2>1. \A a, b \in Nat : b > 0 => (100 * a) \div b \in Nat
    OBVIOUS
  <2>2. QED  BY <1>1, <2>1, Zenon
<1>3. IsFiniteSet(owed) /\ n \in Nat /\ N \in Nat /\ n <= N /\ (owed # {} => n # 0)
  BY <1>1, FS_Subset, FS_CardinalityType, FS_EmptySet, Zenon
<1>4. jain = IF owed = {} THEN <<>>
             ELSE IF SumFunction(q) = 0 THEN [num |-> 1, den |-> 1]
             ELSE [num |-> SumFunction(x) * SumFunction(x), den |-> n * SumFunction(q)]
  BY Zenon DEF ComputeFairness
<1> HIDE DEF owed, x, q, jain, n, N
<1>5. SumFunction(x) = A /\ SumFunction(q) = Q
  BY <1>1, SumOfFunction, Zenon
<1>6. A \in Nat /\ Q \in Nat /\ A * A <= n * Q /\ Q <= A * A
  BY <1>2, <1>3, SquareOfSum, Zenon DEF n
<1> HIDE DEF A, Q
<1>7. CASE owed = {}
  BY <1>4, <1>7, Zenon DEF jain
<1>8. CASE owed # {} /\ Q = 0
  <2>1. jain.num = 1 /\ jain.den = 1
    BY <1>4, <1>5, <1>8, Zenon
  <2>2. QED  BY <1>3, <1>8, <2>1 DEF jain, N
<1>9. CASE owed # {} /\ Q # 0
  <2>1. jain.num = A * A /\ jain.den = n * Q
    BY <1>4, <1>5, <1>9, Zenon
  <2>2. \A B \in Nat : Q <= B => n * Q <= N * B
    <3> TAKE B \in Nat
    <3> HAVE Q <= B
    <3>1. n * Q <= n * B
      BY <1>3, <1>6
    <3>2. n * B <= N * B
      BY <1>3
    <3>3. n * Q \in Int /\ n * B \in Int /\ N * B \in Int
      BY <1>3, <1>6
    <3>4. QED  BY <3>1, <3>2, <3>3
  <2>3. A * A \in Nat
    BY <1>6
  <2>4. n * Q <= N * (A * A)
    BY <1>6, <2>2, <2>3, Zenon
  <2>5. QED  BY <1>6, <2>1, <2>4, Zenon DEF jain, N
<1>10. QED  BY <1>7, <1>8, <1>9, Zenon

-----------------------------------------------------------------------------
\* What the loop leaves is sound.
LEMMA ShareInvSound == ShareInv => SharesSound
<1> SUFFICES ASSUME ShareInv, round = Rounds PROVE SharesSound
  BY Zenon DEF SharesSound
<1> DEFINE D     == DOMAIN inputs
           s     == ComputeFairShares
           total == [t \in DOMAIN s |-> s[t].total]
           used  == [t \in DOMAIN s |-> s[t].total \div 10000]
           due   == [t \in DOMAIN s |-> s[t].guaranteed \div 10000]
           jain  == ComputeFairness(used, due)
<1>1. inputs \in Inputs /\ bursts \in [D -> Nat]
  BY Zenon DEF ShareInv
<1>2. /\ DOMAIN s = D
      /\ \A t \in D :
           /\ s[t].guaranteed = guarantee[t]
           /\ s[t].total = IF Capped(inputs[t]) /\ guarantee[t] + bursts[t] > Ceiling(inputs[t])
                           THEN IF guarantee[t] > Ceiling(inputs[t]) THEN guarantee[t]
                                ELSE Ceiling(inputs[t])
                           ELSE guarantee[t] + bursts[t]
           /\ s[t].max = IF Capped(inputs[t]) THEN Ceiling(inputs[t]) ELSE clusterCores
  BY Zenon DEF ComputeFairShares
<1>3. \A t \in D : guarantee[t] \in Nat /\ Ceiling(inputs[t]) \in Nat /\ bursts[t] \in Nat
  BY <1>1, GuaranteeParts, Zenon
<1> HIDE DEF s
<1>4. \A t \in D : s[t].total \in Nat /\ s[t].guaranteed \in Nat /\ s[t].total >= s[t].guaranteed
  BY <1>2, <1>3
<1>5. \A t \in D : Capped(inputs[t]) => s[t].total <= s[t].max \/ s[t].guaranteed > s[t].max
  BY <1>2, <1>3
<1>6. \A t \in D : AllocationStatusFor(s[t].guaranteed, s[t]) # "throttled"
  BY <1>4 DEF AllocationStatusFor
<1>7. IsFiniteSet(D) /\ total \in [D -> Nat] /\ used \in [D -> Nat] /\ due \in [D -> Nat]
  <2>1. \A a \in Nat : a \div 10000 \in Nat
    OBVIOUS
  <2>2. QED  BY <1>1, <1>2, <1>4, <2>1, InputTypes
<1>8. \A t \in D : total[t] = s[t].total
  BY <1>2, Zenon
<1> HIDE DEF total, used, due
<1>9. jain # <<>> => jain.num <= jain.den /\ jain.den <= Cardinality(D) * jain.num
  BY <1>7, JainBetween, Zenon
<1>10. Summable(guarantee, D) /\ Summable(bursts, D) /\ Summable(total, D)
       /\ DOMAIN guarantee = D /\ DOMAIN bursts = D /\ DOMAIN total = D
  BY <1>1, <1>3, <1>7, GuaranteeParts DEF Summable
<1> DEFINE held == [t \in D |-> guarantee[t] + bursts[t]]
<1>11. \A t \in D : held[t] = guarantee[t] + bursts[t]
  BY Zenon
<1> HIDE DEF held
<1>12. Summable(held, D) /\ SumFunctionOnSet(held, D) = SumFunction(guarantee) + SumFunction(bursts)
  BY <1>10, <1>11, SumPlus, SumOfFunction
<1>13. /\ SumFunction(guarantee) \in Int /\ SumFunction(bursts) \in Int /\ clusterCores \in Int
       /\ SumFunctionOnSet(held, D) \in Int /\ SumFunction(total) \in Int
       /\ SumFunction(total) = SumFunctionOnSet(total, D)
  BY <1>1, <1>10, <1>12, SumOfFunction, SumInt, InputTypes, SMTT(30)
<1>14. SumFunctionOnSet(held, D) = clusterCores - Lost(bursts) /\ Lost(bursts) \in Int
  BY <1>12, <1>13 DEF Lost
<1>15. ASSUME SaneInputs PROVE SumFunction(total) <= clusterCores
  <2>1. \A t \in D : Capped(inputs[t]) => guarantee[t] <= Ceiling(inputs[t])
    BY <1>1, <1>15, GuaranteeParts, Zenon
  <2>2. \A t \in D : total[t] <= held[t]
    BY <1>2, <1>3, <1>8, <1>11, <2>1
  <2>3. SumFunctionOnSet(total, D) <= SumFunctionOnSet(held, D)
    BY <1>10, <1>12, <2>2, SumMono, Zenon
  <2>4. Lost(bursts) >= 0
    BY <1>15, Zenon DEF ShareInv
  <2>5. QED  BY <1>13, <1>14, <2>3, <2>4
<1>16. ASSUME SaneInputs, Cardinality(D) < Rounds, SumFunction(total) < clusterCores - Slack,
              NEW t \in Burstable
       PROVE  Capped(inputs[t]) /\ s[t].total >= Ceiling(inputs[t]) - Slack
  <2>1. /\ (\A u \in Burstable : Closed(bursts, u)) \/ Lost(bursts) <= 9 * (round + 1)
        /\ \A u \in D : BelowCap(bursts, u)
    BY <1>16, Zenon DEF ShareInv, Few
  <2>2. \A u \in D : total[u] = held[u]
    BY <1>2, <1>3, <1>8, <1>11, <2>1 DEF BelowCap
  <2>3. SumFunctionOnSet(total, D) = SumFunctionOnSet(held, D)
    BY <1>12, <2>2, SumAgree, Zenon
  <2>4. ~(Lost(bursts) <= 9 * (round + 1))
    BY <1>13, <1>14, <1>16, <2>3 DEF Slack, Rounds
  <2>5. Closed(bursts, t) /\ t \in D
    BY <2>1, <2>4, Zenon DEF Burstable
  <2>6. QED  BY <1>3, <1>8, <1>11, <2>2, <2>5 DEF Closed, Slack, Epsilon
<1>17. /\ \A t \in DOMAIN s :
            /\ s[t].total >= s[t].guaranteed
            /\ Capped(inputs[t]) => s[t].total <= s[t].max \/ s[t].guaranteed > s[t].max
            /\ AllocationStatusFor(s[t].guaranteed, s[t]) # "throttled"
       /\ SaneInputs => SumFunction(total) <= clusterCores
       /\ SaneInputs /\ Cardinality(DOMAIN s) < Rounds /\ SumFunction(total) < clusterCores - Slack =>
            \A t \in Burstable : Capped(inputs[t]) /\ s[t].total >= Ceiling(inputs[t]) - Slack
       /\ jain # <<>> => jain.num <= jain.den /\ jain.den <= Cardinality(DOMAIN s) * jain.num
  BY <1>2, <1>4, <1>5, <1>6, <1>9, <1>15, <1>16, ZenonT(30)
<1>18. SoundShares(s)
  BY <1>17 DEF SoundShares, total, used, due
<1>19. QED  BY <1>18, Zenon DEF SharesSound, s
=============================================================================
