-------------------------- MODULE DecisionsProofs ---------------------------
(***************************************************************************)
(* What the optimizer knows of the SLO and what the solver chooses         *)
(* (Decisions), for all objectives, readings, policies and loads: KnownSLO *)
(* and ChosenIsSound are invariants.                                       *)
(***************************************************************************)
EXTENDS Decisions, FiniteSetTheorems, WellFoundedInduction, TLAPS

-----------------------------------------------------------------------------
(* Finite sets and their extremes. *)

\* A set of numbers has a least one.
LEMMA Least ==
  ASSUME NEW N \in SUBSET Nat, N # {}
  PROVE  \E x \in N : \A y \in N : x <= y
<1>1. PICK x \in N : \A y \in N : ~(<<y, x>> \in OpToRel(<, Nat))
  BY WFMin, NatLessThanWellFounded, Zenon
<1>2. \A a, b \in Nat : b < a => <<b, a>> \in OpToRel(<, Nat)
  BY Zenon DEF OpToRel
<1>3. \A y \in N : ~(y < x)
  BY <1>1, <1>2, Zenon
<1>4. QED  BY <1>3

\* A finite set of integers that is not empty has a greatest element: a smallest
\* subset without one would not be empty, and lose one of its elements to no
\* avail.
LEMMA Greatest ==
  ASSUME NEW V \in SUBSET Int, IsFiniteSet(V), V # {}
  PROVE  \E x \in V : \A y \in V : y <= x
<1> DEFINE Tops(s) == {x \in s : \A y \in s : y <= x}
           Fails == {s \in SUBSET V : s # {} /\ Tops(s) = {}}
           Sizes == {n \in Nat : \E s \in Fails : Cardinality(s) = n}
<1> SUFFICES ASSUME Fails # {} PROVE FALSE
  BY Zenon
<1>1. \A s \in SUBSET V : IsFiniteSet(s) /\ Cardinality(s) \in Nat
  BY FS_Subset, FS_CardinalityType, Zenon
<1>2. PICK n \in Sizes : \A m \in Sizes : n <= m
  <2>1. PICK s \in Fails : TRUE
    BY Zenon
  <2>2. Cardinality(s) \in Sizes
    BY <1>1, <2>1, Zenon
  <2>3. Sizes \in SUBSET Nat /\ Sizes # {}
    BY <2>2, Zenon
  <2> HIDE DEF Sizes
  <2>4. QED  BY <2>3, Least, Zenon
<1>3. PICK s \in Fails : Cardinality(s) = n
  BY <1>2, Zenon
<1>4. PICK x \in s : TRUE
  BY <1>3, Zenon
<1>5. /\ s \ {x} \in SUBSET V /\ Cardinality(s \ {x}) \in Nat
      /\ Cardinality(s \ {x}) = Cardinality(s) - 1 /\ Cardinality(s) \in Nat
  BY <1>1, <1>3, <1>4, FS_RemoveElement, Zenon
<1>6. s \ {x} \notin Fails
  <2>1. SUFFICES ASSUME s \ {x} \in Fails PROVE FALSE
    BY Zenon
  <2>2. Cardinality(s \ {x}) \in Sizes
    BY <1>5, <2>1, Zenon
  <2>3. n <= Cardinality(s \ {x})
    BY <1>2, <2>2, Zenon
  <2>4. QED  BY <1>3, <1>5, <2>3
<1>7. CASE s \ {x} = {}
  <2>1. x \in Tops(s)
    BY <1>3, <1>4, <1>7
  <2>2. QED  BY <1>3, <2>1, Zenon
<1>8. CASE s \ {x} # {}
  <2>1. Tops(s \ {x}) # {}
    BY <1>5, <1>6, <1>8, Zenon
  <2>2. PICK z \in s \ {x} : \A y \in s \ {x} : y <= z
    BY <2>1, Zenon
  <2>3. x \in Int /\ z \in Int /\ \A y \in s : y \in Int
    BY <1>3, <1>4, <2>2, Zenon
  <2>4. x \in Tops(s) \/ z \in Tops(s)
    BY <1>4, <2>2, <2>3
  <2>5. QED  BY <1>3, <2>4, Zenon
<1>9. QED  BY <1>7, <1>8, Zenon

\* So Max gives the greatest, and Min the least.
LEMMA MaxOf ==
  ASSUME NEW V \in SUBSET Int, IsFiniteSet(V), V # {}
  PROVE  Max(V) \in V /\ Max(V) \in Int /\ \A y \in V : y <= Max(V)
<1>1. \E x \in V : \A y \in V : y <= x
  BY Greatest, Zenon
<1>2. \E x \in V : \A y \in V : x >= y
  BY <1>1, Zenon
<1>3. Max(V) \in V /\ \A y \in V : Max(V) >= y
  BY <1>2, Zenon DEF Max
<1>4. QED  BY <1>3, Zenon

\* The values of a function on a finite set are finitely many.
LEMMA ImageFinite ==
  ASSUME NEW S, IsFiniteSet(S), NEW f, DOMAIN f = S
  PROVE  IsFiniteSet({f[x] : x \in S})
<1> DEFINE T == {f[x] : x \in S}
           g == [x \in S |-> f[x]]
<1>1. g \in Surjection(S, T)
  BY Zenon DEF Surjection
<1> HIDE DEF T, g
<1>2. IsFiniteSet(T)
  BY <1>1, FS_Surjection, Zenon
<1>3. QED  BY <1>2, Zenon DEF T

LEMMA MinOf ==
  ASSUME NEW V \in SUBSET Int, IsFiniteSet(V), V # {}
  PROVE  Min(V) \in V /\ Min(V) \in Int /\ \A y \in V : Min(V) <= y
<1> DEFINE f == [x \in V |-> 0 - x]
           W == {f[x] : x \in V}
<1>1. IsFiniteSet(W)
  BY ImageFinite, Zenon
<1>2. W \in SUBSET Int /\ W # {}
  <2>1. \A x \in V : f[x] \in Int
    OBVIOUS
  <2>2. PICK x \in V : TRUE
    BY Zenon
  <2>3. f[x] \in W
    BY <2>2, Zenon
  <2> HIDE DEF f
  <2>4. QED  BY <2>1, <2>3, Zenon
<1> HIDE DEF W
<1>3. PICK w \in W : \A y \in W : y <= w
  BY <1>1, <1>2, Greatest, Zenon
<1>4. PICK v \in V : w = 0 - v
  BY <1>3, Zenon DEF W
<1>5. \A y \in V : v <= y
  <2> TAKE y \in V
  <2>1. 0 - y \in W
    BY Zenon DEF W
  <2>2. 0 - y <= 0 - v
    BY <1>3, <1>4, <2>1, Zenon
  <2>3. QED  BY <2>2
<1>6. Min(V) \in V /\ \A y \in V : Min(V) <= y
  BY <1>5, Zenon DEF Min
<1>7. QED  BY <1>6, Zenon

LEMMA PairExtremes ==
  ASSUME NEW a \in Int, NEW b \in Int
  PROVE  /\ Max({a, b}) = IF a >= b THEN a ELSE b
         /\ Min({a, b}) = IF a <= b THEN a ELSE b
<1> DEFINE V == {a, b}
<1>1. V \in SUBSET Int /\ V # {} /\ IsFiniteSet(V)
  <2>1. IsFiniteSet({a} \cup {b})
    BY FS_Singleton, FS_AddElement, Zenon
  <2>2. QED  BY <2>1, Zenon
<1>2. \A y \in V : y = a \/ y = b
  BY Zenon
<1>3. a \in V /\ b \in V
  BY Zenon
<1> HIDE DEF V
<1>4. Max(V) \in V /\ (\A y \in V : y <= Max(V)) /\ Min(V) \in V /\ \A y \in V : Min(V) <= y
  BY <1>1, MaxOf, MinOf, Zenon
<1>5. /\ (Max(V) = a \/ Max(V) = b) /\ a <= Max(V) /\ b <= Max(V)
      /\ (Min(V) = a \/ Min(V) = b) /\ Min(V) <= a /\ Min(V) <= b
  BY <1>2, <1>3, <1>4, Zenon
<1>6. \A m \in {a, b} : /\ a <= m /\ b <= m => m = IF a >= b THEN a ELSE b
                       /\ m <= a /\ m <= b => m = IF a <= b THEN a ELSE b
  BY Zenon
<1>7. QED  BY <1>5, <1>6 DEF V

-----------------------------------------------------------------------------
(* The evaluation of the objectives and what the solver sees of it. *)

\* Bad shares and burn rates are not negative, but for the one that is no number.
LEMMA BadRatioType ==
  ASSUME NEW metric \in Metrics, NEW actual \in Nat \cup {NaN}, NEW target \in Nat
  PROVE  BadRatio(metric, actual, target) \in Nat \cup {NaN}
<1>1. \A a, b \in Nat : a > b /\ b # 0 =>
        ((a - b) \div b) * Million + (((a - b) % b) * Million) \div b \in Nat
  BY DEF Million
<1>2. \A a, b \in Nat : ~(a >= b) /\ b # 0 => ((b - a) * Million) \div b \in Nat
  BY DEF Million
<1>3. Inf \in Nat /\ Million \in Nat /\ NaN \notin Nat
  BY DEF Inf, Million, NaN
<1>4. CASE actual = NaN
  BY <1>4, Zenon DEF BadRatio
<1>5. CASE actual \in Nat
  <2>1. actual # NaN
    BY <1>3, <1>5, Zenon
  <2>2. CASE metric \in Latencies
    <3>1. CASE actual <= target
      BY <2>1, <2>2, <3>1, Zenon DEF BadRatio, Latencies
    <3>2. CASE ~(actual <= target) /\ (actual = Inf \/ target = 0)
      BY <1>3, <2>1, <2>2, <3>2, Zenon DEF BadRatio, Latencies
    <3>3. CASE ~(actual <= target) /\ ~(actual = Inf \/ target = 0)
      <4>1. actual > target
        BY <1>5, <3>3
      <4>2. BadRatio(metric, actual, target)
              = ((actual - target) \div target) * Million + (((actual - target) % target) * Million) \div target
        BY <2>1, <2>2, <3>3, <4>1, Zenon DEF BadRatio, Latencies
      <4>3. QED  BY <1>1, <1>5, <3>3, <4>1, <4>2, Zenon
    <3>4. QED  BY <3>1, <3>2, <3>3, Zenon
  <2>3. CASE metric = "error_rate"
    BY <1>5, <2>1, <2>3, Zenon DEF BadRatio, Latencies
  <2>4. CASE metric = "availability"
    BY <1>3, <1>5, <2>1, <2>4 DEF BadRatio, Latencies
  <2>5. CASE metric \in {"throughput", "custom"}
    BY <1>2, <1>5, <2>1, <2>5, Zenon DEF BadRatio, Latencies
  <2>6. QED  BY <2>2, <2>3, <2>4, <2>5, Zenon DEF Metrics
<1>6. QED  BY <1>4, <1>5, Zenon

LEMMA BurnRateType ==
  ASSUME NEW metric \in Metrics, NEW actual \in Nat \cup {NaN}, NEW target \in Nat, NEW budget \in Int
  PROVE  computeBurnRate(metric, actual, target, budget) \in Nat \cup {NaN}
<1> DEFINE bad == BadRatio(metric, actual, target)
<1>1. bad \in Nat \cup {NaN}
  BY BadRatioType, Zenon
<1> HIDE DEF bad
<1>2. \A b \in Nat : ~(budget <= 0) =>
        (b \div budget) * Full + ((b % budget) * Full + budget \div 2) \div budget \in Nat
  BY DEF Full
<1>3. computeBurnRate(metric, actual, target, budget)
        = IF budget <= 0 THEN 0
          ELSE IF bad \in {NaN, Inf} THEN bad
          ELSE (bad \div budget) * Full + ((bad % budget) * Full + budget \div 2) \div budget
  BY Zenon DEF computeBurnRate, bad
<1>4. QED  BY <1>1, <1>2, <1>3

\* An objective uses up the whole budget only with a burn rate above 0.
LEMMA BudgetUsed ==
  ASSUME NEW burn \in Nat \cup {NaN}, NEW slices \in Nat \ {0}
  PROVE  /\ computeBudgetUsed(burn, slices) \in Nat
         /\ computeBudgetUsed(burn, slices) >= Full => burn > 0
<1> DEFINE x == (burn + slices \div 2) \div slices
<1>1. CASE burn = NaN
  BY <1>1 DEF computeBudgetUsed, Full
<1>2. CASE burn \in Nat
  <2>1. burn # NaN
    BY <1>2 DEF NaN
  <2>2. x \in Nat /\ (burn = 0 => x = 0)
    BY <1>2
  <2> HIDE DEF x
  <2>3. Min({Full, x}) = IF Full <= x THEN Full ELSE x
    BY <2>2, PairExtremes DEF Full
  <2>4. computeBudgetUsed(burn, slices) = Min({Full, x})
    BY <2>1, Zenon DEF computeBudgetUsed, x
  <2>5. QED  BY <1>2, <2>2, <2>3, <2>4 DEF Full
<1>3. QED  BY <1>1, <1>2, Zenon

\* The typed objectives and readings of an evaluation without error.
LEMMA ObjectiveTypes ==
  ASSUME NEW spec \in SloSpecs, NEW reading \in Readings, Evaluates(spec, reading)
  PROVE  /\ spec.budget \in Int
         /\ IsFiniteSet(DOMAIN spec.objectives) /\ DOMAIN spec.objectives \in SUBSET Int
         /\ \A i \in DOMAIN spec.objectives :
              /\ spec.objectives[i].metric \in Metrics
              /\ spec.objectives[i].target \in Nat
              /\ spec.objectives[i].slices \in Nat \ {0}
              /\ reading[spec.objectives[i].metric] \in Nat \cup {NaN}
<1> DEFINE O == spec.objectives
           T == [metric : Metrics, target : Nat \cup {Malformed}, slices : Nat \ {0}]
<1>1. spec.budget \in Int
  BY SloEvaluatorAssumption, Zenon DEF SloAssumption, Evaluates
<1>2. O \in Seq(T)
  BY SloEvaluatorAssumption, Zenon DEF SloAssumption
<1>3. DOMAIN O = 1 .. Len(O) /\ Len(O) \in Nat /\ \A i \in DOMAIN O : O[i] \in T
  <2> HIDE DEF O, T
  <2>1. QED  BY <1>2
<1>4. IsFiniteSet(DOMAIN O) /\ DOMAIN O \in SUBSET Int
  BY <1>3, FS_Interval
<1>5. ASSUME NEW i \in DOMAIN O
      PROVE  /\ O[i].metric \in Metrics /\ O[i].target \in Nat /\ O[i].slices \in Nat \ {0}
             /\ reading[O[i].metric] \in Nat \cup {NaN}
  <2>1. O[i] \in T
    BY <1>3, Zenon
  <2>2. O[i].target # Malformed /\ reading[O[i].metric] # NoData
    BY Zenon DEF Evaluates
  <2>3. reading[O[i].metric] \in Nat \cup {NaN, NoData}
    BY SloEvaluatorAssumption, Zenon DEF SloAssumption
  <2>4. QED  BY <2>1, <2>2, <2>3, Zenon
<1>6. QED  BY <1>1, <1>4, <1>5, Zenon

\* What the solver sees of an evaluation.  The budget is gone only if an objective
\* used it up, which takes a burn rate above 0; where no other objective has its
\* metric, that rate is in the status, and the solver's is at least as high.
LEMMA EvaluationSeen ==
  ASSUME NEW spec \in SloSpecs, NEW reading \in Readings, Evaluates(spec, reading),
         NEW status,
         status.compliant = IF Evaluate(spec, reading).compliant THEN "True" ELSE "False",
         status.budget = Evaluate(spec, reading).budget,
         status.burn = Evaluate(spec, reading).burn
  PROVE  SeenAs(spec, reading, buildSLOStatus(status))
<1> DEFINE O == spec.objectives
           D == DOMAIN O
           burn(o) == computeBurnRate(o.metric, reading[o.metric], o.target, spec.budget)
           all == {O[i] : i \in D}
           used == [o \in all |-> computeBudgetUsed(burn(o), o.slices)]
           U == {0} \cup {used[o] : o \in all}
           ms == {o.metric : o \in all}
           last(m) == Max({i \in D : O[i].metric = m})
           rate == [m \in ms |-> burn(O[last(m)])]
           B == {0} \cup {rate[m] : m \in ms}
           slo == buildSLOStatus(status)
<1>1. /\ spec.budget \in Int /\ IsFiniteSet(D) /\ D \in SUBSET Int
      /\ \A i \in D : /\ O[i].metric \in Metrics /\ O[i].target \in Nat
                      /\ O[i].slices \in Nat \ {0} /\ reading[O[i].metric] \in Nat \cup {NaN}
  BY ObjectiveTypes, Zenon
<1>2. \A o \in all : burn(o) \in Nat \cup {NaN} /\ o.slices \in Nat \ {0}
  BY <1>1, BurnRateType, Zenon
<1>3. IsFiniteSet(all)
  <2> DEFINE f == [i \in D |-> O[i]]
  <2>1. all = {f[i] : i \in D}
    BY Zenon
  <2>2. DOMAIN f = D /\ IsFiniteSet(D)
    BY <1>1, Zenon
  <2> HIDE DEF f, all, D
  <2>3. IsFiniteSet({f[i] : i \in D})
    BY <2>2, ImageFinite, Zenon
  <2>4. QED  BY <2>1, <2>3, Zenon
<1>4. \A o \in all : used[o] \in Nat /\ (used[o] >= Full => burn(o) > 0)
  BY <1>2, BudgetUsed, Zenon
<1>5. IsFiniteSet(U) /\ U \in SUBSET Int /\ U # {}
  <2>1. IsFiniteSet({used[o] : o \in all})
    <3>1. DOMAIN used = all
      BY Zenon
    <3> HIDE DEF used, all
    <3>2. QED  BY <1>3, <3>1, ImageFinite, Zenon
  <2>2. IsFiniteSet(U)
    BY <2>1, FS_AddElement, FS_Union, FS_Singleton, Zenon
  <2> HIDE DEF used, all
  <2>3. \A o \in all : used[o] \in Int
    BY <1>4
  <2>4. QED  BY <2>2, <2>3
<1>6. ASSUME NEW m \in ms
      PROVE  last(m) \in D /\ O[last(m)].metric = m
  <2> DEFINE I == {i \in D : O[i].metric = m}
  <2>1. I \in SUBSET D /\ I # {}
    BY Zenon
  <2>2. IsFiniteSet(I) /\ I \in SUBSET Int
    BY <1>1, <2>1, FS_Subset, Zenon
  <2> HIDE DEF I
  <2>3. Max(I) \in I
    BY <2>1, <2>2, MaxOf, Zenon
  <2>4. QED  BY <2>3, Zenon DEF I
<1>7. \A m \in ms : rate[m] \in Nat \cup {NaN}
  BY <1>2, <1>6, Zenon
<1>8. IsFiniteSet(B) /\ B \in SUBSET Int /\ B # {}
  <2>1. IsFiniteSet(ms)
    <3> DEFINE g == [o \in all |-> o.metric]
    <3>1. DOMAIN g = all /\ ms = {g[o] : o \in all}
      BY Zenon
    <3> HIDE DEF g, all, ms
    <3>2. QED  BY <1>3, <3>1, ImageFinite, Zenon
  <2>2. IsFiniteSet({rate[m] : m \in ms})
    <3>1. DOMAIN rate = ms
      BY Zenon
    <3> HIDE DEF rate, ms
    <3>2. QED  BY <2>1, <3>1, ImageFinite, Zenon
  <2>3. IsFiniteSet(B)
    BY <2>2, FS_Union, FS_Singleton, Zenon
  <2> HIDE DEF rate, ms
  <2>4. \A m \in ms : rate[m] \in Int
    BY <1>7 DEF NaN
  <2>5. QED  BY <2>3, <2>4
<1>9. /\ Evaluate(spec, reading).compliant = ~Violated(spec, reading)
      /\ Evaluate(spec, reading).budget = Full - Max(U)
      /\ Evaluate(spec, reading).burn = rate
  <2>1. U = {0} \cup {computeBudgetUsed(burn(o), o.slices) : o \in all}
    BY Zenon
  <2>2. Violated(spec, reading) = ~ \A o \in all : isCompliant(o.metric, reading[o.metric], o.target)
    BY Zenon DEF Violated
  <2>3. QED  BY <2>1, <2>2, Zenon DEF Evaluate
<1>10. /\ slo.compliant = ~Violated(spec, reading)
       /\ slo.budget = Full - Max(U)
       /\ slo.burn = Max(B)
  <2>1. DOMAIN rate = ms
    BY Zenon
  <2>2. slo = [compliant |-> status.compliant = "True", budget |-> status.budget,
               burn |-> Max({0} \cup {status.burn[m] : m \in DOMAIN status.burn})]
    BY Zenon  DEF buildSLOStatus
  <2>3. (status.compliant = "True") = ~Violated(spec, reading)
    BY <1>9, ZenonT(30)
  <2>4. status.budget = Full - Max(U) /\ status.burn = rate
    BY <1>9, ZenonT(30)
  <2>5. {0} \cup {status.burn[m] : m \in DOMAIN status.burn} = B
    BY <2>1, <2>4, ZenonT(90)
  <2> HIDE DEF slo, B, U, rate
  <2>6. QED  BY <2>2, <2>3, <2>4, <2>5, Zenon
<1> HIDE DEF slo
<1>11. Max(U) \in U /\ Max(U) \in Int /\ \A y \in B : y <= Max(B)
  <2> HIDE DEF U, B
  <2>1. QED  BY <1>5, <1>8, MaxOf, Zenon
<1>12. Max(B) \in Int
  <2> HIDE DEF B
  <2>1. QED  BY <1>8, MaxOf, Zenon
<1>13. ASSUME OneEach(spec), NEW o \in all PROVE burn(o) <= slo.burn
  <2>1. PICK i \in D : o = O[i]
    BY Zenon
  <2>2. o.metric \in ms /\ last(o.metric) \in D /\ O[last(o.metric)].metric = o.metric
    BY <1>6, Zenon
  <2>3. last(o.metric) = i
    BY <1>13, <2>1, <2>2, ZenonT(30) DEF OneEach
  <2>4. rate[o.metric] = burn(o)
    BY <2>1, <2>2, <2>3, ZenonT(30)
  <2>5. burn(o) \in B
    BY <2>2, <2>4, Zenon
  <2>6. QED  BY <1>10, <1>11, <2>5, Zenon
<1>14. ASSUME Violated(spec, reading), OneEach(spec) \/ slo.budget > 0
       PROVE  Degraded(slo)
  <2>1. CASE slo.budget > 0
    BY <1>10, <1>14, <2>1, ZenonT(30) DEF Degraded, hasObservedSLOSignal
  <2>2. CASE ~(slo.budget > 0) /\ OneEach(spec)
    <3>1. Max(U) >= Full
      <4> HIDE DEF U, B
      <4>1. QED  BY <1>10, <1>11, <2>2 DEF Full
    <3>2. PICK o \in all : Max(U) = used[o]
      <4> DEFINE m == Max(U)
      <4>1. m \in U /\ m >= Full
        BY <1>11, <3>1, ZenonT(30)
      <4> HIDE DEF m, used, all
      <4>2. m # 0
        BY <4>1 DEF Full
      <4>3. \E o \in all : m = used[o]
        BY <4>1, <4>2, Zenon
      <4>4. QED  BY <4>3, Zenon DEF m
    <3>3. burn(o) > 0
      BY <1>4, <3>1, <3>2, Zenon
    <3>4. burn(o) <= slo.burn /\ slo.burn \in Int
      BY <1>10, <1>12, <1>13, <2>2, Zenon
    <3>5. burn(o) \in Int
      <4> DEFINE b == burn(o)
      <4>1. b \in Nat \cup {NaN}
        BY <1>2, Zenon
      <4> HIDE DEF b
      <4>2. QED  BY <4>1 DEF NaN, b
    <3>6. slo.burn > 0
      BY <3>3, <3>4, <3>5
    <3>7. QED  BY <1>10, <1>14, <3>6, ZenonT(30) DEF Degraded, hasObservedSLOSignal
  <2>3. QED  BY <1>14, <2>1, <2>2, Zenon
<1>15. Degraded(slo) => Violated(spec, reading)
  BY <1>10, Zenon DEF Degraded
<1>16. BurnRates(spec, reading) = {burn(o) : o \in all}
  BY Zenon DEF BurnRates
<1>17. QED  BY <1>13, <1>14, <1>15, <1>16, Zenon DEF SeenAs, slo

-----------------------------------------------------------------------------
(* The solver's candidates and their scores. *)

Plans == [replicas : Nat, cpu : Nat, mem : Nat, spot : Nat]

\* An input as buildSolverInput makes it.
TypedInput(in) ==
  /\ in.current \in Plans /\ in.current.replicas >= 1
  /\ in.right \in SUBSET (Nat \X Nat) /\ IsFiniteSet(in.right)
  /\ IsFiniteSet(in.forecast)

LEMMA CostType ==
  ASSUME NEW plan \in Plans
  PROVE  estimateCost(plan) \in Int
<1> DEFINE n == plan.replicas
           k == SpotCount(plan)
           size == planResourceShare(plan)
<1>1. n \in Nat /\ plan.cpu \in Nat /\ plan.mem \in Nat /\ plan.spot \in Nat
  BY Zenon DEF Plans
<1>2. k \in Nat
  <2>1. \A a, b \in Nat : (a * b + 5) \div 10 \in Nat
    OBVIOUS
  <2>2. QED  BY <1>1, <2>1, Zenon DEF SpotCount
<1>3. size \in Nat
  BY <1>1, PairExtremes DEF planResourceShare
<1>4. estimateCost(plan) = (10 * (n - k) + 3 * k) * size
  BY Zenon DEF estimateCost
<1> HIDE DEF n, k, size
<1>5. QED  BY <1>1, <1>2, <1>3, <1>4

\* A candidate has one of the two sizes, a spot ratio of the tables or of the plan
\* in force, and a multiple of its replicas.
Shapes(in) == (0 .. 200) \X (({Size(in.current)} \cup in.right) \X (0 .. in.current.spot + 10))

Shaped(in, x) ==
  Costed(Plan(AtLeastOne(Times(AtLeastOne(in.current.replicas), x[1])), x[2][1], x[2][2]))

LEMMA CandidateShapes ==
  ASSUME NEW in, TypedInput(in)
  PROVE  Candidates(in) \in SUBSET {Shaped(in, x) : x \in Shapes(in)}
<1> DEFINE cur == in.current
           base == AtLeastOne(cur.replicas)
           size == Size(cur)
           sizes == {size} \cup in.right
           All == {Shaped(in, x) : x \in Shapes(in)}
<1>1. cur \in Plans /\ cur.replicas \in Nat /\ cur.replicas >= 1 /\ cur.spot \in Nat
      /\ base = cur.replicas
  BY DEF TypedInput, Plans, AtLeastOne
<1>2. ASSUME NEW m \in 0 .. 200, NEW s \in sizes, NEW r \in 0 .. cur.spot + 10
      PROVE  Costed(Plan(AtLeastOne(Times(base, m)), s, r)) \in All
  <2> DEFINE x == <<m, <<s, r>>>>
  <2>1. x \in Shapes(in) /\ x[1] = m /\ x[2][1] = s /\ x[2][2] = r
    BY Zenon DEF Shapes
  <2>2. Shaped(in, x) = Costed(Plan(AtLeastOne(Times(base, m)), s, r))
    BY <2>1, Zenon DEF Shaped
  <2> HIDE DEF x
  <2>3. QED  BY <2>1, <2>2, Zenon
<1>3. GenerateCandidates(in) \in SUBSET All
  <2>1. replicaMultipliers \in SUBSET (0 .. 200)
    BY DEF replicaMultipliers
  <2>2. spotRatioVariants \in SUBSET (0 .. cur.spot + 10)
    BY <1>1 DEF spotRatioVariants
  <2> HIDE DEF All, base, sizes
  <2>3. \A c \in GenerateCandidates(in) :
          \E m \in replicaMultipliers, s \in sizes, r \in spotRatioVariants :
            c = Costed(Plan(AtLeastOne(Times(base, m)), s, r))
    BY DEF GenerateCandidates, base, sizes
  <2> SUFFICES ASSUME NEW c \in GenerateCandidates(in) PROVE c \in All
    BY Zenon
  <2>4. PICK m \in replicaMultipliers, s \in sizes, r \in spotRatioVariants :
          c = Costed(Plan(AtLeastOne(Times(base, m)), s, r))
    BY <2>3, Zenon
  <2>5. m \in 0 .. 200 /\ r \in 0 .. cur.spot + 10
    BY <2>1, <2>2, Zenon
  <2>6. QED  BY <1>2, <2>4, <2>5, Zenon
<1>4. PreWarmingCandidates(in) \in SUBSET All
  <2> SUFFICES ASSUME NEW m \in preWarmingMultipliers, Times(base, m) > base
               PROVE  Costed(Plan(Times(base, m), size, cur.spot)) \in All
    BY Zenon DEF PreWarmingCandidates
  <2>1. m \in 0 .. 200
    BY DEF preWarmingMultipliers
  <2>2. Times(base, m) \in Nat /\ AtLeastOne(Times(base, m)) = Times(base, m)
    BY <1>1, <2>1 DEF Times, AtLeastOne
  <2>3. size \in sizes /\ cur.spot \in 0 .. cur.spot + 10
    BY <1>1
  <2>4. Costed(Plan(AtLeastOne(Times(base, m)), size, cur.spot)) \in All
    BY <1>2, <2>1, <2>3, Zenon
  <2>5. QED  BY <2>2, <2>4, Zenon
<1>5. SpotReductionCandidates(in) \in SUBSET All
  <2> SUFFICES ASSUME NEW r \in spotReductionRatios
               PROVE  Costed(Plan(base, size, r)) \in All
    BY Zenon DEF SpotReductionCandidates
  <2>1. r \in 0 .. cur.spot + 10 /\ size \in sizes /\ 100 \in 0 .. 200
    BY <1>1 DEF spotReductionRatios
  <2>2. AtLeastOne(Times(base, 100)) = base /\ base \in Nat
    BY <1>1 DEF Times, AtLeastOne
  <2>3. Costed(Plan(AtLeastOne(Times(base, 100)), size, r)) \in All
    BY <1>2, <2>1, Zenon
  <2>4. QED  BY <2>2, <2>3, Zenon
<1> HIDE DEF All
<1>6. Candidates(in) \in SUBSET All
  BY <1>3, <1>4, <1>5, Zenon DEF Candidates
<1>7. QED  BY <1>6, Zenon DEF All

LEMMA CandidateTypes ==
  ASSUME NEW in, TypedInput(in)
  PROVE  /\ IsFiniteSet(Candidates(in))
         /\ \A c \in Candidates(in) : c.plan \in Plans /\ c.cost \in Int
<1> DEFINE sizes == {Size(in.current)} \cup in.right
           spots == 0 .. in.current.spot + 10
           f == [x \in Shapes(in) |-> Shaped(in, x)]
<1>1. /\ in.current.replicas \in Nat /\ in.current.cpu \in Nat /\ in.current.mem \in Nat
      /\ in.current.spot \in Nat /\ in.current.replicas >= 1
      /\ in.right \in SUBSET (Nat \X Nat) /\ IsFiniteSet(in.right)
  BY Zenon DEF TypedInput, Plans
<1>2. IsFiniteSet(Shapes(in))
  <2>1. IsFiniteSet(sizes)
    BY <1>1, FS_Singleton, FS_Union, Zenon
  <2>2. IsFiniteSet(spots) /\ IsFiniteSet(0 .. 200)
    <3>1. in.current.spot + 10 \in Int /\ 0 \in Int /\ 200 \in Int
      BY <1>1
    <3>2. QED  BY <3>1, FS_Interval, Zenon
  <2> HIDE DEF sizes, spots
  <2>3. IsFiniteSet(sizes \X spots)
    BY <2>1, <2>2, FS_Product, Zenon
  <2>4. IsFiniteSet((0 .. 200) \X (sizes \X spots))
    BY <2>2, <2>3, FS_Product, ZenonT(30)
  <2>5. QED  BY <2>4, Zenon DEF Shapes, sizes, spots
<1>3. IsFiniteSet({Shaped(in, x) : x \in Shapes(in)})
  <2>1. DOMAIN f = Shapes(in) /\ {f[x] : x \in Shapes(in)} = {Shaped(in, x) : x \in Shapes(in)}
    BY Zenon
  <2> HIDE DEF f
  <2>2. IsFiniteSet({f[x] : x \in Shapes(in)})
    BY <1>2, <2>1, ImageFinite, Zenon
  <2>3. QED  BY <2>1, <2>2, Zenon
<1>4. IsFiniteSet(Candidates(in))
  BY <1>3, CandidateShapes, FS_Subset, Zenon
<1>5. ASSUME NEW x \in Shapes(in) PROVE Shaped(in, x).plan \in Plans /\ Shaped(in, x).cost \in Int
  <2> DEFINE n == AtLeastOne(Times(AtLeastOne(in.current.replicas), x[1]))
             plan == Plan(n, x[2][1], x[2][2])
  <2>1. x[1] \in 0 .. 200 /\ x[2][1] \in sizes /\ x[2][2] \in spots
    BY Zenon DEF Shapes
  <2>2. x[2][1] \in Nat \X Nat /\ x[2][2] \in Nat
    BY <1>1, <2>1 DEF Size
  <2>3. n \in Nat
    <3>1. \A a \in Nat, b \in 0 .. 200 : (a * b + 50) \div 100 \in Nat
      OBVIOUS
    <3>2. QED  BY <1>1, <2>1, <3>1, Zenon DEF AtLeastOne, Times
  <2> HIDE DEF n
  <2>4. plan \in Plans
    BY <2>2, <2>3, Zenon DEF Plan, Plans
  <2> HIDE DEF plan
  <2>5. Costed(plan).plan = plan /\ Costed(plan).cost = estimateCost(plan)
    BY Zenon DEF Costed
  <2>6. Shaped(in, x) = Costed(plan)
    BY Zenon DEF Shaped, plan, n
  <2>7. QED  BY <2>4, <2>5, <2>6, CostType, Zenon
<1>6. QED  BY <1>4, <1>5, CandidateShapes, Zenon

\* The SLO score is a share of One.  A degraded service gets none for fewer
\* replicas, and at least a fifth otherwise.
LEMMA ScoreSLOBounds ==
  ASSUME NEW in, TypedInput(in), NEW plan \in Plans
  PROVE  /\ scoreSLO(in, plan) \in Nat
         /\ Degraded(in.slo) =>
              IF plan.replicas < in.current.replicas THEN scoreSLO(in, plan) = 0
              ELSE scoreSLO(in, plan) >= 240
<1> DEFINE base == AtLeastOne(in.current.replicas)
           n == plan.replicas
           bonus == IF in.slo.burn >= 100000 THEN 240 ELSE IF in.slo.burn >= 10000 THEN 120 ELSE 0
           more == Min({n - base, base})
<1>1. base \in Nat /\ base >= 1 /\ base = in.current.replicas /\ n \in Nat
  BY DEF TypedInput, Plans, AtLeastOne
<1>2. bonus \in {0, 120, 240}
  OBVIOUS
<1> HIDE DEF base, n, bonus
<1>3. CASE ~Degraded(in.slo)
  BY <1>3 DEF scoreSLO, One
<1>4. CASE Degraded(in.slo)
  <2>1. scoreSLO(in, plan) = scoreDegradedSLO(in, plan)
    BY <1>4 DEF scoreSLO
  <2>2. scoreDegradedSLO(in, plan)
          = IF n < base THEN 0
            ELSE IF n = base THEN Min({240 + bonus, 480})
            ELSE Min({720 + (360 * more) \div base + bonus, One})
    BY DEF scoreDegradedSLO, base, n, bonus
  <2>10. \A a, b \in Int : Min({a, b}) = IF a <= b THEN a ELSE b
    BY PairExtremes, Zenon
  <2>3. Min({240 + bonus, 480}) = 240 + bonus
    <3>1. 240 + bonus \in Int /\ 480 \in Int /\ 240 + bonus <= 480
      BY <1>2
    <3>2. QED  BY <2>10, <3>1, ZenonT(90)
  <2>4. ~(n < base) => more \in Nat
    <3>1. n - base \in Int /\ base \in Int /\ (~(n < base) => n - base \in Nat) /\ base \in Nat
      BY <1>1
    <3>2. more = IF n - base <= base THEN n - base ELSE base
      BY <2>10, <3>1, Zenon
    <3> HIDE DEF more
    <3>3. QED  BY <3>1, <3>2, Zenon
  <2> HIDE DEF more
  <2>5. ~(n < base) => (360 * more) \div base \in Nat
    BY <1>1, <2>4
  <2> DEFINE q == (360 * more) \div base
  <2> HIDE DEF q
  <2>6. ~(n < base) => Min({720 + q + bonus, One}) \in Nat /\ Min({720 + q + bonus, One}) >= 240
    <3>1. ASSUME ~(n < base) PROVE q \in Nat /\ 720 + q + bonus \in Int /\ One \in Int
      BY <1>2, <2>5, <3>1 DEF q, One
    <3>2. ASSUME ~(n < base)
          PROVE  Min({720 + q + bonus, One}) = IF 720 + q + bonus <= One THEN 720 + q + bonus ELSE One
      BY <2>10, <3>1, <3>2, ZenonT(90)
    <3>3. QED  BY <1>2, <3>1, <3>2 DEF One
  <2>7. scoreSLO(in, plan)
          = IF n < base THEN 0 ELSE IF n = base THEN 240 + bonus ELSE Min({720 + q + bonus, One})
    BY <2>1, <2>2, <2>3, ZenonT(90)  DEF q
  <2>8. scoreSLO(in, plan) \in Nat /\ IF n < base THEN scoreSLO(in, plan) = 0 ELSE scoreSLO(in, plan) >= 240
    BY <1>1, <1>2, <2>6, <2>7
  <2>9. QED  BY <1>1, <2>8, ZenonT(30) DEF n
<1>5. QED  BY <1>3, <1>4, Zenon

\* A scored candidate: the SLO score and the cost score times a common factor, and
\* the weighted score a combination of the two that never falls with either.
ScoredBy(in, s, w, spread) ==
  /\ s = [plan |-> s.plan, slo |-> s.slo, cost |-> s.cost, unit |-> s.unit, weighted |-> s.weighted]
  /\ s.plan \in Plans
  /\ s.slo = scoreSLO(in, s.plan) * spread
  /\ s.cost \in Nat
  /\ s.unit = One * spread * w.total
  /\ s.weighted = w.slo * s.slo + (w.cost + w.carbon) * s.cost + w.fairness * One * spread

LEMMA Scored ==
  ASSUME NEW in, TypedInput(in)
  PROVE  /\ IsFiniteSet(ScoreAll(in, Candidates(in)))
         /\ \E spread \in Nat \ {0} :
              \A s \in ScoreAll(in, Candidates(in)) : ScoredBy(in, s, Weights(in), spread)
<1> DEFINE C == Candidates(in)
           cost == [c \in C |-> c.cost]
           costs == {c.cost : c \in C}
           least == Min(costs)
           most == Max(costs)
           spread == IF most = least THEN 1 ELSE most - least
           w == Weights(in)
           cheap(c) == IF most = least THEN One ELSE One * (most - c.cost)
           slo(c) == scoreSLO(in, c.plan) * spread
           score(c) == [plan |-> c.plan, slo |-> slo(c), cost |-> cheap(c), unit |-> One * spread * w.total,
                        weighted |-> w.slo * slo(c) + (w.cost + w.carbon) * cheap(c) + w.fairness * One * spread]
<1>1. IsFiniteSet(C) /\ \A c \in C : c.plan \in Plans /\ c.cost \in Int
  BY CandidateTypes, Zenon
<1>2. ScoreAll(in, C) = {score(c) : c \in C}
  BY Zenon DEF ScoreAll
<1> HIDE DEF C, w
<1>3. IsFiniteSet(ScoreAll(in, C))
  <2> DEFINE f == [c \in C |-> score(c)]
  <2>1. DOMAIN f = C /\ {f[c] : c \in C} = {score(c) : c \in C}
    <3> HIDE DEF score
    <3>1. QED  BY Zenon
  <2> HIDE DEF f, score
  <2>2. IsFiniteSet({f[c] : c \in C})
    BY <1>1, <2>1, ImageFinite
  <2>3. QED  BY <1>2, <2>1, <2>2, Zenon
<1>4. CASE C = {}
  <2>1. ScoreAll(in, C) = {} /\ 1 \in Nat \ {0}
    BY <1>2, <1>4
  <2>2. QED  BY <1>3, <2>1, Zenon DEF C
<1>5. CASE C # {}
  <2>1. IsFiniteSet(costs)
    <3>1. DOMAIN cost = C /\ {cost[c] : c \in C} = costs
      BY Zenon
    <3> HIDE DEF cost, costs
    <3>2. IsFiniteSet({cost[c] : c \in C})
      BY <1>1, <3>1, ImageFinite, Zenon
    <3>3. QED  BY <3>1, <3>2, Zenon
  <2>2. costs \in SUBSET Int /\ costs # {}
    BY <1>1, <1>5, Zenon
  <2>3. \A c \in C : c.cost \in costs
    BY Zenon
  <2> HIDE DEF costs
  <2>4. /\ least \in Int /\ most \in Int /\ least <= most
        /\ \A c \in C : c.cost <= most /\ c.cost \in Int
    <3>1. most \in Int /\ \A y \in costs : y <= most
      BY <2>1, <2>2, MaxOf, Zenon
    <3>2. least \in Int /\ least \in costs
      BY <2>1, <2>2, MinOf, Zenon
    <3>3. QED  BY <1>1, <2>3, <3>1, <3>2, Zenon
  <2> HIDE DEF least, most
  <2>5. spread \in Nat \ {0}
    BY <2>4
  <2> HIDE DEF spread
  <2>6. ASSUME NEW c \in C PROVE cheap(c) \in Nat
    BY <2>4 DEF One
  <2>7. ASSUME NEW c \in C PROVE ScoredBy(in, score(c), w, spread)
    <3> DEFINE s == score(c)
    <3>1. /\ s.plan = c.plan /\ s.slo = slo(c) /\ s.cost = cheap(c) /\ s.unit = One * spread * w.total
          /\ s.weighted = w.slo * slo(c) + (w.cost + w.carbon) * cheap(c) + w.fairness * One * spread
      BY Zenon
    <3>2. s = [plan |-> s.plan, slo |-> s.slo, cost |-> s.cost, unit |-> s.unit, weighted |-> s.weighted]
      BY <3>1, Zenon
    <3> HIDE DEF s
    <3>3. QED  BY <1>1, <2>6, <3>1, <3>2, Zenon DEF ScoredBy, s
  <2> HIDE DEF score
  <2>8. \A s \in ScoreAll(in, C) : ScoredBy(in, s, w, spread)
    BY <1>2, <2>7, Zenon
  <2>9. QED  BY <1>3, <2>5, <2>8, Zenon DEF C, w
<1>6. QED  BY <1>4, <1>5, Zenon

-----------------------------------------------------------------------------
(* The Pareto front. *)

\* Among finitely many, some are the best by f, and one of them the best by g.
LEMMA BestByTwo ==
  ASSUME NEW S, IsFiniteSet(S), S # {},
         NEW f, DOMAIN f = S, \A x \in S : f[x] \in Int,
         NEW g, DOMAIN g = S, \A x \in S : g[x] \in Int
  PROVE  \E x \in S : /\ \A y \in S : f[y] <= f[x]
                      /\ \A y \in S : f[y] = f[x] => g[y] <= g[x]
<1>1. PICK a \in S : \A y \in S : f[y] <= f[a]
  <2> DEFINE V == {f[x] : x \in S}
  <2>1. IsFiniteSet(V)
    BY ImageFinite, Zenon
  <2>2. V \in SUBSET Int /\ V # {}
    BY Zenon
  <2>3. PICK v \in V : \A y \in V : y <= v
    <3> HIDE DEF V
    <3>1. QED  BY <2>1, <2>2, Greatest, Zenon
  <2>4. QED  BY <2>3, Zenon
<1> DEFINE T == {x \in S : f[x] = f[a]}
           h == [x \in T |-> g[x]]
           W == {h[x] : x \in T}
<1>2. IsFiniteSet(T) /\ T \in SUBSET S /\ a \in T
  <2>1. T \in SUBSET S /\ a \in T
    BY <1>1, Zenon
  <2> HIDE DEF T
  <2>2. QED  BY <2>1, FS_Subset, Zenon
<1>3. IsFiniteSet(W)
  <2>1. DOMAIN h = T
    BY Zenon
  <2> HIDE DEF T, h
  <2>2. QED  BY <1>2, <2>1, ImageFinite, ZenonT(30)
<1>4. \A x \in T : h[x] = g[x] /\ h[x] \in Int
  BY <1>2, Zenon
<1>5. W \in SUBSET Int /\ W # {}
  <2> HIDE DEF T, h
  <2>1. QED  BY <1>2, <1>4, Zenon
<1>6. PICK b \in T : \A y \in T : h[y] <= h[b]
  <2>1. PICK v \in W : \A y \in W : y <= v
    <3> HIDE DEF W
    <3>1. QED  BY <1>3, <1>5, Greatest, Zenon
  <2> HIDE DEF T, h
  <2>2. QED  BY <2>1, Zenon
<1>7. \A y \in T : g[y] <= g[b]
  <2> HIDE DEF T, h
  <2>1. QED  BY <1>4, <1>6, Zenon
<1>8. b \in S /\ f[b] = f[a]
  BY <1>6, Zenon
<1>9. \A y \in S : f[y] = f[b] => g[y] <= g[b]
  BY <1>7, <1>8, Zenon
<1>10. QED  BY <1>1, <1>8, <1>9, Zenon

Rated(V) == IsFiniteSet(V) /\ \A s \in V : s.slo \in Nat /\ s.cost \in Nat

\* The front has a candidate with at least the SLO score of any other: the
\* cheapest of those with the highest one.
LEMMA FrontReachesSLO ==
  ASSUME NEW V, Rated(V), NEW s \in V
  PROVE  \E t \in FindParetoFront(V) : t.slo >= s.slo
<1> DEFINE f == [x \in V |-> x.slo]
           g == [x \in V |-> x.cost]
<1>1. /\ IsFiniteSet(V) /\ V # {} /\ DOMAIN f = V /\ DOMAIN g = V
      /\ \A x \in V : f[x] = x.slo /\ g[x] = x.cost /\ f[x] \in Int /\ g[x] \in Int
  BY DEF Rated
<1> HIDE DEF f, g
<1>2. PICK t \in V : /\ \A y \in V : f[y] <= f[t]
                     /\ \A y \in V : f[y] = f[t] => g[y] <= g[t]
  BY <1>1, BestByTwo
<1>3. ASSUME NEW a \in V PROVE ~scoreDominates(a, t)
  <2>1. /\ a.slo <= t.slo /\ (a.slo = t.slo => a.cost <= t.cost)
        /\ a.slo \in Int /\ t.slo \in Int /\ a.cost \in Int /\ t.cost \in Int
    BY <1>1, <1>2, Zenon
  <2>2. QED  BY <2>1 DEF scoreDominates
<1>4. t.slo >= s.slo
  BY <1>1, <1>2, Zenon
<1>5. QED  BY <1>2, <1>3, <1>4, Zenon DEF FindParetoFront

Combined(V, A, B, K) == \A s \in V : s.weighted = A * s.slo + B * s.cost + K

\* It has one with the highest weighted score, if that is a combination of the
\* two that are compared: the one with the highest sum of those that have it.
LEMMA FrontReachesBest ==
  ASSUME NEW V, Rated(V), V # {}, NEW A \in Nat, NEW B \in Nat, NEW K \in Nat,
         Combined(V, A, B, K)
  PROVE  \E m \in FindParetoFront(V) : \A t \in V : t.weighted <= m.weighted
<1> DEFINE f == [x \in V |-> x.weighted]
           g == [x \in V |-> x.slo + x.cost]
<1>1. \A x \in V : x.slo \in Nat /\ x.cost \in Nat /\ x.weighted \in Int
  <2>1. \A a, b \in Nat : A * a + B * b + K \in Int
    <3>1. \A a, b \in Nat : a * b \in Nat
      OBVIOUS
    <3>2. \A a, b, c \in Nat : a + b + c \in Int
      OBVIOUS
    <3>3. QED  BY <3>1, <3>2, Zenon
  <2>2. QED  BY <2>1, Zenon DEF Rated, Combined
<1>2. /\ IsFiniteSet(V) /\ DOMAIN f = V /\ DOMAIN g = V
      /\ \A x \in V : f[x] = x.weighted /\ g[x] = x.slo + x.cost /\ f[x] \in Int /\ g[x] \in Int
  BY <1>1 DEF Rated
<1> HIDE DEF f, g
<1>3. PICK m \in V : /\ \A y \in V : f[y] <= f[m]
                     /\ \A y \in V : f[y] = f[m] => g[y] <= g[m]
  BY <1>2, BestByTwo
<1>4. ASSUME NEW a \in V, scoreDominates(a, m) PROVE FALSE
  <2>1. a.slo >= m.slo /\ a.cost >= m.cost /\ (a.slo > m.slo \/ a.cost > m.cost)
    BY <1>4, Zenon DEF scoreDominates
  <2>2. \A p, q, r, t \in Nat : p >= q /\ r >= t => A * p + B * r + K >= A * q + B * t + K
    <3>1. \A x, p, q \in Nat : p >= q => x * p >= x * q
      OBVIOUS
    <3>2. ASSUME NEW p \in Nat, NEW q \in Nat, NEW r \in Nat, NEW t \in Nat, p >= q, r >= t
          PROVE  A * p + B * r + K >= A * q + B * t + K
      <4>1. A * p >= A * q /\ B * r >= B * t
        BY <3>1, <3>2, Zenon
      <4>2. A * p \in Int /\ A * q \in Int /\ B * r \in Int /\ B * t \in Int
        OBVIOUS
      <4>3. QED  BY <4>1, <4>2
    <3>3. QED  BY <3>2, Zenon
  <2>3. a.weighted >= m.weighted
    <3>1. a.weighted = A * a.slo + B * a.cost + K /\ m.weighted = A * m.slo + B * m.cost + K
      BY Zenon DEF Combined
    <3>2. QED  BY <1>1, <1>3, <2>1, <2>2, <3>1, ZenonT(30)
  <2>4. a.weighted <= m.weighted /\ (a.weighted = m.weighted => a.slo + a.cost <= m.slo + m.cost)
    BY <1>2, <1>3, Zenon
  <2>5. a.slo + a.cost <= m.slo + m.cost
    <3>1. \A x, y \in Int : x >= y /\ x <= y => x = y
      OBVIOUS
    <3>2. a.weighted = m.weighted
      BY <1>1, <1>3, <2>3, <2>4, <3>1, Zenon
    <3>3. QED  BY <2>4, <3>2, Zenon
  <2>6. QED  BY <1>1, <1>3, <2>1, <2>5
<1>5. \A t \in V : t.weighted <= m.weighted
  BY <1>2, <1>3, Zenon
<1>6. QED  BY <1>3, <1>4, <1>5, Zenon DEF FindParetoFront

-----------------------------------------------------------------------------
(* Constraints and the choice. *)

\* A plan passes if it keeps the hard constraints, as the solver sees them.
LEMMA PassedIsAllowed ==
  ASSUME NEW spec, NEW plan
  PROVE  Judged(spec, plan).passed
           <=> \A c \in spec.constraints : c.hard => Holds(c, EvalContext(plan, ZeroSLO))
<1> DEFINE ctx == EvalContext(plan, ZeroSLO)
<1>1. Judged(spec, plan) = CelEvaluate(spec, ctx)
  BY Zenon DEF Judged
<1> HIDE DEF ctx
<1>2. CelEvaluate(spec, ctx).passed = \A c \in {c \in spec.constraints : ~Holds(c, ctx)} : ~c.hard
  BY Zenon DEF CelEvaluate
<1>3. QED  BY <1>1, <1>2, Zenon DEF ctx

\* What a constraint on the candidate says does not depend on the SLO status.
LEMMA CandidateAlone ==
  ASSUME NEW c, AboutCandidate(c), NEW plan, NEW slo
  PROVE  Holds(c, EvalContext(plan, slo)) <=> Holds(c, EvalContext(plan, ZeroSLO))
<1>1. EvalContext(plan, slo).candidate = EvalContext(plan, ZeroSLO).candidate
  BY DEF EvalContext
<1> DEFINE a == EvalContext(plan, slo)
           b == EvalContext(plan, ZeroSLO)
<1> HIDE DEF a, b
<1>2. a.candidate = b.candidate
  BY <1>1, Zenon DEF a, b
<1>3. Holds(c, a) <=> Holds(c, b)
  BY <1>2 DEF Holds, AboutCandidate
<1>4. QED  BY <1>3, Zenon DEF a, b

\* What a candidate is worth after the penalties.
Worth(d, s) ==
  Penalised(s.weighted, s.unit, SoftViolations(d.input, d.compiled, s.plan))

Charged(d, s) == [s EXCEPT !.weighted = Worth(d, s)]

ViableOf(d) == {Charged(d, s) : s \in Allowed(d)}

LEMMA ViableIsCharged ==
  ASSUME NEW d
  PROVE  applyConstraints(d.input, d.compiled, ScoreAll(d.input, Candidates(d.input))) = ViableOf(d)
<1> DEFINE S == ScoreAll(d.input, Candidates(d.input))
           E == Enforced(d.input, d.compiled)
           P == {s \in S : \A p \in E : Judged(p.spec, s.plan).passed}
<1> HIDE DEF S, E
<1>1. P = Allowed(d)
  BY PassedIsAllowed, Zenon DEF Allowed, S, E
<1>2. applyConstraints(d.input, d.compiled, S) = {Charged(d, s) : s \in P}
  BY Zenon DEF applyConstraints, Charged, Worth, E
<1>3. QED  BY <1>1, <1>2, Zenon DEF ViableOf, S

\* Solve gives up, or chooses from the front one with the highest score.
LEMMA SolveChoice ==
  ASSUME NEW d, d.action \in Solve(d.input, d.compiled)
  PROVE  \/ ViableOf(d) = {} /\ d.action.type = "no_action"
         \/ \E s \in Allowed(d) :
              /\ d.action = buildAction(d.input, Charged(d, s).plan)
              /\ \A t \in FindParetoFront(ViableOf(d)) : t.weighted <= Charged(d, s).weighted
<1> DEFINE V == ViableOf(d)
           front == FindParetoFront(V)
<1>1. d.action \in IF V = {} THEN {[buildAction(d.input, d.input.current) EXCEPT !.type = "no_action"]}
                   ELSE {buildAction(d.input, s.plan) : s \in SelectBest(front, d.input.current)}
  <2> DEFINE X == applyConstraints(d.input, d.compiled, ScoreAll(d.input, Candidates(d.input)))
             Give(S) == IF S = {} THEN {[buildAction(d.input, d.input.current) EXCEPT !.type = "no_action"]}
                        ELSE {buildAction(d.input, s.plan) : s \in SelectBest(FindParetoFront(S), d.input.current)}
  <2>1. d.action \in Give(X)
    BY Zenon DEF Solve
  <2>2. X = V
    BY ViableIsCharged, Zenon
  <2> HIDE DEF X, V, Give
  <2>3. d.action \in Give(V)
    BY <2>1, <2>2, Zenon
  <2>4. QED  BY <2>3, Zenon DEF Give
<1>2. CASE V = {}
  <2>1. d.action = [buildAction(d.input, d.input.current) EXCEPT !.type = "no_action"]
    BY <1>1, <1>2, Zenon
  <2>2. QED  BY <1>2, <2>1, Zenon DEF buildAction
<1>3. CASE V # {}
  <2>1. PICK v \in SelectBest(front, d.input.current) : d.action = buildAction(d.input, v.plan)
    BY <1>1, <1>3, Zenon
  <2>2. v \in front /\ \A t \in front : t.weighted <= v.weighted
    BY <2>1, Zenon DEF SelectBest
  <2>3. v \in V
    BY <2>2, Zenon DEF FindParetoFront
  <2>4. PICK s \in Allowed(d) : v = Charged(d, s)
    BY <2>3, Zenon DEF ViableOf
  <2>5. QED  BY <2>1, <2>2, <2>4, Zenon
<1>4. QED  BY <1>2, <1>3, Zenon

\* The penalties leave the rest of a candidate alone.
LEMMA ChargedFields ==
  ASSUME NEW d, NEW s, NEW w, NEW spread, ScoredBy(d.input, s, w, spread)
  PROVE  /\ Charged(d, s).plan = s.plan /\ Charged(d, s).slo = s.slo /\ Charged(d, s).cost = s.cost
         /\ Charged(d, s).weighted = Worth(d, s)
         /\ Worth(d, s) = s.weighted => Charged(d, s) = s
<1> DEFINE x == Worth(d, s)
<1> HIDE DEF x
<1>1. PICK a, b, c, u, z : s = [plan |-> a, slo |-> b, cost |-> c, unit |-> u, weighted |-> z]
  BY Zenon DEF ScoredBy
<1>2. Charged(d, s) = [s EXCEPT !.weighted = x]
  BY Zenon DEF Charged, x
<1>3. Charged(d, s) = [plan |-> a, slo |-> b, cost |-> c, unit |-> u, weighted |-> x]
  BY <1>1, <1>2, Zenon
<1>4. s.plan = a /\ s.slo = b /\ s.cost = c /\ s.weighted = z
  BY <1>1, Zenon
<1>5. Charged(d, s).plan = a /\ Charged(d, s).slo = b /\ Charged(d, s).cost = c
      /\ Charged(d, s).weighted = x
  BY <1>3
<1>6. x = s.weighted => Charged(d, s) = s
  BY <1>1, <1>3, <1>4, Zenon
<1>7. QED  BY <1>4, <1>5, <1>6, Zenon DEF x

\* The chosen plan keeps the hard constraints of every policy in force, as the
\* solver sees them.
LEMMA ChoicePasses ==
  ASSUME NEW d, TypedInput(d.input), d.action \in Solve(d.input, d.compiled),
         d.action.type # "no_action", NEW p \in Enforced(d.input, d.compiled)
  PROVE  \A c \in p.spec.constraints : c.hard => Holds(c, EvalContext(d.action.plan, ZeroSLO))
<1>1. PICK s \in Allowed(d) : d.action = buildAction(d.input, Charged(d, s).plan)
  BY SolveChoice, Zenon
<1>2. PICK spread : ScoredBy(d.input, s, Weights(d.input), spread)
  <2>1. s \in ScoreAll(d.input, Candidates(d.input))
    BY Zenon DEF Allowed
  <2>2. QED  BY <2>1, Scored, Zenon
<1>3. Charged(d, s).plan = s.plan
  BY <1>2, ChargedFields, Zenon
<1>4. d.action.plan = s.plan
  BY <1>1, <1>3 DEF buildAction
<1>5. \A c \in p.spec.constraints : c.hard => Holds(c, EvalContext(s.plan, ZeroSLO))
  BY Zenon DEF Allowed
<1>6. QED  BY <1>4, <1>5, Zenon

\* The allowed candidates are finitely many, with scores that are not negative.
LEMMA AllowedRated ==
  ASSUME NEW d, TypedInput(d.input), NEW spread \in Nat \ {0},
         \A s \in ScoreAll(d.input, Candidates(d.input)) : ScoredBy(d.input, s, Weights(d.input), spread)
  PROVE  /\ \A s \in Allowed(d) : /\ ScoredBy(d.input, s, Weights(d.input), spread)
                                  /\ s.plan \in Plans /\ s.slo \in Nat /\ s.cost \in Nat
         /\ Rated(Allowed(d)) /\ Rated(ViableOf(d))
<1> DEFINE C == Candidates(d.input)
           A == Allowed(d)
           w == Weights(d.input)
<1>1. \A s \in A : ScoredBy(d.input, s, w, spread)
  BY Zenon DEF Allowed
<1>2. ASSUME NEW s \in A PROVE s.plan \in Plans /\ s.slo \in Nat /\ s.cost \in Nat
  <2>1. s.plan \in Plans /\ s.cost \in Nat /\ s.slo = scoreSLO(d.input, s.plan) * spread
    BY <1>1, Zenon DEF ScoredBy
  <2>2. scoreSLO(d.input, s.plan) \in Nat
    BY <2>1, ScoreSLOBounds, Zenon
  <2>3. \A a \in Nat, b \in Nat \ {0} : a * b \in Nat
    OBVIOUS
  <2>4. QED  BY <2>1, <2>2, <2>3, Zenon
<1>3. IsFiniteSet(ScoreAll(d.input, C))
  BY Scored, Zenon
<1>4. IsFiniteSet(A)
  <2>1. A \in SUBSET ScoreAll(d.input, C)
    BY Zenon DEF Allowed
  <2> HIDE DEF A, C
  <2>2. QED  BY <1>3, <2>1, FS_Subset, Zenon
<1>5. IsFiniteSet(ViableOf(d))
  <2> DEFINE f == [s \in A |-> Charged(d, s)]
  <2>1. DOMAIN f = A /\ {f[s] : s \in A} = ViableOf(d)
    BY Zenon DEF ViableOf
  <2> HIDE DEF f, A
  <2>2. IsFiniteSet({f[s] : s \in A})
    BY <1>4, <2>1, ImageFinite
  <2>3. QED  BY <2>1, <2>2, Zenon
<1>6. \A v \in ViableOf(d) : v.slo \in Nat /\ v.cost \in Nat
  <2> SUFFICES ASSUME NEW s \in A PROVE Charged(d, s).slo \in Nat /\ Charged(d, s).cost \in Nat
    BY Zenon DEF ViableOf
  <2>1. Charged(d, s).slo = s.slo /\ Charged(d, s).cost = s.cost
    BY <1>1, ChargedFields, Zenon
  <2>2. QED  BY <1>2, <2>1, Zenon
<1>7. QED  BY <1>1, <1>2, <1>4, <1>5, <1>6, Zenon DEF Rated

\* Without soft violations the chosen candidate has the highest weighted score of
\* all that are allowed.
LEMMA ChoiceIsBest ==
  ASSUME NEW d, TypedInput(d.input), d.action \in Solve(d.input, d.compiled),
         NoneNegative(Weights(d.input))
  PROVE  BestAllowed(d)
<1> DEFINE w == Weights(d.input)
           A == Allowed(d)
<1> SUFFICES ASSUME A # {}, \A s \in A : SoftViolations(d.input, d.compiled, s.plan) = 0
             PROVE  \E s \in A : s.plan = d.action.plan /\ \A t \in A : t.weighted <= s.weighted
  BY Zenon DEF BestAllowed
<1>1. PICK spread \in Nat \ {0} :
        \A s \in ScoreAll(d.input, Candidates(d.input)) : ScoredBy(d.input, s, w, spread)
  BY Scored, Zenon
<1>2. /\ \A s \in A : ScoredBy(d.input, s, w, spread) /\ s.slo \in Nat /\ s.cost \in Nat
      /\ Rated(A)
  BY <1>1, AllowedRated, Zenon
<1>3. w.slo \in Nat /\ w.cost \in Nat /\ w.carbon \in Nat /\ w.fairness \in Nat /\ w.total \in Nat
  BY Zenon DEF NoneNegative
<1> HIDE DEF w, A
<1>4. w.cost + w.carbon \in Nat /\ w.fairness * One * spread \in Nat /\ One * spread * w.total \in Nat
  <2>1. \A a, b \in Nat : a + b \in Nat /\ a * b \in Nat
    OBVIOUS
  <2>2. One \in Nat /\ spread \in Nat
    BY DEF One
  <2>3. QED  BY <1>3, <2>1, <2>2, Zenon
<1> DEFINE G == w.slo
           B == w.cost + w.carbon
           K == w.fairness * One * spread
<1>5. \A s \in A : s.weighted = G * s.slo + B * s.cost + K
  BY <1>2, Zenon DEF ScoredBy
<1>6. G \in Nat /\ B \in Nat /\ K \in Nat
  BY <1>3, <1>4, Zenon
<1> HIDE DEF G, B, K
<1>7. \A s \in A : s.weighted \in Nat
  <2>1. \A a, b \in Nat : a * b \in Nat
    OBVIOUS
  <2> SUFFICES ASSUME NEW s \in A PROVE s.weighted \in Nat
    BY Zenon
  <2> DEFINE x == G * s.slo
             y == B * s.cost
  <2>2. x \in Nat /\ y \in Nat
    BY <1>2, <1>6, <2>1, Zenon
  <2>3. s.weighted = x + y + K
    BY <1>5, Zenon
  <2> HIDE DEF x, y
  <2>4. QED  BY <1>6, <2>2, <2>3
<1>8. ASSUME NEW s \in A PROVE Charged(d, s) = s
  <2>1. SoftViolations(d.input, d.compiled, s.plan) = 0
    BY Zenon
  <2>2. Worth(d, s) = s.weighted
    BY <2>1, Zenon DEF Worth, Penalised
  <2>3. QED  BY <1>2, <2>2, ChargedFields, Zenon
<1>9. ViableOf(d) = A
  BY <1>8, Zenon DEF ViableOf, A
<1>10. PICK s \in A : /\ d.action = buildAction(d.input, s.plan)
                      /\ \A t \in FindParetoFront(A) : t.weighted <= s.weighted
  <2>1. PICK s \in Allowed(d) :
          /\ d.action = buildAction(d.input, Charged(d, s).plan)
          /\ \A t \in FindParetoFront(ViableOf(d)) : t.weighted <= Charged(d, s).weighted
    BY <1>9, SolveChoice, Zenon
  <2>2. s \in A
    BY Zenon DEF A
  <2>3. QED  BY <1>8, <1>9, <2>1, <2>2, Zenon
<1>11. PICK m \in FindParetoFront(A) : \A t \in A : t.weighted <= m.weighted
  <2>1. Rated(A) /\ A # {} /\ Combined(A, G, B, K)
    BY <1>2, <1>5, Zenon DEF Combined
  <2>2. QED  BY <1>6, <2>1, FrontReachesBest, Zenon
<1>12. m \in A
  BY <1>11, Zenon DEF FindParetoFront
<1>13. ASSUME NEW t \in A PROVE t.weighted <= s.weighted
  <2>1. t.weighted <= m.weighted /\ m.weighted <= s.weighted
    BY <1>10, <1>11, Zenon
  <2>2. t.weighted \in Nat /\ m.weighted \in Nat /\ s.weighted \in Nat
    BY <1>7, <1>10, <1>12, Zenon
  <2>3. QED  BY <2>1, <2>2
<1>14. s.plan = d.action.plan
  BY <1>10 DEF buildAction
<1>15. QED  BY <1>13, <1>14, Zenon

\* Where only the SLO counts, a degraded service's candidates with fewer replicas
\* are worth nothing and the others, less the penalty of one soft violation, are
\* worth something; the front has one of these if there is any.
LEMMA ChoiceScalesDownIfForced ==
  ASSUME NEW d, TypedInput(d.input), d.action \in Solve(d.input, d.compiled),
         NoneNegative(Weights(d.input))
  PROVE  ScaledDownIfForced(d)
<1> DEFINE w == Weights(d.input)
           A == Allowed(d)
           soft(s) == SoftViolations(d.input, d.compiled, s.plan)
           cur == d.input.current.replicas
<1> SUFFICES ASSUME Degraded(d.input.slo), w.slo > 0, w.total = w.slo,
                    w.cost = 0, w.carbon = 0, w.fairness = 0,
                    \A s \in A : soft(s) \in {0, 1},
                    d.action.type = "scale_down",
                    NEW t0 \in A, ~(t0.plan.replicas < cur)
             PROVE  FALSE
  BY Zenon DEF ScaledDownIfForced
<1>1. PICK spread \in Nat \ {0} :
        \A s \in ScoreAll(d.input, Candidates(d.input)) : ScoredBy(d.input, s, w, spread)
  BY Scored, Zenon
<1>2. /\ \A s \in A : ScoredBy(d.input, s, w, spread) /\ s.plan \in Plans /\ s.slo \in Nat /\ s.cost \in Nat
      /\ Rated(ViableOf(d))
  BY <1>1, AllowedRated, Zenon
<1>3. w.slo \in Nat \ {0}
  BY DEF NoneNegative
<1> DEFINE G == w.slo
           g == G * spread
<1>4. g \in Nat \ {0}
  <2>1. \A a, b \in Nat \ {0} : a * b \in Nat \ {0}
    OBVIOUS
  <2>2. QED  BY <1>3, <2>1, Zenon
<1>5. ASSUME NEW s \in A
      PROVE  /\ s.weighted = scoreSLO(d.input, s.plan) * g /\ s.unit \div 10 = 120 * g
             /\ s.slo = scoreSLO(d.input, s.plan) * spread
             /\ scoreSLO(d.input, s.plan) \in Nat
             /\ IF s.plan.replicas < cur THEN scoreSLO(d.input, s.plan) = 0
                ELSE scoreSLO(d.input, s.plan) >= 240
  <2> DEFINE x == scoreSLO(d.input, s.plan)
  <2>1. x \in Nat /\ IF s.plan.replicas < cur THEN x = 0 ELSE x >= 240
    BY <1>2, ScoreSLOBounds, ZenonT(30)
  <2>2. /\ s.slo = x * spread /\ s.cost \in Nat /\ s.unit = One * spread * G
        /\ s.weighted = G * s.slo + (0 + 0) * s.cost + 0 * One * spread
    BY <1>2, Zenon DEF ScoredBy
  <2> HIDE DEF x, G
  <2>3. G \in Nat /\ spread \in Nat
    BY <1>3, Zenon DEF G
  <2>4. /\ \A a, b, c \in Nat : a * (b * c) = b * (a * c) /\ a * (b * c) \in Nat
        /\ \A c \in Nat : (0 + 0) * c = 0 /\ 0 * One * c = 0
        /\ \A a \in Nat : a + 0 + 0 = a
    BY DEF One
  <2>5. \A a, b \in Nat : (One * a * b) \div 10 = 120 * (b * a)
    <3> SUFFICES ASSUME NEW a \in Nat, NEW b \in Nat PROVE (One * a * b) \div 10 = 120 * (b * a)
      BY Zenon
    <3> DEFINE z == b * a
    <3>1. z \in Nat /\ One * a * b = 1200 * z
      BY DEF One
    <3> HIDE DEF z
    <3>2. (1200 * z) \div 10 = 120 * z
      BY <3>1
    <3>3. QED  BY <3>1, <3>2 DEF z
  <2>6. s.weighted = x * g
    <3>1. s.weighted = G * (x * spread) + (0 + 0) * s.cost + 0 * One * spread
      BY <2>2, Zenon
    <3>2. x \in Nat /\ G \in Nat /\ spread \in Nat /\ s.cost \in Nat
      BY <2>1, <2>2, <2>3, Zenon
    <3>3. (0 + 0) * s.cost = 0 /\ 0 * One * spread = 0
      BY <2>4, <3>2, Zenon
    <3>4. G * (x * spread) = x * (G * spread) /\ G * (x * spread) \in Nat
      BY <2>4, <3>2, Zenon
    <3>5. s.weighted = G * (x * spread) + 0 + 0
      BY <3>1, <3>3, Zenon
    <3>6. s.weighted = G * (x * spread)
      BY <2>4, <3>4, <3>5, Zenon
    <3>7. QED  BY <3>4, <3>6, Zenon
  <2>7. s.unit \div 10 = 120 * g
    BY <2>2, <2>3, <2>5, ZenonT(30)
  <2>8. QED  BY <2>1, <2>2, <2>6, <2>7, Zenon DEF x
<1> HIDE DEF g, G, A, soft, cur
<1>6. \A x \in Nat : Max({0, x}) = x
  <2> SUFFICES ASSUME NEW x \in Nat PROVE Max({0, x}) = x
    BY Zenon
  <2>1. Max({0, x}) = IF 0 >= x THEN 0 ELSE x
    BY PairExtremes
  <2>2. QED  BY <2>1
<1>7. ASSUME NEW s \in A
      PROVE  Worth(d, s) = Max({0, scoreSLO(d.input, s.plan) * g - soft(s) * (120 * g)})
  <2> DEFINE x == scoreSLO(d.input, s.plan)
  <2>1. Worth(d, s) = Penalised(x * g, s.unit, soft(s)) /\ x \in Nat /\ s.unit \div 10 = 120 * g
    BY <1>5, Zenon DEF Worth, soft
  <2>2. x * g \in Nat /\ x * g - 0 * (120 * g) = x * g
    <3> HIDE DEF x
    <3>1. \A a, b \in Nat : a * b \in Nat /\ a * b - 0 * (120 * b) = a * b
      OBVIOUS
    <3>2. QED  BY <1>4, <2>1, <3>1, Zenon
  <2>3. soft(s) = 0 => Worth(d, s) = Max({0, x * g - soft(s) * (120 * g)})
    BY <1>6, <2>1, <2>2, ZenonT(30)  DEF Penalised
  <2>4. soft(s) # 0 => Worth(d, s) = Max({0, x * g - soft(s) * (120 * g)})
    BY <2>1, Zenon DEF Penalised
  <2>5. QED  BY <2>3, <2>4, Zenon
<1>8. PICK s \in A : /\ d.action = buildAction(d.input, Charged(d, s).plan)
                     /\ \A t \in FindParetoFront(ViableOf(d)) : t.weighted <= Charged(d, s).weighted
  <2>1. d.action.type # "no_action"
    BY Zenon
  <2>2. QED  BY <2>1, SolveChoice, Zenon DEF A
<1>9. Charged(d, s).weighted = 0
  <2>1. Charged(d, s).plan = s.plan /\ Charged(d, s).weighted = Worth(d, s)
    BY <1>2, ChargedFields, Zenon
  <2>2. d.action.type = ActionType(s.plan, d.input.current)
    BY <1>8, <2>1, SMTT(30) DEF buildAction
  <2>3. s.plan.replicas \in Nat /\ cur \in Nat
    BY <1>2, Zenon DEF TypedInput, Plans, cur
  <2>4. s.plan.replicas < cur
    <3>1. ASSUME ~(s.plan.replicas < cur) PROVE d.action.type # "scale_down"
      BY <2>2, <2>3, <3>1 DEF ActionType, cur
    <3>2. QED  BY <3>1, Zenon
  <2>5. scoreSLO(d.input, s.plan) = 0
    BY <1>5, <2>4, Zenon
  <2>6. soft(s) \in {0, 1}
    BY Zenon
  <2>7. Worth(d, s) = Max({0, 0 * g - soft(s) * (120 * g)})
    BY <1>7, <2>5, Zenon
  <2>8. \A k \in {0, 1} : 0 * g - k * (120 * g) \in Int /\ 0 * g - k * (120 * g) <= 0
    BY <1>4
  <2>9. \A x \in Int : x <= 0 => Max({0, x}) = 0
    <3> SUFFICES ASSUME NEW x \in Int, x <= 0 PROVE Max({0, x}) = 0
      BY Zenon
    <3>1. Max({0, x}) = IF 0 >= x THEN 0 ELSE x
      BY PairExtremes
    <3>2. QED  BY <3>1, Zenon
  <2>10. QED  BY <2>1, <2>6, <2>7, <2>8, <2>9, Zenon
<1>10. PICK v \in FindParetoFront(ViableOf(d)) : v.slo >= t0.slo
  <2>1. Charged(d, t0) \in ViableOf(d) /\ Charged(d, t0).slo = t0.slo
    BY <1>2, ChargedFields, Zenon DEF ViableOf, A
  <2>2. QED  BY <1>2, <2>1, FrontReachesSLO, Zenon
<1>11. PICK t \in A : v = Charged(d, t)
  BY <1>10, Zenon DEF FindParetoFront, ViableOf, A
<1>12. v.slo = t.slo /\ v.weighted = Worth(d, t)
  BY <1>2, <1>11, ChargedFields, Zenon
<1>13. scoreSLO(d.input, t.plan) >= 240
  <2> DEFINE x == scoreSLO(d.input, t.plan)
             y == scoreSLO(d.input, t0.plan)
  <2>1. y >= 240 /\ y \in Nat /\ t0.slo = y * spread
    BY <1>5, Zenon
  <2>2. x \in Nat /\ t.slo = x * spread /\ IF t.plan.replicas < cur THEN x = 0 ELSE x >= 240
    BY <1>5, Zenon
  <2> HIDE DEF x, y
  <2>3. x * spread >= y * spread
    BY <1>10, <1>12, <2>1, <2>2, Zenon
  <2>4. x # 0
    <3>1. \A a \in Nat, b \in Nat \ {0} : a >= 240 => a * b > 0
      OBVIOUS
    <3>2. y * spread > 0 /\ y * spread \in Int
      BY <2>1, <3>1
    <3>3. x = 0 => x * spread = 0
      OBVIOUS
    <3>4. QED  BY <2>3, <3>2, <3>3, SMTT(30)
  <2>5. QED  BY <2>2, <2>4, Zenon DEF x
<1>14. v.weighted \in Nat /\ v.weighted > 0
  <2> DEFINE x == scoreSLO(d.input, t.plan)
  <2>1. x \in Nat /\ x >= 240
    BY <1>5, <1>13, Zenon
  <2>2. soft(t) \in {0, 1}
    BY Zenon
  <2>3. v.weighted = Max({0, x * g - soft(t) * (120 * g)})
    BY <1>7, <1>12, Zenon
  <2> HIDE DEF x
  <2>4. \A k \in {0, 1} : x * g - k * (120 * g) \in Nat /\ x * g - k * (120 * g) > 0
    <3>1. x * g >= 240 * g /\ x * g \in Nat /\ g > 0 /\ g \in Nat
      BY <1>4, <2>1
    <3> DEFINE z == x * g
    <3> HIDE DEF z
    <3>2. z >= 240 * g /\ z \in Nat
      BY <3>1, Zenon DEF z
    <3>3. \A k \in {0, 1} : z - k * (120 * g) \in Nat /\ z - k * (120 * g) > 0
      BY <3>1, <3>2
    <3>4. QED  BY <3>3, Zenon DEF z
  <2>5. QED  BY <1>6, <2>2, <2>3, <2>4, ZenonT(30)
<1>15. v.weighted <= 0
  BY <1>8, <1>9, <1>10, Zenon
<1>16. QED  BY <1>14, <1>15

-----------------------------------------------------------------------------
(* The inductive invariant. *)

\* A policy that is not in the queue is compiled, if it compiles; generations are
\* never used twice.
PolicyInv ==
  /\ nextGen \in Nat /\ DOMAIN policies = Policy
  /\ \A q \in Policy : policies[q] # NoPolicy =>
       /\ policies[q].gen \in Nat /\ policies[q].gen < nextGen
       /\ q \notin pending /\ Compiles(policies[q].spec) => PolicyKey(q, policies[q].gen) \in programs

\* A status that says whether the service complies is all of one evaluation.
FromTruth(status, t) ==
  /\ t.spec \in SloSpecs /\ t.reading \in Readings /\ Evaluates(t.spec, t.reading)
  /\ status.compliant = IF Evaluate(t.spec, t.reading).compliant THEN "True" ELSE "False"
  /\ status.budget = Evaluate(t.spec, t.reading).budget
  /\ status.burn = Evaluate(t.spec, t.reading).burn

StatusInv ==
  /\ sloSpec \in SloSpecs
  /\ DOMAIN sloStatus = {"found", "compliant", "budget", "burn"}
  /\ sloStatus.compliant \in {"None", "Unknown"} \/ FromTruth(sloStatus, truth)

\* A policy as it was found: its generation has had no other spec.
Found(p) ==
  /\ p.name \in Policy /\ p.gen \in Nat /\ p.gen < nextGen
  /\ policies[p.name] # NoPolicy /\ policies[p.name].gen = p.gen => policies[p.name].spec = p.spec

DecisionInv ==
  decision # NoDecision =>
    /\ DOMAIN decision.input = {"current", "usage", "right", "slo", "forecast", "policies"}
    /\ TypedInput(decision.input)
    /\ \A p \in decision.input.policies : Found(p)

Inv == PolicyInv /\ StatusInv /\ DecisionInv /\ KnownSLO /\ ChosenIsSound

LEMMA InitInv == Init => Inv
<1> SUFFICES ASSUME Init PROVE Inv
  BY Zenon
<1>1. PolicyInv
  BY Zenon DEF Init, PolicyInit, PolicyInv
<1>2. StatusInv
  BY Zenon DEF Init, SloInit, StatusInv
<1>3. DecisionInv /\ KnownSLO /\ ChosenIsSound
  BY Zenon DEF Init, DecisionInv, KnownSLO, ChosenIsSound
<1>4. QED  BY <1>1, <1>2, <1>3, Zenon DEF Inv

\* What a change to the policies leaves as it was.
PolicyKept == PolicyInv' /\ \A p : Found(p) => Found(p)'

LEMMA PolicySame ==
  ASSUME PolicyInv, UNCHANGED policyVars
  PROVE  PolicyKept
<1>1. /\ policies' = policies /\ nextGen' = nextGen /\ programs' = programs
      /\ pending' = pending
  BY Zenon DEF policyVars
<1>2. QED  BY <1>1, Zenon DEF PolicyKept, PolicyInv, Found, Compiles

\* A new generation is above all that were seen.
LEMMA EditKept ==
  ASSUME PolicyInv, NEW p \in Policy, NEW spec, EditPolicy(p, spec)
  PROVE  PolicyKept
<1>1. /\ policies' = [policies EXCEPT ![p] = [gen |-> nextGen, spec |-> spec]]
      /\ nextGen' = nextGen + 1 /\ pending' = pending \cup {p} /\ programs' = programs
  BY Zenon DEF EditPolicy
<1>2. nextGen \in Nat /\ DOMAIN policies = Policy
  BY Zenon DEF PolicyInv
<1>3. /\ policies'[p] = [gen |-> nextGen, spec |-> spec]
      /\ \A q \in Policy : q # p => policies'[q] = policies[q]
  BY <1>1, <1>2, Zenon
<1>4. ASSUME NEW q \in Policy, policies'[q] # NoPolicy
      PROVE  /\ policies'[q].gen \in Nat /\ policies'[q].gen < nextGen'
             /\ q \notin pending' /\ Compiles(policies'[q].spec) => PolicyKey(q, policies'[q].gen) \in programs'
  <2>1. CASE q = p
    <3>1. policies'[q].gen = nextGen /\ q \in pending'
      BY <1>1, <1>3, <2>1
    <3>2. nextGen \in Nat /\ nextGen < nextGen'
      BY <1>1, <1>2
    <3>3. QED  BY <3>1, <3>2, Zenon
  <2>2. CASE q # p
    <3>1. policies'[q] = policies[q] /\ (q \notin pending' => q \notin pending)
      BY <1>1, <1>3, <2>2, Zenon
    <3>2. /\ policies[q].gen \in Nat /\ policies[q].gen < nextGen
          /\ q \notin pending /\ Compiles(policies[q].spec) => PolicyKey(q, policies[q].gen) \in programs
      BY <1>4, <3>1, Zenon DEF PolicyInv
    <3>3. \A g \in Nat : g < nextGen => g < nextGen + 1
      BY <1>2
    <3>4. policies[q].gen < nextGen'
      BY <1>1, <3>2, <3>3, Zenon
    <3>5. policies'[q].gen \in Nat /\ policies'[q].gen < nextGen'
      BY <3>1, <3>2, <3>4, Zenon
    <3>6. programs' = programs
      BY <1>1, Zenon
    <3>7. ASSUME q \notin pending', Compiles(policies'[q].spec)
          PROVE  PolicyKey(q, policies'[q].gen) \in programs'
      BY <3>1, <3>2, <3>6, <3>7, Zenon
    <3>8. QED  BY <3>5, <3>7, Zenon
  <2>3. QED  BY <2>1, <2>2, Zenon
<1>5. nextGen' \in Nat /\ DOMAIN policies' = Policy
  BY <1>1, <1>2
<1>6. PolicyInv'
  BY <1>4, <1>5, Zenon DEF PolicyInv, Compiles, PolicyKey
<1>7. ASSUME NEW x, Found(x) PROVE Found(x)'
  <2>1. /\ x.name \in Policy /\ x.gen \in Nat /\ x.gen < nextGen
        /\ policies[x.name] # NoPolicy /\ policies[x.name].gen = x.gen => policies[x.name].spec = x.spec
    BY <1>7, Zenon DEF Found
  <2>2. x.gen < nextGen'
    BY <1>1, <1>2, <2>1
  <2>3. CASE x.name = p
    <3>1. policies'[x.name].gen # x.gen
      BY <1>2, <1>3, <2>1, <2>3
    <3>2. QED  BY <2>1, <2>2, <3>1, Zenon DEF Found
  <2>4. CASE x.name # p
    <3>1. policies'[x.name] = policies[x.name]
      BY <1>3, <2>1, <2>4, Zenon
    <3>2. QED  BY <2>1, <2>2, <3>1, Zenon DEF Found
  <2>5. QED  BY <2>3, <2>4, Zenon
<1>8. QED  BY <1>6, <1>7, Zenon DEF PolicyKept

LEMMA DeleteKept ==
  ASSUME PolicyInv, NEW p \in Policy, DeletePolicy(p)
  PROVE  PolicyKept
<1>1. /\ policies' = [policies EXCEPT ![p] = NoPolicy]
      /\ nextGen' = nextGen /\ pending' = pending \cup {p} /\ programs' = programs
  BY Zenon DEF DeletePolicy
<1>2. DOMAIN policies = Policy /\ DOMAIN policies' = Policy
  BY <1>1, Zenon DEF PolicyInv
<1>3. \A q \in Policy : policies'[q] # NoPolicy => policies'[q] = policies[q]
  BY <1>1, <1>2, Zenon
<1>4. \A q : q \notin pending' => q \notin pending
  BY <1>1, Zenon
<1>5. PolicyInv'
  BY <1>1, <1>2, <1>3, <1>4, Zenon DEF PolicyInv, Compiles, PolicyKey
<1>6. \A x : Found(x) => Found(x)'
  BY <1>1, <1>3, Zenon DEF Found
<1>7. QED  BY <1>5, <1>6, Zenon DEF PolicyKept

\* A policy leaves the queue only if it is gone or its programs are there.
LEMMA ReconcileKept ==
  ASSUME PolicyInv, NEW p \in Policy, NEW updated \in BOOLEAN, ReconcilePolicy(p, updated)
  PROVE  PolicyKept
<1>1. policies' = policies /\ nextGen' = nextGen
  BY Zenon DEF ReconcilePolicy
<1>2. programs \in SUBSET programs'
  BY Zenon DEF ReconcilePolicy, Compile
<1>3. \A q \in Policy : q # p /\ q \notin pending' => q \notin pending
  BY Zenon DEF ReconcilePolicy
<1>4. policies[p] # NoPolicy /\ Compiles(policies[p].spec) => PolicyKey(p, policies[p].gen) \in programs'
  BY Zenon DEF ReconcilePolicy, Compile
<1>5. ASSUME NEW q \in Policy, policies[q] # NoPolicy, q \notin pending', Compiles(policies[q].spec)
      PROVE  PolicyKey(q, policies[q].gen) \in programs'
  <2>1. CASE q = p
    BY <1>4, <1>5, <2>1, Zenon
  <2>2. CASE q # p
    BY <1>2, <1>3, <1>5, <2>2, Zenon DEF PolicyInv
  <2>3. QED  BY <2>1, <2>2, Zenon
<1>6. PolicyInv'
  BY <1>1, <1>5, Zenon DEF PolicyInv, Compiles, PolicyKey
<1>7. \A x : Found(x) => Found(x)'
  BY <1>1, Zenon DEF Found
<1>8. QED  BY <1>6, <1>7, Zenon DEF PolicyKept

LEMMA ForgetKept ==
  ASSUME PolicyInv, ForgetPrograms
  PROVE  PolicyKept
<1>1. policies' = policies /\ nextGen' = nextGen /\ \A q \in Policy : policies[q] # NoPolicy => q \in pending'
  BY Zenon DEF ForgetPrograms
<1>2. PolicyInv'
  BY <1>1, Zenon DEF PolicyInv, Compiles, PolicyKey
<1>3. \A x : Found(x) => Found(x)'
  BY <1>1, Zenon DEF Found
<1>4. QED  BY <1>2, <1>3, Zenon DEF PolicyKept

-----------------------------------------------------------------------------
(* The status and the decision. *)

LEMMA StatusSame ==
  ASSUME StatusInv, UNCHANGED sloVars
  PROVE  StatusInv'
<1>1. sloSpec' = sloSpec /\ sloStatus' = sloStatus /\ truth' = truth
  BY Zenon DEF sloVars
<1>2. QED  BY <1>1, Zenon DEF StatusInv, FromTruth

LEMMA ReconcileStatus ==
  ASSUME StatusInv, NEW exists \in BOOLEAN, NEW reading, exists => reading \in Readings,
         ReconcileObjective(exists, reading)
  PROVE  StatusInv'
<1>1. sloSpec \in SloSpecs /\ sloSpec' = sloSpec
  BY Zenon DEF StatusInv, ReconcileObjective
<1>2. CASE ~exists
  <2>1. sloStatus' = [sloStatus EXCEPT !.found = "False"] /\ truth' = truth
    BY <1>2, Zenon DEF ReconcileObjective
  <2>2. /\ DOMAIN sloStatus' = DOMAIN sloStatus /\ sloStatus'.compliant = sloStatus.compliant
        /\ sloStatus'.budget = sloStatus.budget /\ sloStatus'.burn = sloStatus.burn
    BY <2>1, Zenon DEF StatusInv
  <2>3. QED  BY <1>1, <2>1, <2>2, Zenon DEF StatusInv, FromTruth
<1>3. CASE exists /\ ~Evaluates(sloSpec, reading)
  <2>1. sloStatus' = [found |-> "True", compliant |-> "Unknown",
                      budget |-> sloStatus.budget, burn |-> sloStatus.burn]
    BY <1>3, Zenon DEF ReconcileObjective
  <2>2. DOMAIN sloStatus' = {"found", "compliant", "budget", "burn"} /\ sloStatus'.compliant = "Unknown"
    BY <2>1, Zenon
  <2>3. QED  BY <1>1, <2>2, Zenon DEF StatusInv
<1>4. CASE exists /\ Evaluates(sloSpec, reading)
  <2> DEFINE r == Evaluate(sloSpec, reading)
  <2>1. /\ sloStatus' = [found |-> "True", compliant |-> IF r.compliant THEN "True" ELSE "False",
                         budget |-> r.budget, burn |-> r.burn]
        /\ truth' = [spec |-> sloSpec, reading |-> reading]
    BY <1>4, Zenon DEF ReconcileObjective
  <2> HIDE DEF r
  <2>2. /\ DOMAIN sloStatus' = {"found", "compliant", "budget", "burn"}
        /\ sloStatus'.compliant = IF r.compliant THEN "True" ELSE "False"
        /\ sloStatus'.budget = r.budget /\ sloStatus'.burn = r.burn
        /\ truth'.spec = sloSpec /\ truth'.reading = reading
    BY <2>1, Zenon
  <2>3. FromTruth(sloStatus', truth')
    BY <1>1, <1>4, <2>2, Zenon DEF FromTruth, r
  <2>4. QED  BY <1>1, <2>2, <2>3, Zenon DEF StatusInv, FromTruth
<1>5. QED  BY <1>2, <1>3, <1>4, Zenon

LEMMA EditStatus ==
  ASSUME StatusInv, NEW spec \in SloSpecs, EditObjective(spec)
  PROVE  StatusInv'
<1>1. sloSpec' = spec /\ sloStatus' = sloStatus /\ truth' = truth
  BY Zenon DEF EditObjective
<1>2. QED  BY <1>1, Zenon DEF StatusInv, FromTruth

\* What is built from a load is typed.
LEMMA RightSizedType ==
  ASSUME NEW usage \in Nat, NEW replicas \in Nat \ {0}, NEW request \in Nat
  PROVE  RightSized(usage, replicas, request) \in SUBSET Nat /\ IsFiniteSet(RightSized(usage, replicas, request))
<1> DEFINE x == (13 * usage) \div (10 * replicas)
           per == Max({1, x})
<1>1. x \in Nat
  <2>1. \A a \in Nat, b \in Nat \ {0} : a \div b \in Nat
    OBVIOUS
  <2>2. 13 * usage \in Nat /\ 10 * replicas \in Nat \ {0}
    OBVIOUS
  <2>3. QED  BY <2>1, <2>2, Zenon
<1> HIDE DEF x
<1>2. per \in Nat
  <2>1. per = IF 1 >= x THEN 1 ELSE x
    BY <1>1, PairExtremes
  <2>2. QED  BY <1>1, <2>1
<1>3. RightSized(usage, replicas, request) = {per} \/ RightSized(usage, replicas, request) = {}
  BY Zenon DEF RightSized, x
<1> HIDE DEF per
<1>4. QED  BY <1>2, <1>3, FS_EmptySet, FS_Singleton, ZenonT(30)

LEMMA InputTyped ==
  ASSUME NEW status, NEW load \in Loads
  PROVE  LET in == buildSolverInput(status, load)
         IN  /\ DOMAIN in = {"current", "usage", "right", "slo", "forecast", "policies"}
             /\ TypedInput(in)
             /\ in.policies = {} /\ in.slo = buildSLOStatus(status)
<1> DEFINE in == buildSolverInput(status, load)
           read == load.current # Unreadable
           current == IF read THEN load.current ELSE Plan(1, <<8, 5>>, 0)
           usage == IF read THEN load.usage ELSE 0
           mem == IF read THEN load.mem ELSE 0
           right == RightSized(usage, current.replicas, current.cpu)
                    \X RightSized(mem, current.replicas, current.mem)
<1>1. /\ load.current = Unreadable
         \/ load.current \in [replicas : Nat \ {0}, cpu : Nat, mem : Nat, spot : Nat]
      /\ load.usage \in Nat /\ load.mem \in Nat /\ IsFiniteSet(load.ml)
  BY DecisionsAssumption, Zenon DEF LoadAssumption
<1>2. Plan(1, <<8, 5>>, 0) \in [replicas : Nat \ {0}, cpu : Nat, mem : Nat, spot : Nat]
  BY DEF Plan
<1>3. current \in [replicas : Nat \ {0}, cpu : Nat, mem : Nat, spot : Nat] /\ usage \in Nat /\ mem \in Nat
  BY <1>1, <1>2, Zenon
<1>4. in = [current |-> current, usage |-> usage, right |-> right, slo |-> buildSLOStatus(status),
            forecast |-> attachForecast(load), policies |-> {}]
  BY Zenon DEF buildSolverInput
<1> HIDE DEF current, usage, mem
<1>5. current \in Plans /\ current.replicas >= 1 /\ current.replicas \in Nat \ {0}
      /\ current.cpu \in Nat /\ current.mem \in Nat
  BY <1>3 DEF Plans
<1>6. right \in SUBSET (Nat \X Nat) /\ IsFiniteSet(right)
  <2> DEFINE a == RightSized(usage, current.replicas, current.cpu)
             b == RightSized(mem, current.replicas, current.mem)
  <2>1. a \in SUBSET Nat /\ IsFiniteSet(a) /\ b \in SUBSET Nat /\ IsFiniteSet(b)
    BY <1>3, <1>5, RightSizedType, Zenon
  <2> HIDE DEF a, b
  <2>2. IsFiniteSet(a \X b) /\ a \X b \in SUBSET (Nat \X Nat)
    BY <2>1, FS_Product, Zenon
  <2>3. QED  BY <2>2, Zenon DEF a, b
<1>7. IsFiniteSet(attachForecast(load))
  <2>1. \/ attachForecast(load) = {} \/ attachForecast(load) = load.ml
        \/ attachForecast(load) = {heuristicForecastFromHistory(load.history)}
    BY Zenon DEF attachForecast
  <2>2. IsFiniteSet({}) /\ \A x : IsFiniteSet({x})
    BY FS_EmptySet, FS_Singleton, Zenon
  <2>3. QED  BY <1>1, <2>1, <2>2, Zenon
<1> HIDE DEF right, in
<1>8. /\ DOMAIN in = {"current", "usage", "right", "slo", "forecast", "policies"}
      /\ in.current = current /\ in.right = right /\ in.slo = buildSLOStatus(status)
      /\ in.forecast = attachForecast(load) /\ in.policies = {}
  BY <1>4, Zenon
<1>9. TypedInput(in)
  BY <1>5, <1>6, <1>7, <1>8, Zenon DEF TypedInput
<1>10. QED  BY <1>8, <1>9, Zenon DEF in

\* What the invariant says of a decision that a step leaves alone or gives up.
LEMMA DecisionSame ==
  ASSUME DecisionInv, KnownSLO, ChosenIsSound, PolicyKept,
         decision' = decision \/ decision' = NoDecision
  PROVE  DecisionInv' /\ KnownSLO' /\ ChosenIsSound'
<1>1. CASE decision' = NoDecision
  BY <1>1, Zenon DEF DecisionInv, KnownSLO, ChosenIsSound
<1>2. CASE decision' = decision
  <2>1. DecisionInv'
    <3>1. SUFFICES ASSUME decision' # NoDecision
                   PROVE  /\ DOMAIN decision.input = {"current", "usage", "right", "slo", "forecast", "policies"}
                          /\ TypedInput(decision.input)
                          /\ \A p \in decision.input.policies : Found(p)'
      BY <1>2, Zenon DEF DecisionInv
    <3>2. /\ DOMAIN decision.input = {"current", "usage", "right", "slo", "forecast", "policies"}
          /\ TypedInput(decision.input)
          /\ \A p \in decision.input.policies : Found(p)
      BY <1>2, <3>1, Zenon DEF DecisionInv
    <3>3. QED  BY <3>2, Zenon DEF PolicyKept
  <2>2. KnownSLO' /\ ChosenIsSound'
    BY <1>2, Zenon DEF KnownSLO, ChosenIsSound
  <2>3. QED  BY <2>1, <2>2, Zenon
<1>3. QED  BY <1>1, <1>2, Zenon

\* The objective is listed only with a status of one evaluation.
LEMMA ListStep ==
  ASSUME Inv, NEW load \in Loads, ListObjective(load)
  PROVE  DecisionInv' /\ KnownSLO' /\ ChosenIsSound'
<1> DEFINE in == buildSolverInput(sloStatus, load)
<1>1. decision' = [stage |-> "listed", truth |-> truth, input |-> in]
  BY Zenon DEF ListObjective
<1>2. /\ DOMAIN in = {"current", "usage", "right", "slo", "forecast", "policies"}
      /\ TypedInput(in) /\ in.policies = {} /\ in.slo = buildSLOStatus(sloStatus)
  BY InputTyped, Zenon
<1> HIDE DEF in
<1>3. decision'.stage = "listed" /\ decision'.truth = truth /\ decision'.input = in
  BY <1>1, Zenon
<1>4. FromTruth(sloStatus, truth)
  BY Zenon DEF Inv, StatusInv, ListObjective, serviceObjectiveReadyForOptimization
<1>5. SeenAs(truth.spec, truth.reading, in.slo)
  BY <1>2, <1>4, EvaluationSeen, Zenon DEF FromTruth
<1>6. DecisionInv'
  BY <1>2, <1>3, Zenon DEF DecisionInv
<1>7. KnownSLO'
  BY <1>3, <1>5, Zenon DEF KnownSLO
<1>8. ChosenIsSound'
  BY <1>3, Zenon DEF ChosenIsSound
<1>9. QED  BY <1>6, <1>7, <1>8, Zenon

LEMMA FindStep ==
  ASSUME Inv, FindPolicies, PolicyKept
  PROVE  DecisionInv' /\ KnownSLO' /\ ChosenIsSound'
<1> DEFINE F == FindPoliciesForService
           in == decision.input
<1>1. /\ decision # NoDecision
      /\ decision' = [stage |-> "found", truth |-> decision.truth, input |-> [in EXCEPT !.policies = F]]
  BY Zenon DEF FindPolicies
<1>2. \A p \in F : Found(p)
  <2>1. SUFFICES ASSUME NEW q \in Policy, policies[q] # NoPolicy
                 PROVE  Found([name |-> q, gen |-> policies[q].gen, spec |-> policies[q].spec])
    BY Zenon DEF FindPoliciesForService
  <2>2. policies[q].gen \in Nat /\ policies[q].gen < nextGen
    BY <2>1, Zenon DEF Inv, PolicyInv
  <2>3. QED  BY <2>1, <2>2, Zenon DEF Found
<1>3. /\ DOMAIN in = {"current", "usage", "right", "slo", "forecast", "policies"}
      /\ TypedInput(in)
      /\ SeenAs(decision.truth.spec, decision.truth.reading, in.slo)
  BY <1>1, Zenon DEF Inv, DecisionInv, KnownSLO
<1> HIDE DEF F, in
<1>4. /\ decision'.stage = "found" /\ decision'.truth = decision.truth
      /\ decision'.input = [in EXCEPT !.policies = F]
  BY <1>1, Zenon
<1>5. /\ DOMAIN decision'.input = {"current", "usage", "right", "slo", "forecast", "policies"}
      /\ decision'.input.policies = F /\ decision'.input.slo = in.slo
      /\ decision'.input.current = in.current /\ decision'.input.right = in.right
      /\ decision'.input.forecast = in.forecast
  BY <1>3, <1>4, Zenon
<1>6. TypedInput(decision'.input)
  BY <1>3, <1>5, Zenon DEF TypedInput
<1>7. \A p \in decision'.input.policies : Found(p)'
  BY <1>2, <1>5, Zenon DEF PolicyKept
<1>8. DecisionInv'
  BY <1>5, <1>6, <1>7, Zenon DEF DecisionInv
<1>9. KnownSLO'
  BY <1>3, <1>4, <1>5, Zenon DEF KnownSLO
<1>10. ChosenIsSound'
  BY <1>4, Zenon DEF ChosenIsSound
<1>11. QED  BY <1>8, <1>9, <1>10, Zenon

LEMMA DecideStep ==
  ASSUME Inv, Decide, PolicyKept
  PROVE  DecisionInv' /\ KnownSLO' /\ ChosenIsSound'
<1> DEFINE in == decision.input
           late == {p \in in.policies : \/ p.name \in pending
                                        \/ policies[p.name] = NoPolicy
                                        \/ policies[p.name].gen # p.gen}
<1>1. PICK action \in Solve(in, programs) :
        decision' = [stage |-> "decided", truth |-> decision.truth, input |-> in,
                     action |-> action, compiled |-> programs, late |-> late]
  BY Zenon DEF Decide
<1>2. /\ TypedInput(in) /\ \A p \in in.policies : Found(p)
      /\ DOMAIN in = {"current", "usage", "right", "slo", "forecast", "policies"}
      /\ SeenAs(decision.truth.spec, decision.truth.reading, in.slo)
  BY Zenon DEF Decide, Inv, DecisionInv, KnownSLO
<1>3. \A p \in in.policies \ late : /\ p.name \notin pending /\ policies[p.name] # NoPolicy
                                    /\ policies[p.name].gen = p.gen
  BY Zenon
<1> HIDE DEF in, late
<1>4. PICK d : d = decision'
  BY Zenon
<1>5. /\ d.stage = "decided" /\ d.truth = decision.truth /\ d.input = in
      /\ d.action = action /\ d.compiled = programs /\ d.late = late
  BY <1>1, <1>4, Zenon
<1>6. /\ TypedInput(d.input) /\ d.action \in Solve(d.input, d.compiled)
      /\ DOMAIN d.input = {"current", "usage", "right", "slo", "forecast", "policies"}
      /\ SeenAs(d.truth.spec, d.truth.reading, d.input.slo)
      /\ \A p \in d.input.policies : Found(p)'
  BY <1>1, <1>2, <1>5, Zenon DEF PolicyKept
<1>7. KeepsConstraints(d)
  <2> SUFFICES ASSUME NEW p \in d.input.policies \ d.late, Compiles(p.spec), d.action.type # "no_action",
                      NEW c \in p.spec.constraints, c.hard
               PROVE  Holds(c, EvalContext(d.action.plan, IF AboutCandidate(c) THEN d.input.slo ELSE ZeroSLO))
    BY Zenon DEF KeepsConstraints
  <2>1. p \in in.policies \ late
    BY <1>5, Zenon
  <2>2. /\ Found(p) /\ p.name \notin pending /\ policies[p.name] # NoPolicy
        /\ policies[p.name].gen = p.gen
    BY <1>2, <1>3, <2>1, Zenon
  <2>3. p.name \in Policy /\ policies[p.name].spec = p.spec
    BY <2>2, Zenon DEF Found
  <2>4. PolicyKey(p.name, p.gen) \in programs
    <3>1. Compiles(policies[p.name].spec)
      BY <2>3, Zenon
    <3>2. PolicyKey(p.name, policies[p.name].gen) \in programs
      BY <2>2, <2>3, <3>1, Zenon DEF Inv, PolicyInv
    <3>3. QED  BY <2>2, <3>2, Zenon
  <2>5. p \in Enforced(d.input, d.compiled)
    BY <1>5, <2>4, Zenon DEF Enforced
  <2>6. Holds(c, EvalContext(d.action.plan, ZeroSLO))
    BY <1>6, <2>5, ChoicePasses, Zenon
  <2>7. CASE AboutCandidate(c)
    BY <2>6, <2>7, CandidateAlone, Zenon
  <2>8. CASE ~AboutCandidate(c)
    BY <2>6, <2>8, Zenon
  <2>9. QED  BY <2>7, <2>8, Zenon
<1>8. NoneNegative(Weights(d.input)) => BestAllowed(d) /\ ScaledDownIfForced(d)
  BY <1>6, ChoiceIsBest, ChoiceScalesDownIfForced, Zenon
<1>9. DecisionInv'
  BY <1>4, <1>6, Zenon DEF DecisionInv
<1>10. KnownSLO'
  BY <1>4, <1>6, Zenon DEF KnownSLO
<1>11. ChosenIsSound'
  BY <1>4, <1>7, <1>8, Zenon DEF ChosenIsSound
<1>12. QED  BY <1>9, <1>10, <1>11, Zenon

LEMMA NextInv == Inv /\ [Next]_vars => Inv'
<1> SUFFICES ASSUME Inv, [Next]_vars PROVE Inv'
  BY Zenon
<1>1. PolicyInv /\ StatusInv /\ DecisionInv /\ KnownSLO /\ ChosenIsSound
  BY Zenon DEF Inv
<1>2. UNCHANGED policyVars => PolicyKept
  BY <1>1, PolicySame, Zenon
<1>3. UNCHANGED sloVars => StatusInv'
  BY <1>1, StatusSame, Zenon
<1>4. PolicyKept /\ (decision' = decision \/ decision' = NoDecision)
        => DecisionInv' /\ KnownSLO' /\ ChosenIsSound'
  BY <1>1, DecisionSame, Zenon
<1>5. PolicyKept => PolicyInv'
  BY Zenon DEF PolicyKept
<1>6. ASSUME NEW load \in Loads, ListObjective(load) PROVE Inv'
  <2>1. UNCHANGED sloVars /\ UNCHANGED policyVars
    BY <1>6, Zenon DEF ListObjective
  <2>2. QED  BY <1>2, <1>3, <1>5, <1>6, <2>1, ListStep, Zenon DEF Inv
<1>7. CASE FindPolicies
  <2>1. UNCHANGED sloVars /\ UNCHANGED policyVars
    BY <1>7, ZenonT(30)  DEF FindPolicies
  <2>2. QED  BY <1>2, <1>3, <1>5, <1>7, <2>1, FindStep, Zenon DEF Inv
<1>8. CASE Decide
  <2>1. UNCHANGED sloVars /\ UNCHANGED policyVars
    BY <1>8, Zenon DEF Decide
  <2>2. QED  BY <1>2, <1>3, <1>5, <1>8, <2>1, DecideStep, Zenon DEF Inv
<1>9. CASE DropDecision
  <2>1. UNCHANGED sloVars /\ UNCHANGED policyVars /\ decision' = NoDecision
    BY <1>9, Zenon DEF DropDecision
  <2>2. QED  BY <1>2, <1>3, <1>4, <1>5, <2>1, Zenon DEF Inv
<1>10. ASSUME NEW exists \in BOOLEAN, NEW reading, exists => reading \in Readings,
              EvaluateObjective(exists, reading)
       PROVE  Inv'
  <2>1. ReconcileObjective(exists, reading) /\ UNCHANGED policyVars /\ decision' = decision
    BY <1>10, Zenon DEF EvaluateObjective
  <2>2. StatusInv'
    BY <1>1, <1>10, <2>1, ReconcileStatus, Zenon
  <2>3. QED  BY <1>2, <1>4, <1>5, <2>1, <2>2, Zenon DEF Inv
<1>11. ASSUME NEW spec \in SloSpecs, ChangeObjective(spec) PROVE Inv'
  <2>1. EditObjective(spec) /\ UNCHANGED policyVars /\ decision' = decision
    BY <1>11, Zenon DEF ChangeObjective
  <2>2. StatusInv'
    BY <1>1, <2>1, EditStatus, Zenon
  <2>3. QED  BY <1>2, <1>4, <1>5, <2>1, <2>2, Zenon DEF Inv
<1>12. ASSUME NEW p \in Policy, ChangePolicy(p) PROVE Inv'
  <2>1. UNCHANGED sloVars /\ decision' = decision
    BY <1>12, Zenon DEF ChangePolicy
  <2>2. DeletePolicy(p) \/ \E spec \in PolicySpecs[p] : EditPolicy(p, spec)
    BY <1>12, Zenon DEF ChangePolicy
  <2>3. PolicyKept
    BY <1>1, <2>2, DeleteKept, EditKept, Zenon
  <2>4. QED  BY <1>3, <1>4, <1>5, <2>1, <2>3, Zenon DEF Inv
<1>13. ASSUME NEW p \in Policy, CompilePolicy(p) PROVE Inv'
  <2>1. UNCHANGED sloVars /\ decision' = decision
    BY <1>13, Zenon DEF CompilePolicy, decisionVars
  <2>2. \E updated \in BOOLEAN : ReconcilePolicy(p, updated)
    BY <1>13, Zenon DEF CompilePolicy
  <2>3. PolicyKept
    BY <1>1, <2>2, ReconcileKept, Zenon
  <2>4. QED  BY <1>3, <1>4, <1>5, <2>1, <2>3, Zenon DEF Inv
<1>14. CASE Restart
  <2>1. UNCHANGED sloVars /\ decision' = NoDecision /\ ForgetPrograms
    BY <1>14, Zenon DEF Restart
  <2>2. PolicyKept
    BY <1>1, <2>1, ForgetKept, Zenon
  <2>3. QED  BY <1>3, <1>4, <1>5, <2>1, <2>2, Zenon DEF Inv
<1>15. CASE UNCHANGED vars
  <2>1. UNCHANGED sloVars /\ UNCHANGED policyVars /\ decision' = decision
    BY <1>15, Zenon DEF vars, decisionVars
  <2>2. QED  BY <1>2, <1>3, <1>4, <1>5, <2>1, Zenon DEF Inv
<1>16. ASSUME Next PROVE Inv'
  <2>1. CASE EvaluateObjective(FALSE, NoData)
    BY <1>10, <2>1, Zenon
  <2>2. CASE \E reading \in Readings : EvaluateObjective(TRUE, reading)
    BY <1>10, <2>2, Zenon
  <2>3. CASE \E load \in Loads : ListObjective(load)
    BY <1>6, <2>3, Zenon
  <2>4. CASE \E spec \in SloSpecs : ChangeObjective(spec)
    BY <1>11, <2>4, Zenon
  <2>5. CASE \E p \in Policy : ChangePolicy(p) \/ CompilePolicy(p)
    BY <1>12, <1>13, <2>5, Zenon
  <2>6. QED  BY <1>7, <1>8, <1>9, <1>14, <1>16, <2>1, <2>2, <2>3, <2>4, <2>5, Zenon DEF Next
<1>17. QED  BY <1>15, <1>16, Zenon

-----------------------------------------------------------------------------
\* Whatever is evaluated, edited or lost between the steps of the optimizer, the
\* SLO status on which it decides (buildSLOStatus) is the one of a single
\* evaluation: degraded if, and but for the budget of a doubly measured metric only
\* if, an objective was violated, and with the burn rate of the worst objective.
THEOREM KnownSLOHolds == Spec => []KnownSLO
<1>1. Inv => KnownSLO
  BY Zenon DEF Inv
<1>2. QED  BY <1>1, InitInv, NextInv, PTL DEF Spec

\* Every decision (Solve), for every set of policies, loads and objectives: it
\* keeps the hard constraints of the compiled policies on the candidate, and the
\* others as if the SLO status were zero; the search of the Pareto front alone
\* loses no better candidate; and a service that violates its SLO is scaled down
\* only if its policies, so read, forbid everything else.
THEOREM ChosenIsSoundHolds == Spec => []ChosenIsSound
<1>1. Inv => ChosenIsSound
  BY Zenon DEF Inv
<1>2. QED  BY <1>1, InitInv, NextInv, PTL DEF Spec
=============================================================================
