---------------------------- MODULE SolverEngine ----------------------------
(***************************************************************************)
(* internal/engine: from an input of the solver to the action it returns.  *)
(*                                                                         *)
(* An input is [current, usage, right, slo, forecast, policies]: the       *)
(* plan in force, the CPU usage, the right-sized <<cpu, mem>> (a set of at *)
(* most one), the SLO status, the forecast (likewise) and the matching     *)
(* policies.  A plan is [replicas, cpu, mem, spot]: CPU in 1/80 core,      *)
(* memory in 1/20 GiB (an m5.large has 160 of each), spot in tenths.       *)
(* Scores are exact: each is multiplied by what all of them are divided by.*)
(***************************************************************************)
EXTENDS Integers, FiniteSets, FiniteSetsExt, Functions, PolicyEngine

replicaMultipliers == {50, 75, 90, 100, 110, 125, 150, 200}   \* percent
spotRatioVariants == {0, 3, 5, 8, 10}
preWarmingMultipliers == {130, 150}
spotReductionRatios == {0, 3}

Times(n, percent) == (n * percent + 50) \div 100
AtLeastOne(n) == IF n < 1 THEN 1 ELSE n
SpotCount(plan) == (plan.replicas * plan.spot + 5) \div 10

\* The share of the instance is the larger one of CPU and memory; a plan that
\* reserves neither takes all of it.
planResourceShare(plan) ==
  IF plan.cpu = 0 /\ plan.mem = 0 THEN 160 ELSE Max({plan.cpu, plan.mem})

\* Spot capacity costs 0.3 of the rest.  In 0.096 / 1600 dollars.
estimateCost(plan) ==
  (10 * (plan.replicas - SpotCount(plan)) + 3 * SpotCount(plan)) * planResourceShare(plan)

Plan(replicas, size, spot) ==
  [replicas |-> replicas, cpu |-> size[1], mem |-> size[2], spot |-> spot]

Size(plan) == <<plan.cpu, plan.mem>>

Costed(plan) == [plan |-> plan, cost |-> estimateCost(plan)]

dominates(a, b) ==
  a.plan.replicas < b.plan.replicas /\ a.cost < b.cost /\ a.plan.spot < b.plan.spot

\* Of the product, what no other candidate beats on all three counts.  (There are
\* never more than the 100 from which on the code samples.)
GenerateCandidates(in) ==
  LET base  == AtLeastOne(in.current.replicas)
      sizes == {Size(in.current)} \cup in.right
      raw   == {Costed(Plan(AtLeastOne(Times(base, m)), s, r)) :
                  m \in replicaMultipliers, s \in sizes, r \in spotRatioVariants}
  IN  {b \in raw : \A a \in raw : ~dominates(a, b)}

PreWarmingCandidates(in) ==
  LET base == AtLeastOne(in.current.replicas)
  IN  {Costed(Plan(Times(base, m), Size(in.current), in.current.spot)) :
         m \in {m \in preWarmingMultipliers : Times(base, m) > base}}

SpotReductionCandidates(in) ==
  {Costed(Plan(AtLeastOne(in.current.replicas), Size(in.current), r)) :
     r \in {r \in spotReductionRatios : r < in.current.spot}}

Candidates(in) ==
  GenerateCandidates(in)
  \cup UNION {(IF f.change > 15 THEN PreWarmingCandidates(in) ELSE {})
              \cup (IF f.spotRisk > 60 THEN SpotReductionCandidates(in) ELSE {}) : f \in in.forecast}

-----------------------------------------------------------------------------
(* Scores. *)

One == 1200   \* the score 1.0

\* Mutant: only the burn rate counts as a signal.
hasObservedSLOSignalBurn(slo) == slo.burn > 0

hasObservedSLOSignal(slo) == slo.burn > 0 \/ slo.budget > 0

Degraded(slo) == ~slo.compliant /\ hasObservedSLOSignal(slo)

\* <<cpu, percent>>: the demand is cpu * percent / 100.  A forecast changes the
\* usage; without usage, 5 % of what is reserved counts, or of 0.01 cores.
currentDemand(in) ==
  LET percent == IF \E f \in in.forecast : f.rps > 0
                 THEN 100 + (CHOOSE f \in in.forecast : TRUE).change ELSE 100
  IN  IF in.usage * percent > 0 THEN <<in.usage, percent>>
      ELSE IF in.current.replicas * in.current.cpu > 0 THEN <<in.current.replicas * in.current.cpu, 5>>
      ELSE <<1, 4>>

\* Burn rates are in 1/10000.
scoreDegradedSLO(in, plan) ==
  LET base  == AtLeastOne(in.current.replicas)
      bonus == IF in.slo.burn >= 100000 THEN 240 ELSE IF in.slo.burn >= 10000 THEN 120 ELSE 0
      more  == Min({plan.replicas - base, base})
  IN  IF plan.replicas < base THEN 0
      ELSE IF plan.replicas = base THEN Min({240 + bonus, 480})
      ELSE Min({720 + (360 * more) \div base + bonus, One})

scoreSLO(in, plan) ==
  IF Degraded(in.slo) THEN scoreDegradedSLO(in, plan)
  ELSE LET demand   == currentDemand(in)
           reach(p) == plan.replicas * plan.cpu * 10000 >= p * demand[1] * demand[2]
       IN  IF reach(120) THEN One ELSE IF reach(100) THEN 960 ELSE IF reach(80) THEN 480 ELSE 0

\* The objectives of all policies, with the policy each is from.
collectObjectives(in) == UNION {{<<p.name, o>> : o \in p.spec.objectives} : p \in in.policies}

\* Without objectives all four count the same; an unknown name counts nothing.
Weights(in) ==
  LET objectives == collectObjectives(in)
      weight(n)  == MapThenSumSet(LAMBDA o : IF o[2].name = n THEN o[2].weight ELSE 0, objectives)
  IN  IF objectives = {} THEN [slo |-> 1, cost |-> 1, carbon |-> 1, fairness |-> 1, total |-> 4]
      ELSE LET total == MapThenSumSet(LAMBDA o : o[2].weight, objectives)
           IN  [slo |-> weight("slo"), cost |-> weight("cost"), carbon |-> weight("carbon"),
                fairness |-> weight("fairness"), total |-> IF total <= 0 THEN 1 ELSE total]

\* Carbon is cost times a constant, and no tenant is given, so fairness is 1.
\* All scores are times the spread of the costs, the weighted one times the
\* total weight too.
ScoreAll(in, candidates) ==
  LET costs  == {c.cost : c \in candidates}
      least  == Min(costs)
      most   == Max(costs)
      spread == IF most = least THEN 1 ELSE most - least
      w      == Weights(in)
      cheap(c) == IF most = least THEN One ELSE One * (most - c.cost)
      slo(c)   == scoreSLO(in, c.plan) * spread
  IN  {[plan |-> c.plan, slo |-> slo(c), cost |-> cheap(c), unit |-> One * spread * w.total,
        weighted |-> w.slo * slo(c) + (w.cost + w.carbon) * cheap(c) + w.fairness * One * spread] :
         c \in candidates}

-----------------------------------------------------------------------------
(* Constraints and selection. *)

\* Only the compiled policies have a say.
Enforced(in, compiled) == {p \in in.policies : PolicyKey(p.name, p.gen) \in compiled}

\* The solver hands over the candidate and nothing else.
Judged(spec, plan) == CelEvaluate(spec, EvalContext(plan, ZeroSLO))

\* Mutant: a candidate is viable if some policy allows it.
applyConstraintsAny(in, compiled, scored) ==
  {s \in scored : Enforced(in, compiled) # {} =>
                    \E p \in Enforced(in, compiled) : Judged(p.spec, s.plan).passed}

\* The soft violations that cost a penalty, over all policies in force.
SoftViolations(in, compiled, plan) ==
  MapThenSumSet(LAMBDA p : Judged(p.spec, plan).penalties, Enforced(in, compiled))

\* A score less a tenth for each of n violations.
Penalised(score, unit, n) == IF n = 0 THEN score ELSE Max({0, score - n * (unit \div 10)})

\* The viable candidates, with the penalties taken off.
applyConstraints(in, compiled, scored) ==
  {[s EXCEPT !.weighted = Penalised(s.weighted, s.unit, SoftViolations(in, compiled, s.plan))] :
     s \in {s \in scored : \A p \in Enforced(in, compiled) : Judged(p.spec, s.plan).passed}}

\* Carbon follows cost, and fairness is the same for all.
scoreDominates(a, b) == a.slo >= b.slo /\ a.cost >= b.cost /\ (a.slo > b.slo \/ a.cost > b.cost)

FindParetoFront(viable) == {b \in viable : \A a \in viable : ~scoreDominates(a, b)}

Squared(x) == x * x

disruption(plan, current) ==
  Squared(80 * (plan.replicas - current.replicas)) + Squared(plan.cpu - current.cpu)
  + Squared(8 * (plan.spot - current.spot))

\* Any of the best that disrupt least.
SelectBest(front, current) ==
  LET top == {s \in front : \A t \in front : t.weighted <= s.weighted}
  IN  {s \in top : \A t \in top : disruption(s.plan, current) <= disruption(t.plan, current)}

ActionType(plan, current) ==
  CASE plan.replicas > current.replicas -> "scale_up"
    [] plan.replicas < current.replicas -> "scale_down"
    [] plan.replicas = current.replicas ->
         IF plan.cpu # current.cpu \/ plan.mem # current.mem THEN "tune" ELSE "no_action"

buildAction(in, plan) ==
  [type |-> ActionType(plan, in.current), plan |-> plan,
   dryRun |-> \E p \in in.policies : p.spec.dryRun]

\* The actions that Solve may return.
Solve(in, compiled) ==
  LET viable == applyConstraints(in, compiled, ScoreAll(in, Candidates(in)))
  IN  IF viable = {} THEN {[buildAction(in, in.current) EXCEPT !.type = "no_action"]}
      ELSE {buildAction(in, s.plan) : s \in SelectBest(FindParetoFront(viable), in.current)}
=============================================================================
