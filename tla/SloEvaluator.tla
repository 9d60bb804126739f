---------------------------- MODULE SloEvaluator ----------------------------
(***************************************************************************)
(* internal/slo/evaluator.go and the ServiceObjective reconciler: the      *)
(* objectives of one service are evaluated against Prometheus, and the     *)
(* outcome goes into the status that the optimizer reads.                  *)
(*                                                                         *)
(* A spec is [objectives, budget]: a sequence of [metric, target, slices], *)
(* slices being the 30-day period over the objective's window, and the     *)
(* total error budget.  Ratios (error rate, availability, budget) are in   *)
(* parts per million, latencies in 10 microseconds.  Malformed stands for  *)
(* a target or budget that does not parse, NoData for a query that fails.  *)
(***************************************************************************)
EXTENDS Integers, Sequences, FiniteSets, FiniteSetsExt

CONSTANTS
  SloSpecs,          \* the specs the ServiceObjective may have
  Readings,          \* what Prometheus may answer: a value per metric
  Malformed, NoData

VARIABLES
  sloSpec,    \* spec of the ServiceObjective
  sloStatus,  \* [found, compliant, budget, burn]: the two conditions, the
              \* budget remaining in 1/10000 and the burn rate per metric
  truth       \* history: [spec, reading] of the evaluation in the status

sloVars == <<sloSpec, sloStatus, truth>>

Latencies == {"latency_p50", "latency_p90", "latency_p95", "latency_p99"}
Metrics == Latencies \cup {"error_rate", "availability", "throughput", "custom"}

\* The two float values that are no numbers.
NaN == -1
Inf == 1000000000

Million == 1000000
Full == 10000    \* 1.0 in 1/10000

\* Targets and readings are not negative, but for a reading that is no number;
\* every objective has a window, and Prometheus is asked for every metric.
SloAssumption ==
  \A spec \in SloSpecs :
    /\ spec.budget \in Int \cup {Malformed}
    /\ spec.objectives \in Seq([metric : Metrics, target : Nat \cup {Malformed}, slices : Nat \ {0}])
    /\ \A reading \in Readings : \A i \in DOMAIN spec.objectives :
         reading[spec.objectives[i].metric] \in Nat \cup {NaN, NoData}

ASSUME SloEvaluatorAssumption == SloAssumption

SloInit ==
  /\ sloSpec \in SloSpecs
  /\ sloStatus = [found |-> "None", compliant |-> "None", budget |-> 0, burn |-> <<>>]
  /\ truth = NoData

-----------------------------------------------------------------------------
\* Latency and errors are to stay below, the others above the target; nothing
\* compares with NaN.
isCompliant(metric, actual, target) ==
  /\ actual # NaN
  /\ IF metric \in Latencies \cup {"error_rate"} THEN actual <= target ELSE actual >= target

\* Bad share in parts per million.
BadRatio(metric, actual, target) ==
  IF actual = NaN THEN NaN
  ELSE CASE metric \in Latencies ->
              IF actual <= target THEN 0
              ELSE IF actual = Inf \/ target = 0 THEN Inf
              ELSE ((actual - target) \div target) * Million + (((actual - target) % target) * Million) \div target
         [] metric = "error_rate" -> actual
         [] metric = "availability" -> IF actual >= Million THEN 0 ELSE Million - actual
         [] metric \in {"throughput", "custom"} ->
              IF actual >= target \/ target = 0 THEN 0 ELSE ((target - actual) * Million) \div target

\* In 1/10000, the precision with which the status gives it (%.4f).
computeBurnRate(metric, actual, target, budget) ==
  LET bad == BadRatio(metric, actual, target)
  IN  IF budget <= 0 THEN 0
      ELSE IF bad \in {NaN, Inf} THEN bad
      ELSE (bad \div budget) * Full + ((bad % budget) * Full + budget \div 2) \div budget

\* In 1/10000, at most 1; NaN is never above the worst.
computeBudgetUsed(burn, slices) ==
  IF burn = NaN THEN 0 ELSE Min({Full, (burn + slices \div 2) \div slices})

\* The first error ends the evaluation.
Evaluates(spec, reading) ==
  /\ spec.budget # Malformed
  /\ \A i \in DOMAIN spec.objectives : /\ reading[spec.objectives[i].metric] # NoData
                                       /\ spec.objectives[i].target # Malformed

Evaluate(spec, reading) ==
  LET burn(o) == computeBurnRate(o.metric, reading[o.metric], o.target, spec.budget)
      all     == {spec.objectives[i] : i \in DOMAIN spec.objectives}
      last(m) == Max({i \in DOMAIN spec.objectives : spec.objectives[i].metric = m})
  IN  [compliant |-> \A o \in all : isCompliant(o.metric, reading[o.metric], o.target),
       budget    |-> Full - Max({0} \cup {computeBudgetUsed(burn(o), o.slices) : o \in all}),
       burn      |-> [m \in {o.metric : o \in all} |-> burn(spec.objectives[last(m)])]]

\* Reconcile.  A target that is missing, or an evaluation that fails, leaves the
\* other parts of the status as they were.  (The condition BudgetExhausted says
\* budget < 5% and is not kept.)
ReconcileObjective(exists, reading) ==
  /\ IF ~exists
     THEN sloStatus' = [sloStatus EXCEPT !.found = "False"] /\ UNCHANGED truth
     ELSE IF ~Evaluates(sloSpec, reading)
     THEN /\ sloStatus' = [found |-> "True", compliant |-> "Unknown",
                           budget |-> sloStatus.budget, burn |-> sloStatus.burn]
          /\ UNCHANGED truth
     ELSE LET r == Evaluate(sloSpec, reading)
          IN  /\ sloStatus' = [found |-> "True", compliant |-> IF r.compliant THEN "True" ELSE "False",
                               budget |-> r.budget, burn |-> r.burn]
              /\ truth' = [spec |-> sloSpec, reading |-> reading]
  /\ UNCHANGED sloSpec

\* The update of the status is refused, as after an edit meanwhile: a stuttering
\* step.  An edit leaves the status alone.
EditObjective(spec) ==
  /\ sloSpec # spec
  /\ sloSpec' = spec
  /\ UNCHANGED <<sloStatus, truth>>
=============================================================================
