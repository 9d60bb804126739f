----------------------------- MODULE Decisions ------------------------------
(***************************************************************************)
(* The way to a decision in internal/controller: while ServiceObjective    *)
(* and OptimizationPolicies are edited and reconciled, the optimizer lists *)
(* the objective, builds the solver's input, looks up the policies and     *)
(* solves.  What becomes of the action is OptimizerLoop.                   *)
(*                                                                         *)
(* What the optimizer finds in the cluster and in Prometheus may be        *)
(* different each time: a load is [current, usage, mem, history, ml], the  *)
(* Deployment's plan (or Unreadable), the CPU and memory usage, the demand *)
(* history and the answer of the ML service (a set, empty if there is      *)
(* none).                                                                  *)
(***************************************************************************)
EXTENDS SloEvaluator, SolverEngine

CONSTANTS
  Loads,
  MinPoints,     \* ForecastMinPoints
  MaxChanges,    \* bound on edits, evaluations and restarts
  Unreadable, NoDecision

VARIABLES
  decision,   \* optimizeService at work: its stage and what it has read so far
  changes     \* number of edits, evaluations and restarts

\* A Deployment has at least one replica (readCurrentState takes none as one),
\* nothing requested or used is negative.
LoadAssumption ==
  \A load \in Loads :
    /\ \/ load.current = Unreadable
       \/ load.current \in [replicas : Nat \ {0}, cpu : Nat, mem : Nat, spot : Nat]
    /\ load.usage \in Nat /\ load.mem \in Nat
    /\ IsFiniteSet(load.ml)

ASSUME DecisionsAssumption == LoadAssumption

decisionVars == <<decision, changes>>
vars == <<sloVars, policyVars, decisionVars>>

Init ==
  /\ SloInit
  /\ PolicyInit
  /\ decision = NoDecision
  /\ changes = 0

-----------------------------------------------------------------------------
serviceObjectiveReadyForOptimization(status) ==
  status.found = "True" /\ status.compliant \notin {"None", "Unknown"}

\* The highest burn rate; one that is not a number is passed over.
buildSLOStatus(status) ==
  [compliant |-> status.compliant = "True",
   budget    |-> status.budget,
   burn      |-> Max({0} \cup {status.burn[m] : m \in DOMAIN status.burn})]

\* The change from the first half's mean to the second's, in percent.
heuristicForecastFromHistory(h) ==
  LET mid    == Len(h) \div 2
      old    == SumFunction([i \in 1 .. mid |-> h[i]]) * (Len(h) - mid)
      new    == SumFunction([i \in mid + 1 .. Len(h) |-> h[i]]) * mid
      change == IF old = 0 THEN IF new > 0 THEN 100 ELSE 0 ELSE ((new - old) * 100) \div old
  IN  [rps |-> new, change |-> Max({-90, Min({500, change})}), spotRisk |-> 0]

\* None without enough history; the trend if the ML service does not answer.
attachForecast(load) ==
  IF load.history = NoData THEN {}
  ELSE IF Len(load.history) < MinPoints THEN {}
  ELSE IF load.ml # {} THEN load.ml
  ELSE {heuristicForecastFromHistory(load.history)}

\* 1.3 times the usage of a replica, if it differs by more than a fifth.
RightSized(usage, replicas, request) ==
  LET per  == Max({1, (13 * usage) \div (10 * replicas)})
      diff == IF per > request THEN per - request ELSE request - per
  IN  IF usage > 0 /\ 5 * diff > request THEN {per} ELSE {}

\* A Deployment that cannot be read counts as one small replica without usage.
buildSolverInput(status, load) ==
  LET read    == load.current # Unreadable
      current == IF read THEN load.current ELSE Plan(1, <<8, 5>>, 0)
      usage   == IF read THEN load.usage ELSE 0
      mem     == IF read THEN load.mem ELSE 0
  IN  [current  |-> current,
       usage    |-> usage,
       right    |-> RightSized(usage, current.replicas, current.cpu)
                    \X RightSized(mem, current.replicas, current.mem),
       slo      |-> buildSLOStatus(status),
       forecast |-> attachForecast(load),
       policies |-> {}]

-----------------------------------------------------------------------------
\* The cycle lists the ServiceObjective, skips it if it is not ready and builds
\* the input from what it finds in the cluster.
ListObjective(load) ==
  /\ decision = NoDecision
  /\ serviceObjectiveReadyForOptimization(sloStatus)
  /\ decision' = [stage |-> "listed", truth |-> truth, input |-> buildSolverInput(sloStatus, load)]
  /\ UNCHANGED <<sloVars, policyVars, changes>>

\* (A failed look-up ends the service's turn, as DropDecision does.)
FindPolicies ==
  /\ decision # NoDecision
  /\ decision.stage = "listed"
  /\ decision' = [stage |-> "found", truth |-> decision.truth,
                  input |-> [decision.input EXCEPT !.policies = FindPoliciesForService]]
  /\ UNCHANGED <<sloVars, policyVars, changes>>

\* late: policies changed since the look-up, or that wait to be compiled.
Decide ==
  /\ decision # NoDecision
  /\ decision.stage = "found"
  /\ LET in == decision.input
     IN  \E action \in Solve(in, programs) :
           decision' = [stage |-> "decided", truth |-> decision.truth, input |-> in,
                        action |-> action, compiled |-> programs,
                        late |-> {p \in in.policies : \/ p.name \in pending
                                                      \/ policies[p.name] = NoPolicy
                                                      \/ policies[p.name].gen # p.gen}]
  /\ UNCHANGED <<sloVars, policyVars, changes>>

\* The decision goes to the journal, whose errors are ignored, and, if it is not
\* "no_action", to the actuator; or the cycle was given up.
DropDecision ==
  /\ decision # NoDecision
  /\ decision.stage \in {"listed", "decided"}
  /\ decision' = NoDecision
  /\ UNCHANGED <<sloVars, policyVars, changes>>

Changes == changes < MaxChanges /\ changes' = changes + 1

EvaluateObjective(exists, reading) ==
  ReconcileObjective(exists, reading) /\ Changes /\ UNCHANGED <<policyVars, decision>>

ChangeObjective(spec) == EditObjective(spec) /\ Changes /\ UNCHANGED <<policyVars, decision>>

ChangePolicy(p) ==
  /\ DeletePolicy(p) \/ \E spec \in PolicySpecs[p] : EditPolicy(p, spec)
  /\ Changes /\ UNCHANGED <<sloVars, decision>>

CompilePolicy(p) ==
  (\E updated \in BOOLEAN : ReconcilePolicy(p, updated)) /\ UNCHANGED <<sloVars, decisionVars>>

Restart == ForgetPrograms /\ decision' = NoDecision /\ Changes /\ UNCHANGED sloVars

Next ==
  \/ \E load \in Loads : ListObjective(load)
  \/ FindPolicies
  \/ Decide
  \/ DropDecision
  \/ EvaluateObjective(FALSE, NoData)
  \/ \E reading \in Readings : EvaluateObjective(TRUE, reading)
  \/ \E spec \in SloSpecs : ChangeObjective(spec)
  \/ \E p \in Policy : ChangePolicy(p) \/ CompilePolicy(p)
  \/ Restart

\* The reconciler's workers take every policy from the queue.
Spec == Init /\ [][Next]_vars /\ \A p \in Policy : WF_vars(CompilePolicy(p))

-----------------------------------------------------------------------------
\* The candidates that keep the hard constraints of every policy in force, as
\* the solver sees them.
Allowed(d) ==
  {s \in ScoreAll(d.input, Candidates(d.input)) :
     \A p \in Enforced(d.input, d.compiled) :
       \A c \in p.spec.constraints : c.hard => Holds(c, EvalContext(s.plan, ZeroSLO))}

\* Constraints that speak of the candidate alone.
AboutCandidate(c) == c.expr \in {"atMostTwo", "noSpot"}

NoneNegative(w) == w \in [slo : Nat, cost : Nat, carbon : Nat, fairness : Nat, total : Nat]

KeepsConstraints(d) ==
  \A p \in d.input.policies \ d.late :
    Compiles(p.spec) /\ d.action.type # "no_action" =>
      \A c \in p.spec.constraints :
        c.hard => Holds(c, EvalContext(d.action.plan, IF AboutCandidate(c) THEN d.input.slo ELSE ZeroSLO))

BestAllowed(d) ==
  LET allowed == Allowed(d)
  IN  /\ allowed # {}
      /\ \A s \in allowed : SoftViolations(d.input, d.compiled, s.plan) = 0
      => \E s \in allowed : s.plan = d.action.plan /\ \A t \in allowed : t.weighted <= s.weighted

ScaledDownIfForced(d) ==
  LET w       == Weights(d.input)
      allowed == Allowed(d)
  IN  /\ Degraded(d.input.slo)
      /\ w.slo > 0 /\ w.total = w.slo /\ w.cost = 0 /\ w.carbon = 0 /\ w.fairness = 0
      /\ \A s \in allowed : SoftViolations(d.input, d.compiled, s.plan) \in {0, 1}
      /\ d.action.type = "scale_down"
      => \A s \in allowed : s.plan.replicas < d.input.current.replicas

\* The decision keeps the hard constraints on the candidate of every matching
\* policy that compiles, unless the policy waits to be compiled or was changed
\* since the look-up (Solve takes a policy that is not compiled as one without
\* constraints).  A constraint on the SLO or the rest of the context is kept only
\* as if all of that were zero, since applyConstraints hands over the candidate
\* alone: slo.burn_rate < 2.0 never stops anything.  With weights that are not
\* negative: where no soft constraint is violated, no candidate that the enforced
\* policies allow has a higher weighted score, though only the Pareto front is
\* searched; and where only the SLO counts and no candidate violates two soft
\* constraints, a service that violates its SLO is scaled down only if all other
\* candidates are forbidden.
ChosenIsSound ==
  decision # NoDecision /\ decision.stage = "decided" =>
    /\ KeepsConstraints(decision)
    /\ NoneNegative(Weights(decision.input)) => BestAllowed(decision) /\ ScaledDownIfForced(decision)

\* The burn rates of all objectives, and whether some objective is not kept.
BurnRates(spec, reading) ==
  {computeBurnRate(o.metric, reading[o.metric], o.target, spec.budget) :
     o \in {spec.objectives[i] : i \in DOMAIN spec.objectives}}

Violated(spec, reading) ==
  \E i \in DOMAIN spec.objectives :
    ~isCompliant(spec.objectives[i].metric, reading[spec.objectives[i].metric],
                 spec.objectives[i].target)

\* Every objective has a metric of its own.
OneEach(spec) ==
  \A i, j \in DOMAIN spec.objectives :
    spec.objectives[i].metric = spec.objectives[j].metric => i = j

SeenAs(spec, reading, slo) ==
  /\ Degraded(slo) => Violated(spec, reading)
  /\ Violated(spec, reading) /\ (OneEach(spec) \/ slo.budget > 0) => Degraded(slo)
  /\ OneEach(spec) => \A r \in BurnRates(spec, reading) : r <= slo.burn

\* The solver takes the service as degraded only if the last evaluation that
\* reached the status violated an objective, whatever failed since; and it does so
\* however small or undefined the burn rate, unless the error budget is used up by
\* an objective whose burn rate another one of the same metric overwrites.  With
\* one objective per metric the burn rate it sees is that of the worst (the status
\* keeps numbers as text).
KnownSLO ==
  decision # NoDecision =>
    SeenAs(decision.truth.spec, decision.truth.reading, decision.input.slo)

\* Every policy whose constraints compile is in force again and again, and so for
\* good after its last edit and the last restart (reconciles and status
\* conflicts permitting; PolicyKey, Compile, Reconcile).
PolicyApplies ==
  \A p \in Policy :
    []<>(policies[p] # NoPolicy /\ Compiles(policies[p].spec) => PolicyKey(p, policies[p].gen) \in programs)
=============================================================================
