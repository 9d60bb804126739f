---------------------------- MODULE PolicyEngine ----------------------------
(***************************************************************************)
(* internal/cel/engine.go and the OptimizationPolicy reconciler.  The      *)
(* engine keeps the compiled constraints of a policy under its UID and     *)
(* generation; they are compiled when the reconciler gets to it, and lost  *)
(* in a restart.                                                           *)
(*                                                                         *)
(* A policy's spec is [constraints, objectives, dryRun, matches].  A       *)
(* constraint is [expr, hard], expr being one of a few CEL expressions     *)
(* (see Holds).                                                            *)
(***************************************************************************)
EXTENDS Integers, FiniteSets

CONSTANTS
  Policy,
  PolicySpecs,   \* the specs that each policy may have
  NoPolicy

VARIABLES
  policies,   \* the OptimizationPolicy resources: [gen, spec], or NoPolicy
  nextGen,    \* the generation of the next edit of any policy
  programs,   \* keys of the compiled policies
  pending,    \* policies in the reconciler's queue
  celStatus   \* status: the generation observed and whether it compiled

policyVars == <<policies, nextGen, programs, pending, celStatus>>

PolicyInit ==
  /\ policies = [p \in Policy |-> NoPolicy]
  /\ nextGen = 1
  /\ programs = {}
  /\ pending = {}
  /\ celStatus = [p \in Policy |-> [gen |-> 0, ok |-> FALSE]]

PolicyKey(p, gen) == <<p, gen>>

\* An expression that does not compile, or is no Boolean.
Compiles(spec) == \A c \in spec.constraints : c.expr # "invalid"

\* Mutant: a policy that was compiled before is not compiled again.
CompileOnce(p) ==
  programs' = IF Compiles(policies[p].spec) /\ \A k \in programs : k[1] # p
              THEN programs \cup {PolicyKey(p, policies[p].gen)} ELSE programs

\* All constraints or none; nothing is ever removed.
Compile(p) ==
  programs' = IF Compiles(policies[p].spec)
              THEN programs \cup {PolicyKey(p, policies[p].gen)} ELSE programs

\* A policy is created or edited, or deleted.
EditPolicy(p, spec) ==
  /\ policies[p] # NoPolicy => policies[p].spec # spec
  /\ policies' = [policies EXCEPT ![p] = [gen |-> nextGen, spec |-> spec]]
  /\ nextGen' = nextGen + 1
  /\ pending' = pending \cup {p}
  /\ UNCHANGED <<programs, celStatus>>

DeletePolicy(p) ==
  /\ policies[p] # NoPolicy
  /\ policies' = [policies EXCEPT ![p] = NoPolicy]
  /\ pending' = pending \cup {p}
  /\ UNCHANGED <<nextGen, programs, celStatus>>

\* Reconcile; a conflict or an error of the status update puts the policy back
\* into the queue.
ReconcilePolicy(p, updated) ==
  /\ p \in pending
  /\ IF policies[p] = NoPolicy
     THEN pending' = pending \ {p} /\ UNCHANGED <<programs, celStatus>>
     ELSE /\ Compile(p)
          /\ celStatus' = IF updated
                          THEN [celStatus EXCEPT ![p] = [gen |-> policies[p].gen,
                                                         ok  |-> Compiles(policies[p].spec)]]
                          ELSE celStatus
          /\ pending' = IF updated THEN pending \ {p} ELSE pending
  /\ UNCHANGED <<policies, nextGen>>

\* The manager starts anew and reconciles what there is.
ForgetPrograms ==
  /\ programs' = {}
  /\ pending' = {p \in Policy : policies[p] # NoPolicy}
  /\ UNCHANGED <<policies, nextGen, celStatus>>

-----------------------------------------------------------------------------
\* A nil selector matches all; a malformed one counts as no match.  The order by
\* priority makes no difference to the solver.
FindPoliciesForService ==
  {[name |-> p, gen |-> policies[p].gen, spec |-> policies[p].spec] :
     p \in {q \in Policy : policies[q] # NoPolicy /\ policies[q].spec.matches}}

\* What an expression may speak of.  The current state, the tenant, the forecast
\* and the cluster, which are left out, are handed over as the SLO status is.
EvalContext(plan, slo) == [candidate |-> plan, slo |-> slo]

\* The SLO status in a context that is given none.
ZeroSLO == [compliant |-> FALSE, budget |-> 0, burn |-> 0]

\* candidate.replicas <= 2, candidate.spot_ratio == 0.0, slo.burn_rate < 2.0,
\* slo.budget_remaining > 0.1, and one about a metric, which finds none and fails.
Holds(c, ctx) ==
  CASE c.expr = "atMostTwo"  -> ctx.candidate.replicas <= 2
    [] c.expr = "noSpot"     -> ctx.candidate.spot = 0
    [] c.expr = "slowBurn"   -> ctx.slo.burn < 20000
    [] c.expr = "budgetLeft" -> ctx.slo.budget > 1000
    [] OTHER                 -> FALSE

\* A failed evaluation is a violation too, but costs no penalty when soft.
CelEvaluate(spec, ctx) ==
  LET violated == {c \in spec.constraints : ~Holds(c, ctx)}
  IN  [passed    |-> \A c \in violated : ~c.hard,
       penalties |-> Cardinality({c \in violated : ~c.hard /\ c.expr # "metric"})]
=============================================================================
