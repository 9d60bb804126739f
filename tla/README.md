# Verification of OptiPilot

TLA+ models of OptiPilot's control paths, the TLC runs that check them on small
instances, and TLAPS proofs of their most important invariants for every
instance. The reference is the Go code; paths below are relative to the
repository root.

## 1. The system

OptiPilot is a Kubernetes operator. `cmd/manager/main.go` starts the
controllers; an optimization loop turns ServiceObjectives and
OptimizationPolicies into scaling actions, passes them through a safety guard
and applies them through actuators. A hub decides for several clusters at once
and sends directives to spoke agents.

| Part | State | Operations | What makes it hard |
|---|---|---|---|
| Optimization loop (`internal/controller/optimizer_controller.go`) | where it is in the cycle, the action in hand | `Start`, `runOptimizationCycle`, `optimizeService`, `actuate` | the world changes between check and use; Apply may fail; restarts |
| SafetyGuard (`internal/actuator/safety.go`) | cooldown and breaker entry per service, in memory | `CheckEmergencyStop`, `CheckCooldown`, `CheckCircuit`, `RecordActuation`, `RecordOutcome` | clock, objectives that share a service, restart, failed reads |
| PodActuator (`pod_actuator.go`) | Deployment, HPA, previous-state annotation | `Apply` (HPA or Deployment mode), `Rollback` | read and merge patch without a resource version |
| CanaryController (`canary.go`) | watcher map, watcher goroutines | `Apply`, `Rollback`, watchers | delayed rollbacks racing new actions, partial failure between steps |
| LifecycleManager (`internal/global/lifecycle.go`) | lifecycle state and idle record per cluster | `executeHibernate`, `executeWakeUp`, `UpdateIdleStatus` | the lock is released around every external call; overlap; partial failure |
| Hub (`internal/global/grpc`) and spoke (`internal/global/spoke`) | registrations, last statuses, directive queues; agent state | `RegisterCluster`, `ReportStatus`, `GetDirective`, heartbeat and directive loops | lost replies, hub restart, failing handlers |
| GlobalSolver (`internal/global/solver.go`) | none | `Solve` | rounding, clamping, counting of active clusters |
| TrafficShifter (`traffic.go`) | last applied shift per route | `Apply`, `MonitorAndRollback` | a rollback that wakes after a newer shift |
| Solver engine (`internal/engine`), CEL engine (`internal/cel`), policy reconciler | compiled policies by generation | `Solve`, `Compile`, `Evaluate`, `Reconcile` | a policy edited but not yet compiled |
| SLO evaluator (`internal/slo`) and ServiceObjective reconciler | status conditions | `Reconcile`, `Evaluate` | failed evaluations, undefined readings, stale status |
| Tenant manager, fair share, quota, noisy neighbours (`internal/tenant`) | tenant states, usage history, flags | `UpdateProfiles`, `Refresh`, `CheckQuota`, `ComputeFairShares`, `Detect` | profile changes while queries run; caps and guarantees that conflict; flags that expire apart |
| Forecast client and accuracy tracker (`internal/forecaster`) | breaker, recent errors of the model | `ForecastDemand`, `PredictSpotRisk`, `Record` | late answers against an open breaker |
| Tuning (`internal/tuning`) and AppTuner (`app_tuner.go`) | tuning status; ConfigMap and its annotation | `RunCycle`; `Apply`, `Rollback` | results that are not stored, edits between read and patch |
| NodeActuator (`node_actuator.go`) | NodePool and its annotation | `Apply`, `Rollback` | all services share one pool |
| Prometheus client (`internal/metrics`) | cache with a time-to-live | `Query` | the lock is released around the request |
| Journal, simulator, API, dashboard, ML service | see `PROJECT.json` | | |

Interactions: loop → SafetyGuard → (CanaryController →) registry → PodActuator
→ API server; SLO checker → watchers → registry; GlobalSolver → hub queues →
spoke → LifecycleManager. `main.go` wires the loop to the SafetyGuard and a
registry with the PodActuator only: CanaryController and LifecycleManager have
callers in tests but not in the shipped process, and the same holds for Tuning,
AppTuner, NodeActuator, `CheckQuota`, the noisy-neighbour detector and the
fair-share allocation. They are modelled as the components they are, with the
callers their documentation describes.

Correctness, by part:

- guard: no actuation inside a cooldown, after too many failures, or under an
  emergency stop; and no lockout for good;
- actuation: a rollback undoes what it is meant to undo, changes stay within
  their limit, no action stops a workload, no watcher gets out of control;
- lifecycle: recorded states match reality, no tenant loses its last cluster,
  the management cluster is untouched, nothing is stuck half way;
- hub and spoke: every directive reaches its handler or is known not to have;
  an agent that runs is registered;
- solver, traffic, fair share: shares and weights add up and respect their
  caps; the solver's choice is undominated and satisfies the constraints;
- tenants: quotas are checked against the current profile and usage, a flag has
  a reason;
- decisions: the solver knows whether the SLO is violated and keeps every policy
  in force;
- clients: a cached answer is not too old, a failing service is left alone for a
  while.

## 2. Modules

| Module | Models | Extends |
|---|---|---|
| `SafetyGuard` | the guard's maps and operations | |
| `OptimizerLoop` | the loop, `Allow`, `actuate`, clock, operators, restart | `SafetyGuard` |
| `SloFeedback` | the verdict of the SLO re-evaluation after an actuation | `OptimizerLoop` |
| `PodActuator` | the workload at the API server, what Apply and Rollback write | |
| `Canary` | controller, read and patch steps, watchers | `PodActuator` |
| `Lifecycle` | directives in progress, states, pools, tenants' locations | |
| `HubSpoke` | hub, agent goroutines, calls between them, restarts | (instance of `Mailbox`) |
| `Mailbox` | abstract: what hub and agent promise about directives | |
| `GlobalSolver` | scores, weights and lifecycle directives, as operators | |
| `TrafficShifter` | one route of three kinds, Apply, monitors with rollbacks | |
| `GlobalPlane` | solver cycles, their directives in progress, shifts of a route | `GlobalSolver`, `TrafficShifter` |
| `SloEvaluator` | ServiceObjective reconciler and evaluation | |
| `PolicyEngine` | policies, generations, compiled programs, evaluation | |
| `SolverEngine` | candidates, scores, Pareto front, selection, as operators | `PolicyEngine` |
| `Decisions` | from readings and edits to the solver's action | `SloEvaluator`, `SolverEngine` |
| `TenantManager`, `NoisyNeighbor`, `FairShare` | `internal/tenant` | |
| `Tuning`, `AppTuner`, `NodeActuator` | parameter search, ConfigMap and NodePool patches | |
| `ForecastClient`, `PromCache` | the two clients with state | |
| `Background` | the eight parts of the last three rows, side by side | these eight |
| `OptimizerLoopProofs`, `CanaryProofs`, `GlobalPlaneProofs`, `DecisionsProofs` | theorems | the module of that name, `TLAPS` |
| `FederationProofs` | theorems about the lifecycle manager and about hub and spoke | `Lifecycle`, `HubSpoke`, `TLAPS` |
| `FairShareProofs` | sums over finite sets; the invariant of the reclaim loop | `FairShare`, `TLAPS` |
| `WorkerProofs` | invariants of the tenant manager, the detector, the forecast client and the parameter search, preserved by each of their steps | `TenantManager`, `NoisyNeighbor`, `ForecastClient`, `Tuning`, `TLAPS` |
| `BackgroundProofs` | invariants of the cache, the ConfigMap tuner and the NodePool actuator; the theorems about `Background` | `Background`, `FairShareProofs`, `WorkerProofs` |
| `MCOptimizerLoop`, `MCSloFeedback`, `MCCanary`, `MCGlobalPlane`, `MCBackground`, `MCDecisions` | constants and symmetry for TLC | |

Conventions. Every critical section of a mutex, every API call and every
external call is one atomic step; local state between them is kept in `pc`,
`cur`, `act`, `read`, `call`. Definitions carry the Go names. Definitions
marked "Mutant" are variants of the definition that follows them, with a
plausible mistake in them; the specifications do not use them. History
variables (named as such) record what happened and are read only by
properties.

**SafetyGuard, OptimizerLoop.** `cooldowns` and `circuits` are the two maps;
instants are ages that saturate at `Horizon`, pauses are the time left.
`optimizeService` enters `Allow`, whose reads and checks are
`checkNamespacePause`, `checkGlobalPause`, `checkCooldown` and `checkCircuit`;
`applied`, `notApplied` and `applyFailed` are the three outcomes of Apply, and
`recordActuation`, `recordImproved` and `recordDegraded` the calls that
follow. The clock may tick, an operator flip a switch, an observer call
`IsCircuitOpen` and the process restart between any two of them. What the
solver decides is a free choice of action type, dry run and matching policies.
An action the solver wants and the guard blocks is dropped (`done`), as in the
code.

**PodActuator, Canary.** One workload (the state is keyed by service). Apply is
`listHPA`, then `patchHPA`, or `getDeployment` and `patchDeployment`; a large
change with the canary option on goes through twice, with `checkStep1` in
between. `cancelOld` and `register` are the two critical sections of
`startAutoRollbackWatcher`. A watcher sleeps, looks (`wake`), asks the checker
(`checkHealth`) and rolls back in a read and a patch. A call may fail without
or with effect (a timeout). `merge` is a merge patch: fields the computation
left alone are not written. Behind an HPA, `autoscale` (external) moves the
Deployment within the HPA's range. A Deployment may be found scaled to nothing,
and a rollback may bring it back there; an HPA cannot. Apply raises a target below
one replica to one and limits no change from zero. With an HPA it limits the change
of `maxReplicas` and sets both ends of the range to the result.

**Lifecycle.** `call[e]` is the directive executor `e` works on. The drainer,
scaler and tenant locator are interfaces with no implementation in the
repository: success does what their comments promise, failure may have done
any part of the work. Tenants may be placed on further clusters, but leave one
only by being drained.

**HubSpoke, Mailbox.** One cluster (the hub's maps are keyed by cluster).
`start`, `beat` and `poll` say where the agent's three goroutines are and how
far their call to the hub got; `RegisterCluster`, `ReportStatus` and
`GetDirective` are the hub's handlers. A call may fail at its caller at any
time; if the hub had not executed it yet it may do so afterwards
(`lateRegister`, `lateReport`, `latePoll`; at most one late request of a kind).
Directives are numbered by their `EnqueueDirective` call. `Mailbox` has one
box that directives enter at the end and leave at the front, or are lost from;
the refinement maps it to the agent's batch followed by the hub's queue.
The specification is called `LinkSpec` (`LinkInit`, `LinkNext`, `LinkTypeOK`), so
that one proof module can extend both `Lifecycle` and `HubSpoke`.

**GlobalSolver, TrafficShifter, GlobalPlane.** `Solve` is an operator over a
snapshot of all clusters; scores are integers that are exact for the attributes
used. A cycle of `GlobalPlane` takes the profiles as they are seen, which may
lag behind what earlier directives did (`seen` against `asleep`, history
`blind`), leaves its lifecycle directives in `todo` until they are carried out
or fail, and starts a shift. `Apply` holds the shifter's lock from its read to
its record, a step per SLO check; `patchWeights` is one step because it updates
with the resource version it read. A monitor sleeps, looks, and rolls back
without the lock. The three kinds of route differ in how a missing weight reads
and in what a patch drops. Worth knowing, and visible in the model:

- a plan leaves out clusters that are not eligible, and their entries keep their
  weight: the sum may exceed 100 and traffic stay on a hibernated cluster;
- the weights are fixed before the hibernations are, so a cluster may get
  traffic and a hibernate directive from one `Solve`;
- a cluster without a capacity counts as idle, an unreachable one as active;
- the best-scored cluster takes the rounding difference and can end below the
  second. Among eight clusters or more it can end below zero: with a shift of 4
  and the scores 100, 99 five times and 0 twice, `scoresToWeights` gives it -3,
  and of 18 equal clusters it gives the first -2;
- `clampWeights` can compute a negative weight with six backends: from the
  weights 50, 50, 0, 0, 0, 0, the plan 1, 1, 25, 25, 24, 24 and a shift of 25 the
  moved weights sum to 148, and one of the largest, 25, takes the difference and
  becomes -23. The comment in `internal/global/traffic_test.go:172` expects no
  negative weight. The instance has three backends, where this cannot happen;
- a rollback turns a weight that was not set into an explicit 0, and a DNS patch
  drops the other provider-specific settings of the endpoint;
- the rollback of an older shift writes over a newer one.

**SloEvaluator, PolicyEngine, SolverEngine, Decisions.** The reconcilers
evaluate and compile in steps of their own. The optimizer lists the objective,
builds the input and looks up the policies, then solves; in between, specs may
be edited, evaluations fail and the process restart. Readings, targets and
budgets are integers in fixed units with `NaN`, `NoData` and `Malformed` beside
them. A CEL expression is one of a few classes that `Holds` interprets, on the
candidate, on the SLO status and on a metric. Of the context they are evaluated in,
`applyConstraints` fills the candidate alone, so the SLO status they see is zero
(`ZeroSLO`) and a metric is never found; an error counts as a violation. The
candidates, the scores and the choice are computed as in the code. A target that is
no Deployment counts as one replica without reservations, whose plans take a whole
instance each. The model shows that a policy that waits for compilation counts as one without
constraints while its objectives and its dry run already count; that a policy
edited between look-up and `Solve` may be ignored for one decision; that
programs of old generations are never dropped; and that a `NaN` reading counts
as a violation without a burn rate. At most 80 candidates are generated, so the
sampling of larger sets never happens. What the proofs brought out:

- with one metric in two objectives the last burn rate wins. If the first
  objective uses up the budget and the burn rate of the second is 0, the solver
  sees neither a burn rate nor a budget, hence no signal, and takes a violated
  SLO as not degraded (`KnownSLO` excludes it; the fourth spec of the instance
  reaches it);
- penalties are taken off the weighted score but not off the scores that decide
  dominance, and the weighted score stops at 0. So with a penalty the best
  candidate may be off the Pareto front, and with two penalties a degraded
  service's larger candidates can be worth as little as the smaller ones, where
  the least disruption decides (`ChosenIsSound` claims the best choice without
  penalties, and no needless scaling down with at most one);
- nothing enforces that a policy's weights are not negative, which
  `api/policy/v1alpha1/optimizationpolicy_types.go:52` asks for in a comment.
  With a negative weight a dominated candidate can be the best
  (`ChosenIsSound` has this as a premise).

**Background.** The eight parts share no state. `worker` names the one that
moves, so that one run covers the disjoint union of their state spaces, not a
product that would show nothing more.

- `TenantManager`: `UpdateProfiles` and the refresh loop interleave per tenant;
  the query runs without the lock. `settled` (history) are the tenants whose
  usage was measured after their last profile change, `sampled` what was measured.
  Usage and budget are compared as numbers although their units differ: cost per
  hour with a budget per month, and a counter of CPU seconds with cores.
- `NoisyNeighbor`: samples, alerts and flags are ages in ticks; `rose` (history)
  is the age of the last observed growth, the only thing that makes a tenant noisy.
- `FairShare`: a step per round of the reclaim loop, over 729 inputs of three
  tenants. A guarantee above the tenant's own cap frees capacity in every round
  that does not exist, which `SharesSound` excludes by its premise. A round that
  goes on brings at least one more tenant to its cap, so the ten rounds suffice
  for nine tenants; with ten or more the loop may end with capacity undivided.
- `Tuning`: `RunCycle` reads a status and returns a result that its caller, not
  part of the repository, stores or loses. When the value selected is the
  current one, `ActiveParameter` stays where it is: with two parameters or more the
  search can repeat this one and never converge (with one it does, as
  `test/integration/phase11_integration_test.go:54` expects). A default may be missing
  or out of bounds, nothing validates it; the percentage limit then takes the value
  towards its bounds in steps. Results of converged and failed cycles drop their
  observation.
- `AppTuner`: read and patch of the ConfigMap with the owner's edits in between;
  a patch carries what differs. `Rollback` does not restart the pods, and an
  Apply repeated after a failed restart takes the tuned data for its snapshot.
- `NodeActuator`: all services meet in one NodePool and one snapshot, so the
  rollback of one undoes the Apply of another; the disruption budget and the
  annotation stay. `actor` (history) is the service that acted last.
  `buildRequirements` drops the instance types, and only a rollback brings them
  back.
- `ForecastClient`: the breaker's lock is not held during a request, so calls
  that began before it opened still count; tracker and breaker are independent.
- `PromCache`: look-up and store are two critical sections; a slower request
  may put an older answer over a newer one (history `crossed`).

## 3. Runs

| Run | Instance | Result |
|---|---|---|
| `OptimizerLoop` | 1 service, 2 objectives, 2 policies, 3 strikes, pause 2, horizon 3; fairness | `TypeOK`, `CooldownRespected`, `FailuresSpaced`, `StopHonoured`, `NeverLockedOut` hold |
| `SloFeedback` | 1 objective, 3 strikes | `DegradationOpensBreaker` is violated |
| `Canary` | 0 to 3 replicas, 2 watchers, with and without HPA and canary, limit none or 50% | `TypeOK`, `WatcherReachable`, `AbortRestores`, `DirectRollbackRestores`, `ChangeBounded` hold |
| `Canary_rollback` | up to 4 replicas, canary | `RollbackRestores` is violated |
| `Canary_watcher` | 2 watchers, canary | `RollsBackOwnAction` is violated |
| `Lifecycle` | management cluster and 2 others, 1 tenant, 1 caller | `TypeOK`, `StateTellsPools`, `TenantsKeepALocation`, `IdleSinceAwake`, `Wakeable` hold |
| `Lifecycle_overlap` | management cluster and 1 other, 2 callers; fairness | `ManagementServes`, `NeverStuck` hold |
| `Lifecycle_overlap_tenants` | 2 clusters, 2 callers | `TenantsKeepALocation` is violated |
| `HubSpoke` | 3 directives, TTL 1; fairness | `LinkTypeOK`, `HandledInOrder`, `NoLossWithoutFault`, `HealthyIsTrue`, `IsMailbox` (refinement), `ForgottenIsNoticed` hold |
| `GlobalPlane` | 3 clusters, 3 kinds of route, 2 policies (one without a shift, hence the default), 2 cycles, 2 monitors (symmetric) | `TypeOK`, `PlanIsShare`, `TotalKept`, `IncreaseChecked`, `RollbackUndoes`, `KeepsMinActive` hold |
| `Background` | see Bounds | `TypeOK`, `QuotaSound`, `FlagsFollowGrowth`, `SharesSound`, `MLGuarded`, `CacheFresh`, `TuningBounded`, `PatchesUndone` hold |
| `Decisions` | 5 specs, 5 readings, 2 policies with 3 and 4 specs, 6 loads, 3 changes; fairness | `ChosenIsSound`, `KnownSLO`, `PolicyApplies` hold |

What the violated properties show (`PROJECT.json` quotes the lines):

- `DegradationOpensBreaker`: `actuate` records every applied action as improved
  and nothing corrects this later, so degrading actions never open the breaker.
- `RollbackRestores`: the second step of a canary overwrites the annotation the
  rollback reads, so the rollback ends at the half step.
- `RollsBackOwnAction`: the previous action's watcher is cancelled after the
  new action was applied and may decide to roll that one back.
- `TenantsKeepALocation` with two callers: both pass the sole-location check
  before either drains.

Exceptions the holding properties name, each real behaviour of the code:

- a failed read of a stop switch counts as "not paused" (`StopHonoured`);
- a restart forgets cooldowns and strikes: after each one an actuation may follow
  the last at once, and MaxStrikes errors the errors before it
  (`CooldownRespected`, `FailuresSpaced`);
- behind an HPA, Rollback finds no annotation of the action and restores
  nothing (`AbortRestores`, `DirectRollbackRestores`);
- the change limit applies to each canary step, not to their sum; it is none for a
  Deployment scaled to nothing, and behind an HPA it is not on the size
  (`ChangeBounded`);
- between `setState` and the clearing of the idle record a woken cluster still
  counts its old idle time (`IdleSinceAwake`);
- after a restart a hibernated cluster has no state, which counts as active, so
  that a wake-up directive for it returns without scaling up (`Wakeable`);
- after a failed external call or a restart the recorded state may differ from
  the pools (`StateTellsPools`); with two callers it may differ without one: a
  wake-up accepted just before a hibernation sets its final state;
- a directive is lost when the answer that carries it is, when a request whose
  caller gave up is executed late, and with a restart; one whose handler returns an
  error counts as handled and is not repeated (`NoLossWithoutFault`);
- an agent whose registration a restarted hub has forgotten never registers
  again; the property is that it shows an error (`ForgottenIsNoticed`);
- a rollback between Apply's read and its patch makes increases nobody checked,
  and makes the record of that shift the wrong one to go back to
  (`IncreaseChecked`, `RollbackUndoes`); a plan that names other entries than
  the route's changes the total (`TotalKept`);
- a solver cycle that does not yet see an earlier hibernation may order one too
  many (`KeepsMinActive`);
- a cost limit that is no number leaves the previous one in force, and a query that
  fails counts as no usage (`QuotaSound`);
- requests that overlap may make the cache go back in time (`CacheFresh`);
- a change that was applied but not stored is unknown to the next cycle, which
  may then repeat or exceed it (`TuningBounded`);
- the cluster that takes the difference is bounded for up to six clusters only,
  and weights that are equal because no cluster scores leave the remainder of the
  division undistributed (`PlanIsShare`);
- an edit between read and patch survives a rollback or is lost with it, and with
  two services on the NodePool a rollback by the one that did not act last undoes
  the other's action (`PatchesUndone`);
- a policy not yet compiled, or edited since the look-up, is not enforced, and a
  constraint on anything but the candidate is judged on zeros (`ChosenIsSound`);
- a budget used up by an objective whose burn rate a second one of the same
  metric overwrites is not seen (`KnownSLO`).

**Bounds.** Three strikes are the code's number; a pause of 2 and a horizon of
3 leave room for a check before, at and after every deadline, and since ages
saturate at a bound no smaller than any duration compared with, a longer
horizon adds no behaviour. Two objectives of one service, with two policies
whose cooldowns are ordered differently by direction, are the smallest
instance in which one objective's actuation holds back another and the largest
matching cooldown matters. Zero to three replicas give a large change up and down, odd
half steps and a 50% limit that rounds to nothing; two watchers are an old and
a new one, and a third action finds the first cancelled. Two clusters besides
the management cluster let a tenant move its only location, two callers
overlap in every order. The proofs remove these bounds for the safety
properties of these parts. Three directives let the box lose its middle and
span answer and queue; a TTL of 1 has reports younger than it, at it and past
it. In `GlobalPlane` a second cycle runs on profiles that lag behind the first,
the second monitor's rollback can be of the older or the newer shift, and with
three backends the rounding difference is not simply the other entry's loss;
three cycles with one monitor (10 million states) were
checked once and show nothing else. In `Background` (3.2 million states), two
tenants, one with profiles that share a namespace or have no budgets; a window of 1 and a history of 2, so that samples and flags
expire and are trimmed; caps, guarantees and weights in nine combinations; three
parameters, with a default out of bounds, none, and one between them, three
observations each; keys with a lower, an upper and no bound; three errors and
two overlapping callers at the breaker; TTL and timeout of 2, so that an answer
may arrive just before, at and after the entry expires; two services and the
spot ratios 0 and 100. `Decisions` (486 thousand states) bounds edits, evaluations and restarts
together by 3, enough to edit, compile, lose and compile again; the proofs remove
this bound for `ChosenIsSound` and `KnownSLO`.

**Fairness.** `OptimizerLoop` assumes weak fairness of the loop goroutine (it
runs until its context ends, and every call in it takes a context) and of the
clock. It does not assume that anybody lifts a stop or that Apply ever
succeeds: `NeverLockedOut` says so in its premises. `Lifecycle_overlap`
assumes that a directive that was begun goes on, because the external calls
take a context and return; no directive has to be given. `HubSpoke` assumes
weak fairness of the heartbeat goroutine, which a ticker drives and whose calls
return or fail, and that `Start` returns after cancellation; nothing is assumed
of the hub, the network or the directive loop. `Decisions` assumes weak fairness
of the compilation of each policy, because the work queue of the reconciler
hands out every changed policy and tries again after an error; nothing is
assumed of the optimizer, of evaluations or of edits.

**Deadlock** is checked in the runs of the loop, the actuators, the lifecycle
and the hub; none of these systems stops. `GlobalPlane` and `Decisions` stop at
the bounds on cycles and changes, and in `Background` a computation returns
(`FairShare`) or meets its bound (`Tuning`); these three do not check it.

## 4. Proofs

TLAPS proves the following for every value of the constants that satisfies the
named assumptions (`MaxStrikesAssumption`, `DurationAssumption`,
`LoopAssumption`, `ReplicasAssumption`, `NoHPAAssumption`, `CanaryAssumption`,
`IdleWindowAssumption`, `HubAssumption`, `ShiftAssumption`, `PlaneAssumption`,
`CacheAssumption`, `TunerAssumption`, `TenantAssumption`,
`DetectorAssumption`, `ForecastAssumption`, `TuningAssumption`,
`FairShareAssumption`, `SloEvaluatorAssumption`, `DecisionsAssumption`), which TLC
evaluates on the instances. They give the constants their types. Six say more:

- `PlaneAssumption`: there are as many clusters as `minActive` asks for, and no
  cluster uses more cores than it has;
- `ShiftAssumption`: the shifter's `maxShift` is positive (25 unless an option
  says otherwise, which the code does not check);
- `ForecastAssumption`: the breaker's pause is positive and no longer than its
  error window (30 seconds and a minute in `client.go`); without a pause there is
  no bound on the failures;
- `FairShareAssumption`: weights are positive and percentages not negative, as the
  validation in `api/tenant/v1alpha1/tenantprofile_types.go` demands, and there
  are finitely many tenants. Percentages may add up to any number;
- `SloEvaluatorAssumption`: metrics are those of the enumeration in
  `api/slo/v1alpha1/serviceobjective_types.go`, targets and readings not negative
  (but for `NaN`), and every objective has a window. Budgets may be anything;
- `DecisionsAssumption`: a Deployment that can be read has at least one replica,
  since `readCurrentState` takes none as one, and usage is not negative.

- **Loop.** `TypeCorrect`, `CooldownHolds`, `BreakerHolds`, `StopHolds`. The
  guard's record and the history differ between an Apply and its recording, so
  the invariant relates them step by step: the recorded age is the true age
  except while the recording is outstanding; the strikes are no fewer than the
  recent errors of this run not yet out of their pause; a switch that was on since `Allow`
  was entered was seen by its read unless that failed.
- **Canary.** `MaxChangeBetween` and `HalfStepBetween` are facts of the
  arithmetic for all sizes. `CanaryTypeCorrect` needs that copies about to be
  patched are of the right kind (`CopyInv`). `WatcherReachableHolds` needs that between the two critical sections
  every goroutine has been told (`ReachInv`). `AbortHolds` and `RollbackHolds`
  rest on `SnapshotInv`: without an HPA, as long as nothing else was written,
  the annotation holds the size before the last write. `ChangeHolds` needs
  `DirectInv`, which ties the path taken to the absence of an HPA.
- **Lifecycle.** `LifecycleTypeCorrect`, `ManagementHolds` and `IdleHolds` for
  any number of callers. `SerialStateHolds`, `SerialWakeableHolds` and
  `SerialTenantsHold` assume one caller, and relate the step of the directive
  in progress to state, pools and locations.
- **Hub and spoke.** `HubSpokeTypeCorrect` needs that the directive loop is off
  until `Start` serves (`StartInv`). `HealthHolds` needs that no report, stored,
  sent or late, is younger than the youngest collected (`HealthInv`).
  `OrderHolds` rests on `OrderInv`: what was handled, what the agent has and what
  the hub has are each in order and each before the next. `NoLossHolds` says
  that without a fault they concatenate to all directives. `MailboxImplemented`
  is the refinement: from the same invariants, every step posts, takes, loses or
  leaves the box alone.
- **Global plane.** `TypeOKHolds` and the theorems on shifts rest on `ShiftInv`:
  an Apply in progress, the last record and every monitor's copy hold a weight
  for each entry of the route, what an Apply has not checked yet and what it found
  healthy are together all its increases, and unless it was overtaken the weights
  it holds are still the route's. `RollbackUndoesHolds` and
  `IncreaseCheckedHolds` follow from it with what a patch writes and a read
  returns (`PatchWhole`). `PlanIsShareHolds` follows the arithmetic of
  `scoresToWeights`: what rounding, raising to 1 and clamping leave of a share,
  and what the correction of the best cluster does to the sum and, for up to six
  clusters, to its sign. `TotalKeptHolds` needs `TotalInv`, that not only the
  route but every set of weights somebody may still write sums to 100, and that
  clamping a plan leaves some weight to correct; this is where it assumes at most
  100 clusters, since beyond that equal weights round to 0.
  `KeepsMinActiveHolds` counts: the solver takes at most as many clusters as are
  spare, for any finite number of them.
- **Cache, ConfigMap, NodePool.** `CacheFreshHolds` needs that a request and its
  answer are within the timeout (`RequestInv`), that age and remaining life move
  together (`EntryInv`), and that a request that crossed no other is alone, with
  no entry to use (`AloneInv`). `PatchesUndoneHolds` needs that the annotation is
  what the last Apply replaced (`TunerInv`, `NodeInv`), whoever made it.
- **Tenants.** `QuotaSoundHolds`: the tenants follow the profiles handed over
  last (`SyncInv`) and what a refresh carries belongs to the current profile
  unless that was replaced since it began (`RefreshInv`), so a settled tenant's
  usage is its own (`SettledInv`); what is left is to compare, budget by budget, the
  sum that `CheckQuota` forms with the one in the budget's unit. `FlagsFollowGrowthHolds`: growth was seen when a
  flag was set or later, and a victim's flag is no younger than the flag of some
  other tenant (`FlagInv`); without the second part nothing would keep the
  aggressor's flag from expiring first.
- **Forecast client.** `MLGuardedHolds` bounds the failures within a pause. The
  invariant (`BreakerInv`) says where they are: a failure not on the breaker's
  list is at least as old as the opening, so that a closed breaker has them all,
  fewer than MaxErrors, on its list; and while it is open the failures and the
  calls under way are together fewer than MaxErrors plus the number of callers.
  `TrackerInv` says that the mean was high for as long as the tracker believes.
- **Parameter search.** `TuningBoundedHolds` needs that every stored, live or
  pending value lies between its default and its bounds (`ValueInv`), and that without a loss the live values
  are the stored ones plus the one result in flight, with the cooldown covering
  the time since the change (`SavedInv`). `ClampBetween` is the arithmetic of the
  percentage limit.
- **Fair shares.** `SharesSoundHolds`, for any finite number of tenants. The
  invariant of the reclaim loop (`ShareInv`) says that bursts are not negative and,
  for sane inputs, that no more than the cluster is handed out, that every round
  that went on has settled another tenant at its cap (`Settled`), and that what is
  handed out to nobody (`Lost`) is at most a unit per tenant and round, unless
  every burstable tenant is settled. With fewer tenants than rounds the loop
  therefore ends because nothing is reclaimed, with at most `Slack` lost. The
  bounds on Jain's index are the inequality between the square of a sum and the
  sum of squares, proved for finite sums.
- **Decisions.** `KnownSLOHolds` rests on `StatusInv`: a status that is not
  Unknown is, in all its parts, the outcome of one evaluation, however many failed
  before or after it; the rest is the arithmetic of burn rates and budgets
  (`EvaluationSeen`). `ChosenIsSoundHolds` rests on `PolicyInv` (a policy that does
  not wait is compiled, and no generation is used twice) and `DecisionInv` (a policy
  looked up under a generation that is still current has the current spec), which
  give that constraints are kept. That the choice is the best allowed is shown of
  `Solve` itself: with weights that are not negative, a finite set of candidates
  has one of the highest weighted score that no other dominates (`BestByTwo`,
  `FrontReachesBest`), so searching the Pareto front loses nothing; and where only
  the SLO counts, a candidate that keeps the replicas of a degraded service scores
  at least 0.2, more than the 0.1 one soft violation costs, and one with fewer
  replicas 0 (`ScoreSLOBounds`). The first version of `KnownSLO` did not survive
  the attempt: with one metric in two objectives it is false, and the instance now
  has such specs.
- **Types of `Background`.** `TypeOKHolds`, from the invariants above and
  `HistoryInv` (samples are in order of age and trimmed).

Sums, minima and filtered sequences need induction over data, which the prover
cannot do from the library's induction theorems. The proofs argue by a smallest
counterexample: the set of failing sizes has a least member, or the failing
subsets of a finite set a smallest one, and the case just below it holds
(`LeastNat`, `LeastCase`, `SmallestSubset`, `BestOf`). The facts on sums stand
both in `GlobalPlaneProofs` and in `FairShareProofs`, each with those it needs:
what a prover has to look at grows with the module.

Every invariant and action property that a passing run checks, and the refinement
of `Mailbox`, has its theorem. Only model-checked are `NeverLockedOut`,
`NeverStuck`, `ForgottenIsNoticed` and `PolicyApplies`: liveness under fairness is
outside the prover's reach.

## 5. Where the code and its documents disagree

Four disagreements have a run of their own (section 3). The others are in the
models as the code has them, and the properties are stated so that they hold of it:

- *Change limit behind an HPA.* `optimizationpolicy_types.go:83`: "MaxPercent is the
  maximum percentage change per scaling cycle", `interface.go:37`: "the maximum
  fractional change to apply in one step". `applyHPA` (`pod_actuator.go:152`) compares
  the target with the old `maxReplicas` and sets minimum and maximum to the result:
  one replica in a range of 1 to 3 becomes three under a limit of 50%
  (`ChangeBounded` is about Deployments without an HPA).
- *Units of a quota.* `tenantprofile_types.go:44` calls the cost budget a "hard
  monthly cost ceiling", and `quota.go:9` the change a monthly one. `manager.go:207`
  measures cost per hour, and `quota.go:56` adds the two; `manager.go:205` sums a
  counter of CPU seconds and `quota.go` compares it with cores. So `QuotaSound` says
  nothing of the cores in use and bounds the month's cost by 730 times the budget.
- *Who checks quotas.* `docs/crds/tenant-profile.md:105`: "`CheckQuota` is evaluated
  before every actuation". Nothing outside the tests calls it, and the same is true
  of the detector and of the fair-share allocation.
- *Noisy neighbours.* `docs/crds/tenant-profile.md:95`: a tenant that "exceeds 3× its
  fair allocation for more than 5 minutes" (`docs/architecture.md:108` likewise).
  `Detect` looks at growth by more than half within its window, whatever the fair
  share (`FlagsFollowGrowth`).
- *Burst cap.* `docs/crds/tenant-profile.md:73` gives `maxBurstPercent` as a
  percentage of the guarantee; the code and `tenantprofile_types.go:72` take it as one
  of the cluster (`SharesSound` follows the code).
- *Rollback on a shared NodePool.* `interface.go:69`: "Rollback reverts the most recent
  action for the given service". `NodeActuator` reverts the last action of any service,
  and with it what the owner changed in the requirements since. `node_actuator.go:34`
  says "Instance type list is never emptied", but `buildRequirements` leaves the
  instance-type requirement out of what it writes (`PatchesUndone` claims that the
  rollback of the last action brings it back).
- *Context of a constraint.* `optimizationpolicy_types.go:61`: "a CEL expression
  evaluated against the decision context"; `docs/cel-reference.md:143`,
  `docs/guides/custom-policy.md:225` and `test/e2e/policy_test.go:88` have constraints on
  the burn rate and the error budget. `applyConstraints` (`solver.go:127`) hands over
  the candidate only: a bound on the burn rate always holds and one on the budget left
  never does, so that a hard one stops every action. `docs/cel-reference.md:64` says that
  the value of a metric that is not found "is `0.0`"; it is an evaluation error, hence a
  violation (`ChosenIsSound` is about constraints on the candidate).
- *Default of the tuning step.* `docs/crds/application-tuning.md:84` gives 25%, the code
  takes 50.

## 6. What is not modelled

`PROJECT.json` lists every part with its reason. Within the modelled parts:
events and logs (no control depends on them), resource requests and the VPA
recommendation (written, never read back), dry runs beyond their not writing.
Relocation of a tenant by someone else between the check and the drain is not
modelled: the repository has no actor that does it.

Left out as a whole:

- the decision journal and the explanations: SQL over SQLite and text. Nothing
  reads the journal to decide anything. Its timestamps are compared as RFC 3339
  text, and a burn rate of +Inf cannot be encoded, so that entry is not written
  while the action proceeds;
- the simulator and the storage recommender: floating-point estimates without
  state shared with the control paths;
- the REST API and the dashboard: read-only views;
- the ML service: numerical fitting in Python. Its answers are inputs of
  `ForecastClient` and `Decisions`;
- the admission webhook, which `main.go` does not register, and
  `internal/engine/advanced_signals.go`, which has no caller;
- the text of PromQL queries (a query is the reading it returns), flags, server
  start-up, type declarations and generated code.

## 7. What could come next

1. `GlobalPlane` with the steps of `HubSpoke` and `Lifecycle` in place of its
   `todo`: the product is beyond an exhaustive run of minutes, so it would need a
   coarser model of both first.
2. More than one route, and more backends than three, for the weights.
