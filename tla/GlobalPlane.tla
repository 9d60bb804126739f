----------------------------- MODULE GlobalPlane -----------------------------
(***************************************************************************)
(* The hub's global loop: the solver reads the ClusterProfiles, its        *)
(* traffic directive is applied by the TrafficShifter and its hibernate    *)
(* and wake-up directives are carried out by the lifecycle manager, each   *)
(* in its own time, while the solver goes on with the profiles it has.     *)
(*                                                                         *)
(* The steps of one hibernation or wake-up are in module Lifecycle, and    *)
(* the way of a directive to a spoke in HubSpoke; here a directive waits   *)
(* in todo until it is carried out or has failed.                          *)
(***************************************************************************)
EXTENDS GlobalSolver, TrafficShifter

CONSTANTS
  Cluster,       \* 1 .. n, in the order of the solver's input
  Profiles,      \* what a ClusterProfile may say of a cluster that is awake
  Policies,      \* GlobalPolicy specs: [minSLO, strategy, maxShift, hibernationEnabled,
                 \*   idleThreshold, minActive, excluded]
  MaxCycles      \* bound on the number of solver cycles

\* The policy's numbers are any integers; its minActive is one that the clusters
\* can meet.  No cluster uses more cores than it has.
ASSUME PlaneAssumption ==
  /\ IsFiniteSet(Cluster)
  /\ Cluster = 1 .. Cardinality(Cluster)
  /\ MaxCycles \in Nat
  /\ Profiles \subseteq [health : Health, util : 0 .. 100 \cup {NoCapacity},
                         slo : Nat, cost : Nat, carbon : Nat]
  /\ \A p \in Policies : /\ p.maxShift \in Int
                         /\ p.minActive \in Int /\ p.minActive <= Cardinality(Cluster)

VARIABLES
  asleep,   \* the clusters that hibernate
  seen,     \* those whose profile says so
  todo,     \* lifecycle directives not carried out yet: [type, cluster]
  plan,     \* the weights of the traffic directive not applied yet, or <<>>
  policy,   \* the GlobalPolicy
  cycles,   \* number of solver cycles
  blind     \* history: a cycle ran before the profiles showed what the
            \*   directives of the earlier ones did

planeVars == <<asleep, seen, todo, plan, policy, cycles, blind>>
vars == <<planeVars, shifterVars>>

Init ==
  /\ ShifterInit
  /\ asleep = {}
  /\ seen = {}
  /\ todo = {}
  /\ plan = <<>>
  /\ policy \in Policies
  /\ cycles = 0
  /\ blind = FALSE

\* What the solver is given: the profile of a hibernating cluster says so.
Snapshot(profiles) ==
  [c \in Cluster |-> IF c \in seen THEN [profiles[c] EXCEPT !.health = "Hibernating"]
                     ELSE profiles[c]]

\* One pass of the solver over the current profiles; its traffic directive
\* supersedes one that is not applied yet.
Solve(profiles) ==
  /\ cycles < MaxCycles
  /\ cycles' = cycles + 1
  /\ plan' = solveTrafficWeights(Snapshot(profiles), policy)
  /\ \E result \in solveLifecycle(Snapshot(profiles), policy) :
       todo' = todo \cup {[type |-> "hibernate", cluster |-> c] : c \in result.hibernate}
                    \cup {[type |-> "wake_up", cluster |-> c] : c \in result.wakeUp}
  /\ blind' = (blind \/ todo # {} \/ seen # asleep)
  /\ UNCHANGED <<asleep, seen, policy, shifterVars>>

\* The traffic directive reaches the shifter.
ShiftTraffic ==
  /\ plan # <<>>
  /\ Apply(plan)
  /\ plan' = <<>>
  /\ UNCHANGED <<asleep, seen, todo, policy, cycles, blind>>

\* ExecuteDirective hibernates or wakes the cluster, or fails for good.
CarryOut(d) ==
  /\ todo' = todo \ {d}
  /\ \/ asleep' = IF d.type = "hibernate" THEN asleep \cup {d.cluster} ELSE asleep \ {d.cluster}
     \/ UNCHANGED asleep
  /\ UNCHANGED <<seen, plan, policy, cycles, blind, shifterVars>>

\* The profiles catch up with the clusters.
ReportStatus ==
  /\ seen # asleep
  /\ seen' = asleep
  /\ UNCHANGED <<asleep, todo, plan, policy, cycles, blind, shifterVars>>

Next ==
  \/ \E profiles \in [Cluster -> Profiles] : Solve(profiles)
  \/ ShiftTraffic
  \/ \E d \in todo : CarryOut(d)
  \/ ReportStatus
  \/ ShifterStep /\ UNCHANGED planeVars

Spec == Init /\ [][Next]_vars

-----------------------------------------------------------------------------
Abs(x) == IF x < 0 THEN -x ELSE x

\* The variables have their types: a record of a shift always holds a weight for
\* every entry of the route, and a monitor that sleeps or rolls back has one.
TypeOK ==
  /\ route.kind \in Kinds
  /\ \A b \in Backend : /\ route.entry[b].weight \in Int \cup {Unset}
                        /\ route.entry[b].extra \in BOOLEAN
  /\ shift # None => /\ DOMAIN shift.oldW = Backend
                     /\ DOMAIN shift.newW = DOMAIN shift.plan
                     /\ shift.unchecked \subseteq DOMAIN shift.newW
  /\ lastApplied # None => DOMAIN lastApplied.oldW = Backend
  /\ \A m \in Monitor : /\ mon[m].step \in {"idle", "sleep", "rollback"}
                        /\ mon[m].step # "idle" => DOMAIN mon[m].applied.oldW = Backend
  /\ {overtaken, partial, blind} \subseteq BOOLEAN
  /\ asleep \cup seen \subseteq Cluster
  /\ todo \subseteq [type : {"hibernate", "wake_up"}, cluster : Cluster]
  /\ policy \in Policies
  /\ cycles \in 0 .. MaxCycles

\* Weights that share the traffic out, given the policy's maxShift.
IsShare(w, maxShiftPercent) ==
  LET n        == Cardinality(DOMAIN w)
      maxShift == IF maxShiftPercent <= 0 THEN 25 ELSE maxShiftPercent
  IN  /\ \/ SumFunction(w) = 100
         \/ \A c \in DOMAIN w : w[c] = 100 \div n
      /\ \E best \in DOMAIN w : \A c \in DOMAIN w \ {best} :
           /\ n <= 100 => w[c] >= 1
           /\ 2 * Abs(n * w[c] - 100) <= (2 * maxShift + 1) * n
      /\ n <= 6 => \A c \in DOMAIN w : w[c] >= 1

\* A traffic directive distributes the whole of the traffic: its weights sum to
\* 100 (when all scores are zero: to 100 less the remainder of the division).
\* All but the cluster that takes the difference get at least 1 and are within
\* the policy's shift, rounded, of an equal share (scoresToWeights); among up to
\* six clusters that one has a weight of at least 1 as well.  Among eight or more
\* the roundings and the clamp can add up to more than its own weight.
PlanIsShare == plan # <<>> => IsShare(plan, policy.maxShift)

\* From an owner's route that sums to 100, and as long as every applied plan
\* named just its entries, the weights sum to 100 in whatever order shifts,
\* monitors and rollbacks of older shifts come (clampWeights, patchWeights).
\* A plan leaves out the clusters that are not eligible; their entries keep
\* their weights and the sum is then more than 100.
TotalKept == ~partial => SumFunction(readCurrentWeights(route)) = 100

\* A shift gives a destination more traffic than it has only after finding it
\* healthy (Apply), unless a monitor rolled an older shift back between its read
\* of the route and its patch.
IncreaseChecked ==
  [][shift # None /\ shift' = None /\ route' # route /\ ~overtaken =>
       \A b \in Backend :
         readCurrentWeights(route')[b] > readCurrentWeights(route)[b] => b \in checked]_vars

\* A rollback of the latest shift puts back the weights that this shift replaced
\* (MonitorAndRollback writes without the lock), unless the shift itself wrote
\* over a rollback that came after its read.
RollbackUndoes ==
  [][\A m \in Monitor :
       /\ mon[m].step = "rollback" /\ mon'[m].step = "idle" /\ route' # route
       /\ mon[m].applied = lastApplied /\ undo # None
       => readCurrentWeights(route') = undo]_vars

\* As long as every cycle sees what the directives of the earlier ones did, the
\* clusters neither hibernating nor told to are at least minActive
\* (solveLifecycle).  Unreachable clusters count: the last reachable one may be
\* among those told to hibernate.
KeepsMinActive ==
  ~blind => policy.minActive <=
              Cardinality(Cluster \ (asleep \cup {d.cluster : d \in {d \in todo : d.type = "hibernate"}}))
=============================================================================
