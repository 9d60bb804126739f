--------------------------- MODULE TrafficShifter ---------------------------
(***************************************************************************)
(* internal/global/traffic.go: Apply shifts the weights of one routing     *)
(* resource towards a plan, MonitorAndRollback watches the shift from a    *)
(* goroutine of its own and puts the old weights back if a destination     *)
(* degrades.                                                               *)
(*                                                                         *)
(* Apply holds ts.mu from its read of the resource to its record of the    *)
(* shift, so there is at most one Apply at a time (variable shift), but a  *)
(* monitor takes ts.mu only to look the shift up: its rollback runs        *)
(* against whatever is there by then.  patchWeights is a Get and an Update *)
(* with the resource version it got, so that it is atomic or fails.        *)
(* All shifts are of one resource: lastApplied has one key, and distinct   *)
(* resources share nothing but the lock.                                   *)
(*                                                                         *)
(* A route is [kind, entry]; an entry is [weight, extra], extra standing   *)
(* for the provider-specific settings beside the weight of a DNS endpoint. *)
(***************************************************************************)
EXTENDS Integers, Functions, FiniteSets

CONSTANTS
  Backend,     \* the entries of the routing resource
  Monitor,     \* goroutines running MonitorAndRollback
  MaxShift,    \* ts.maxShift
  Unset,       \* the weight of an entry that states none, or not a number
  InitRoutes,  \* the resource as its owner wrote it
  None

VARIABLES
  route,        \* the routing resource
  shift,        \* the Apply under way: [plan, oldW, newW, unchecked], or None
  lastApplied,  \* the record of the last shift: [plan, oldW], or None
  mon,          \* the goroutines: [step, applied]
  checked,      \* history: destinations this Apply found healthy
  overtaken,    \* history: a rollback wrote the route since Apply read it
  undo,         \* history: the weights that the last shift replaced; None
                \*   when it was overtaken
  partial       \* history: the owner's weights did not sum to 100, or a plan
                \*   that does not name just the route's entries was applied

shifterVars == <<route, shift, lastApplied, mon, checked, overtaken, undo, partial>>

Kinds == {"gateway-api", "istio", "external-dns"}

ASSUME ShiftAssumption ==
  /\ MaxShift \in Nat \ {0}
  /\ Unset \notin Int
  /\ InitRoutes \subseteq [kind : Kinds,
                           entry : [Backend -> [weight : Int \cup {Unset}, extra : BOOLEAN]]]

-----------------------------------------------------------------------------
(* Reading and writing the three kinds of resource. *)

readHTTPRouteWeights(entry) ==
  [b \in DOMAIN entry |-> IF entry[b].weight = Unset THEN 0 ELSE entry[b].weight]

readVirtualServiceWeights(entry) ==
  [b \in DOMAIN entry |-> IF entry[b].weight = Unset THEN 0 ELSE entry[b].weight]

\* The weight of a DNS endpoint is text; what does not scan is 0.
parseWeight(w) == IF w = Unset THEN 0 ELSE w

\* Mutant: an endpoint without a weight is skipped.
readDNSEndpointWeightsSet(entry) ==
  [b \in {b \in DOMAIN entry : entry[b].weight # Unset} |-> entry[b].weight]

readDNSEndpointWeights(entry) == [b \in DOMAIN entry |-> parseWeight(entry[b].weight)]

readCurrentWeights(r) ==
  CASE r.kind = "gateway-api"  -> readHTTPRouteWeights(r.entry)
    [] r.kind = "istio"        -> readVirtualServiceWeights(r.entry)
    [] r.kind = "external-dns" -> readDNSEndpointWeights(r.entry)

\* Names that the resource does not have are ignored, entries that are not
\* named keep their weight.
patchHTTPRoute(entry, w) ==
  [b \in DOMAIN entry |-> IF b \in DOMAIN w THEN [entry[b] EXCEPT !.weight = w[b]] ELSE entry[b]]

patchVirtualService(entry, w) ==
  [b \in DOMAIN entry |-> IF b \in DOMAIN w THEN [entry[b] EXCEPT !.weight = w[b]] ELSE entry[b]]

\* providerSpecific is replaced by a map with nothing but the weight.
patchDNSEndpoint(entry, w) ==
  [b \in DOMAIN entry |-> IF b \in DOMAIN w THEN [weight |-> w[b], extra |-> FALSE] ELSE entry[b]]

patchWeights(r, w) ==
  CASE r.kind = "gateway-api"  -> [r EXCEPT !.entry = patchHTTPRoute(@, w)]
    [] r.kind = "istio"        -> [r EXCEPT !.entry = patchVirtualService(@, w)]
    [] r.kind = "external-dns" -> [r EXCEPT !.entry = patchDNSEndpoint(@, w)]

-----------------------------------------------------------------------------
(* Clamping a plan. *)

Step(old, new) ==
  IF new - old > MaxShift THEN MaxShift ELSE IF new - old < -MaxShift THEN -MaxShift ELSE new - old

Floored(w) == IF w < 0 THEN 0 ELSE w

\* A backend missing from the resource counts as weight 0.
Moved(current, desired) ==
  [b \in DOMAIN desired |->
     LET old == IF b \in DOMAIN current THEN current[b] ELSE 0
     IN  Floored(old + Step(old, desired[b]))]

\* Mutant: the clamped weights are taken as they are.
NormalisedNot(w) == {w}

\* The largest entry takes what is missing from 100; a map has no order, so
\* any of the largest may.
Normalised(w) ==
  LET total == SumFunction(w)
  IN  IF total = 100 \/ total <= 0 THEN {w}
      ELSE {[w EXCEPT ![b] = @ + 100 - total] :
              b \in {b \in DOMAIN w : \A c \in DOMAIN w : w[c] <= w[b]}}

clampWeights(current, desired) == Normalised(Moved(current, desired))

-----------------------------------------------------------------------------
IdleMonitor == [step |-> "idle", applied |-> None]

ShifterInit ==
  /\ route \in InitRoutes
  /\ shift = None
  /\ lastApplied = None
  /\ mon = [m \in Monitor |-> IdleMonitor]
  /\ checked = {}
  /\ overtaken = FALSE
  /\ undo = None
  /\ partial = (SumFunction(readCurrentWeights(route)) # 100)

\* Apply takes the lock, reads the route and clamps the plan.  (A failed read
\* changes nothing.)
Apply(plan) ==
  /\ shift = None
  /\ LET old == readCurrentWeights(route)
     IN  \E new \in clampWeights(old, plan) :
           shift' = [plan |-> plan, oldW |-> old, newW |-> new,
                     unchecked |-> {b \in DOMAIN new :
                                      new[b] > (IF b \in DOMAIN old THEN old[b] ELSE 0)}]
  /\ checked' = {}
  /\ overtaken' = FALSE
  /\ UNCHANGED <<route, lastApplied, mon, undo, partial>>

\* CheckSLO of one destination that gets more traffic: at least 90%.
CheckDestination ==
  /\ shift # None
  /\ \E b \in shift.unchecked : /\ shift' = [shift EXCEPT !.unchecked = @ \ {b}]
                                /\ checked' = checked \cup {b}
  /\ UNCHANGED <<route, lastApplied, mon, overtaken, undo, partial>>

\* Below 90%, or the check fails: Apply returns with nothing written.
RefuseShift ==
  /\ shift # None
  /\ shift.unchecked # {}
  /\ shift' = None
  /\ UNCHANGED <<route, lastApplied, mon, checked, overtaken, undo, partial>>

\* Mutant: the first healthy destination is enough.
PatchShiftEarly ==
  /\ shift # None
  /\ shift.unchecked = {} \/ checked # {}
  /\ route' = patchWeights(route, shift.newW)
  /\ lastApplied' = [plan |-> shift.plan, oldW |-> shift.oldW]
  /\ shift' = None
  /\ undo' = IF overtaken THEN None ELSE readCurrentWeights(route)
  /\ partial' = (partial \/ DOMAIN shift.plan # Backend)
  /\ UNCHANGED <<mon, checked, overtaken>>

\* Mutant: the record of the previous shift, if there is one, is kept.
PatchShiftRecordsFirst ==
  /\ shift # None
  /\ shift.unchecked = {}
  /\ route' = patchWeights(route, shift.newW)
  /\ lastApplied' = [plan |-> shift.plan,
                     oldW |-> IF lastApplied = None THEN shift.oldW ELSE lastApplied.oldW]
  /\ shift' = None
  /\ undo' = IF overtaken THEN None ELSE readCurrentWeights(route)
  /\ partial' = (partial \/ DOMAIN shift.plan # Backend)
  /\ UNCHANGED <<mon, checked, overtaken>>

\* The patch succeeds, the shift is recorded and the lock released.
PatchShift ==
  /\ shift # None
  /\ shift.unchecked = {}
  /\ route' = patchWeights(route, shift.newW)
  /\ lastApplied' = [plan |-> shift.plan, oldW |-> shift.oldW]
  /\ shift' = None
  /\ undo' = IF overtaken THEN None ELSE readCurrentWeights(route)
  /\ partial' = (partial \/ DOMAIN shift.plan # Backend)
  /\ UNCHANGED <<mon, checked, overtaken>>

\* A conflict or an API error: the previous record stays.
PatchShiftFails ==
  /\ shift # None
  /\ shift.unchecked = {}
  /\ shift' = None
  /\ UNCHANGED <<route, lastApplied, mon, checked, overtaken, undo, partial>>

\* MonitorAndRollback looks the shift up under the lock, then sleeps.
StartMonitor(m) ==
  /\ mon[m].step = "idle"
  /\ shift = None
  /\ lastApplied # None
  /\ mon' = [mon EXCEPT ![m] = [step |-> "sleep", applied |-> lastApplied]]
  /\ UNCHANGED <<route, shift, lastApplied, checked, overtaken, undo, partial>>

\* After the window: the context is done, or every destination is healthy.
EndMonitor(m) ==
  /\ mon[m].step = "sleep"
  /\ mon' = [mon EXCEPT ![m] = IdleMonitor]
  /\ UNCHANGED <<route, shift, lastApplied, checked, overtaken, undo, partial>>

\* A destination of the plan is below minSLO or cannot be checked.
FindDegraded(m) ==
  /\ mon[m].step = "sleep"
  /\ mon' = [mon EXCEPT ![m].step = "rollback"]
  /\ UNCHANGED <<route, shift, lastApplied, checked, overtaken, undo, partial>>

\* The old weights are written back, without the lock; the record stays.
Rollback(m) ==
  /\ mon[m].step = "rollback"
  /\ route' = patchWeights(route, mon[m].applied.oldW)
  /\ mon' = [mon EXCEPT ![m] = IdleMonitor]
  /\ overtaken' = TRUE
  /\ UNCHANGED <<shift, lastApplied, checked, undo, partial>>

RollbackFails(m) ==
  /\ mon[m].step = "rollback"
  /\ mon' = [mon EXCEPT ![m] = IdleMonitor]
  /\ UNCHANGED <<route, shift, lastApplied, checked, overtaken, undo, partial>>

\* Everything but the start of an Apply, whose plan comes from the solver.
ShifterStep ==
  \/ CheckDestination
  \/ RefuseShift
  \/ PatchShift
  \/ PatchShiftFails
  \/ \E m \in Monitor : \/ StartMonitor(m)
                        \/ EndMonitor(m)
                        \/ FindDegraded(m)
                        \/ Rollback(m)
                        \/ RollbackFails(m)
=============================================================================
