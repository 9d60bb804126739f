-------------------------- MODULE FederationProofs --------------------------
(***************************************************************************)
(* Proofs about the federation of clusters: Lifecycle, for any sets of     *)
(* clusters, tenants and executors, any management cluster and any idle    *)
(* window, and HubSpoke, for any time-to-live and any number of            *)
(* directives.                                                             *)
(*                                                                         *)
(* The first theorems about Lifecycle hold however directives overlap.     *)
(* The others assume Serial, that the manager is given one directive at a  *)
(* time; the run Lifecycle_overlap_tenants shows that it is needed.        *)
(* Whatever calls are lost, late or cut off by restarts, hub and agent     *)
(* together implement the mailbox of module Mailbox.                       *)
(***************************************************************************)
EXTENDS Lifecycle, HubSpoke, SequenceTheorems, TLAPS

-----------------------------------------------------------------------------
(* The lifecycle manager. *)

\* One caller of ExecuteDirective.
Serial == \A e, f \in Executor : e = f

LEMMA WindowEnds == 0 \in 0 .. IdleWindow /\ IdleWindow \in 0 .. IdleWindow
  BY IdleWindowAssumption

LEMMA OlderType ==
  ASSUME NEW age \in 0 .. IdleWindow
  PROVE  Older(age) \in 0 .. IdleWindow
  BY IdleWindowAssumption DEF Older

LEMMA CallCluster ==
  ASSUME TypeOK, NEW e \in Executor, ~At(e, "return")
  PROVE  /\ call[e] \in Call
         /\ call[e].cluster \in Cluster
  BY DEF TypeOK, At, noCall, Call

LEMMA EvictedType ==
  ASSUME TypeOK, NEW c, NEW ts
  PROVE  Evicted(c, ts) \in [Tenant -> SUBSET Cluster]
  BY Zenon DEF TypeOK, Evicted

LEMMA InitFacts ==
  ASSUME Init
  PROVE  /\ \A e \in Executor : At(e, "return")
         /\ \A c \in Cluster : /\ states[c] = "" /\ pools[c] = "serving"
                               /\ idleFor[c] = notIdle /\ awakeFor[c] = IdleWindow
<1>1. \A e \in Executor : call[e] = noCall
  BY Zenon DEF Init
<1>2. \A e \in Executor : At(e, "return")
  BY <1>1 DEF At, noCall
<1>3. QED
  BY <1>2, Zenon DEF Init

(* Type correctness: every handler leaves the manager's maps, the calls and  *)
(* the clusters' state in their types.                                       *)
THEOREM LifecycleTypeCorrect == Spec => []TypeOK
<1>1. Init => TypeOK
  <2> SUFFICES ASSUME Init PROVE TypeOK
    BY Zenon
  <2>1. hosts \in [Tenant -> SUBSET Cluster]
    BY Zenon DEF Init
  <2>2. QED
    BY <2>1, WindowEnds, Zenon DEF Init, TypeOK, LifecycleState
<1>2. TypeOK /\ [Next]_vars => TypeOK'
  <2> SUFFICES ASSUME TypeOK, [Next]_vars
               PROVE  TypeOK'
    BY Zenon
  <2>1. ASSUME NEW e \in Executor, NEW c \in Cluster, executeHibernate(e, c)
        PROVE  TypeOK'
    BY <2>1, Zenon DEF TypeOK, executeHibernate, setState, Call, Step, LifecycleState
  <2>2. ASSUME NEW e \in Executor, NEW c \in Cluster, executeWakeUp(e, c)
        PROVE  TypeOK'
    BY <2>2, Zenon DEF TypeOK, executeWakeUp, setState, Call, Step, LifecycleState
  <2>3. ASSUME NEW e \in Executor, proceed(e)
        PROVE  TypeOK'
    <3> DEFINE c == call[e].cluster
    <3>1. call[e] \in Call /\ c \in Cluster
      <4>1. ~At(e, "return")
        BY <2>3, Zenon DEF proceed, At, checkTenants, drain, drainFailed, scaleToZero,
             scaleToZeroFailed, revert, hibernated, scaleUp, scaleUpFailed,
             unwake, awake, clearIdle
      <4>2. QED  BY <4>1, CallCluster, Zenon
    <3>2. \A step \in Step : goto(e, step) => call' \in [Executor -> Call \cup {noCall}]
      BY <3>1 DEF goto, TypeOK, Call
    <3>3. return(e) => call' \in [Executor -> Call \cup {noCall}]
      BY Zenon DEF return, TypeOK
    <3>4. CASE checkTenants(e)
      BY <3>4, <3>2, Zenon DEF checkTenants, TypeOK, Step
    <3>5. CASE drain(e)
      BY <3>5, <3>1, <3>2, EvictedType, Zenon DEF drain, TypeOK, Step
    <3>6. CASE drainFailed(e)
      BY <3>6, <3>1, <3>2, EvictedType DEF drainFailed, fail, TypeOK, Step
    <3>7. CASE scaleToZero(e)
      BY <3>7, <3>1, <3>2, EvictedType, Zenon DEF scaleToZero, TypeOK, Step
    <3>8. CASE scaleToZeroFailed(e)
      BY <3>8, <3>1, <3>2, EvictedType DEF scaleToZeroFailed, fail, TypeOK, Step
    <3>9. CASE revert(e)
      BY <3>9, <3>1, <3>3, Zenon DEF revert, setState, TypeOK, LifecycleState
    <3>10. CASE hibernated(e)
      BY <3>10, <3>1, <3>3, Zenon DEF hibernated, setState, TypeOK, LifecycleState
    <3>11. CASE scaleUp(e)
      BY <3>11, <3>1, <3>2, Zenon DEF scaleUp, TypeOK, Step
    <3>12. CASE scaleUpFailed(e)
      BY <3>12, <3>1, <3>2, Zenon DEF scaleUpFailed, fail, TypeOK, Step
    <3>13. CASE unwake(e)
      BY <3>13, <3>1, <3>3, Zenon DEF unwake, setState, TypeOK, LifecycleState
    <3>14. CASE awake(e)
      BY <3>14, <3>1, <3>2, WindowEnds, Zenon
         DEF awake, setState, TypeOK, LifecycleState, Step
    <3>15. CASE clearIdle(e)
      BY <3>15, <3>1, <3>3, Zenon DEF clearIdle, TypeOK
    <3>16. QED
      BY <2>3, <3>4, <3>5, <3>6, <3>7, <3>8, <3>9, <3>10, <3>11, <3>12, <3>13,
         <3>14, <3>15, Zenon DEF proceed
  <2>4. ASSUME NEW c \in Cluster, NEW low \in BOOLEAN, UpdateIdleStatus(c, low)
        PROVE  TypeOK'
    BY <2>4, IdleWindowAssumption DEF UpdateIdleStatus, TypeOK, notIdle
  <2>5. ASSUME NEW t \in Tenant, NEW c \in Cluster, place(t, c)
        PROVE  TypeOK'
    BY <2>5, Zenon DEF place, TypeOK
  <2>6. CASE tick
    <3>1. \A c \in Cluster : idleFor[c] # notIdle => idleFor[c] \in 0 .. IdleWindow
      BY Zenon DEF TypeOK
    <3>2. QED  BY <2>6, <3>1, OlderType, Zenon DEF tick, TypeOK
  <2>7. CASE restart
    BY <2>7, Zenon DEF restart, TypeOK, LifecycleState
  <2>8. CASE UNCHANGED vars
    BY <2>8, Zenon DEF vars, TypeOK
  <2>9. QED
    BY <2>1, <2>2, <2>3, <2>4, <2>5, <2>6, <2>7, <2>8, Zenon DEF Next, ExecuteDirective
<1>3. QED
  BY <1>1, <1>2, PTL DEF Spec

-----------------------------------------------------------------------------
(* Whatever the overlap: the management cluster and the idle tracker.        *)

\* No directive that may take pools down is in progress on the management cluster.
ManagementInv ==
  /\ ManagementServes
  /\ \A e \in Executor :
       call[e].step \in {"tenants", "drain", "scaleToZero"} => call[e].cluster # mgmtCluster

(* The management cluster is never drained or scaled down: executeHibernate  *)
(* turns it away before it changes anything, and only calls it let in drain. *)
THEOREM ManagementHolds == Spec => []ManagementServes
<1>1. Init => ManagementInv
  BY InitFacts, Zenon DEF ManagementInv, ManagementServes, At
<1>2. TypeOK /\ ManagementInv /\ [Next]_vars => ManagementInv'
  <2> SUFFICES ASSUME TypeOK, ManagementInv, [Next]_vars
               PROVE  ManagementInv'
    BY Zenon
  <2> USE DEF ManagementInv, ManagementServes, TypeOK
  <2>1. ASSUME NEW e \in Executor, NEW c \in Cluster, executeHibernate(e, c)
        PROVE  ManagementInv'
    BY <2>1, Zenon DEF executeHibernate
  <2>2. ASSUME NEW e \in Executor, NEW c \in Cluster, executeWakeUp(e, c)
        PROVE  ManagementInv'
    BY <2>2, ZenonT(30) DEF executeWakeUp
  <2>3. ASSUME NEW e \in Executor, proceed(e)
        PROVE  ManagementInv'
    <3> DEFINE c == call[e].cluster
    <3>1. At(e, "return") \/ (call[e] \in Call /\ c \in Cluster)
      BY CallCluster, Zenon
    <3>2. CASE checkTenants(e)
      BY <3>1, <3>2 DEF checkTenants, At, goto, Call
    <3>3. CASE drain(e) \/ drainFailed(e)
      BY <3>1, <3>3 DEF drain, drainFailed, fail, At, goto, Call
    <3>4. CASE scaleToZero(e) \/ scaleToZeroFailed(e)
      BY <3>1, <3>4 DEF scaleToZero, scaleToZeroFailed, fail, At, goto, Call
    <3>5. CASE revert(e) \/ hibernated(e) \/ unwake(e) \/ clearIdle(e)
      BY <3>5 DEF revert, hibernated, unwake, clearIdle, return, noCall
    <3>6. CASE scaleUp(e) \/ scaleUpFailed(e)
      BY <3>1, <3>6 DEF scaleUp, scaleUpFailed, fail, At, goto, Call
    <3>7. CASE awake(e)
      BY <3>1, <3>7, Zenon DEF awake, At, goto, Call
    <3>8. QED
      BY <2>3, <3>2, <3>3, <3>4, <3>5, <3>6, <3>7, Zenon DEF proceed
  <2>4. ASSUME NEW c \in Cluster, NEW low \in BOOLEAN, UpdateIdleStatus(c, low)
        PROVE  ManagementInv'
    BY <2>4, Zenon DEF UpdateIdleStatus
  <2>5. ASSUME NEW t \in Tenant, NEW c \in Cluster, place(t, c)
        PROVE  ManagementInv'
    BY <2>5, Zenon DEF place
  <2>6. CASE tick
    BY <2>6, Zenon DEF tick
  <2>7. CASE restart
    BY <2>7, Zenon DEF restart, noCall
  <2>8. CASE UNCHANGED vars
    BY <2>8, Zenon DEF vars
  <2>9. QED
    BY <2>1, <2>2, <2>3, <2>4, <2>5, <2>6, <2>7, <2>8, Zenon DEF Next, ExecuteDirective
<1>3. ManagementInv => ManagementServes
  BY Zenon DEF ManagementInv
<1>4. QED
  BY <1>1, <1>2, <1>3, LifecycleTypeCorrect, PTL DEF Spec

Clearing(c) == \E e \in Executor : At(e, "clearIdle") /\ call[e].cluster = c

\* The idle time on record is no longer than the time awake, in every state of
\* the cluster, until the wake-up that reset the latter has cleared the former.
IdleInv == \A c \in Cluster : idleFor[c] <= awakeFor[c] \/ Clearing(c)

(* After a wake-up, a whole idle window passes before UpdateIdleStatus calls *)
(* the cluster a hibernation candidate again.                                *)
THEOREM IdleHolds == Spec => []IdleSinceAwake
<1>1. Init => IdleInv
  <2> SUFFICES ASSUME Init, NEW c \in Cluster
               PROVE  idleFor[c] <= awakeFor[c]
    BY Zenon DEF IdleInv
  <2>1. idleFor[c] = -1 /\ awakeFor[c] = IdleWindow
    BY InitFacts, Zenon DEF notIdle
  <2>2. QED  BY <2>1, IdleWindowAssumption
<1>2. TypeOK /\ IdleInv /\ [Next]_vars => IdleInv'
  <2> SUFFICES ASSUME TypeOK, IdleInv, [Next]_vars, NEW d \in Cluster
               PROVE  (idleFor[d] <= awakeFor[d] \/ Clearing(d))'
    BY Zenon DEF IdleInv
  <2>a. idleFor[d] <= awakeFor[d] \/ Clearing(d)
    BY Zenon DEF IdleInv
  <2>b. /\ awakeFor[d] \in 0 .. IdleWindow
        /\ idleFor[d] \in {notIdle} \cup 0 .. IdleWindow
    BY Zenon DEF TypeOK
  <2>1. ASSUME NEW e \in Executor, ExecuteDirective(e)
        PROVE  (idleFor[d] <= awakeFor[d] \/ Clearing(d))'
    BY <2>1, <2>a, ZenonT(30) DEF ExecuteDirective, executeHibernate, executeWakeUp, Clearing, At, TypeOK
  <2>2. ASSUME NEW e \in Executor, proceed(e)
        PROVE  (idleFor[d] <= awakeFor[d] \/ Clearing(d))'
    <3>1. CASE ~At(e, "awake") /\ ~At(e, "clearIdle")
      <4>1. UNCHANGED <<idleFor, awakeFor>>
        BY <2>2, <3>1, Zenon DEF proceed, checkTenants, drain, drainFailed, scaleToZero,
             scaleToZeroFailed, revert, hibernated, scaleUp, scaleUpFailed, unwake,
             awake, clearIdle
      <4>2. \A f \in Executor : f # e => call'[f] = call[f]
        BY <2>2, Zenon DEF proceed, checkTenants, drain, drainFailed, scaleToZero,
             scaleToZeroFailed, revert, hibernated, scaleUp, scaleUpFailed, unwake,
             awake, clearIdle, fail, goto, return, TypeOK
      <4>3. QED
        BY <2>a, <3>1, <4>1, <4>2, Zenon DEF Clearing, At
    <3>2. CASE awake(e)
      <4>1. call[e] \in Call
        BY <3>2, CallCluster, Zenon DEF awake, At
      <4>2. CASE call[e].cluster = d
        BY <3>2, <4>1, <4>2, Zenon DEF awake, goto, Clearing, At, Call, TypeOK
      <4>3. CASE call[e].cluster # d
        <5>1. UNCHANGED <<idleFor[d], awakeFor[d]>>
          BY <3>2, <4>3, Zenon DEF awake, TypeOK
        <5>2. \A f \in Executor : f # e => call'[f] = call[f]
          BY <3>2, Zenon DEF awake, goto, TypeOK
        <5>3. QED
          BY <2>a, <3>2, <4>3, <5>1, <5>2, Zenon DEF awake, Clearing, At
      <4>4. QED  BY <4>2, <4>3, Zenon
    <3>3. CASE clearIdle(e)
      <4>1. CASE call[e].cluster = d
        <5>1. idleFor'[d] = notIdle /\ awakeFor'[d] = awakeFor[d]
          BY <3>3, <4>1, Zenon DEF clearIdle, TypeOK
        <5>2. QED  BY <2>b, <5>1 DEF notIdle
      <4>2. CASE call[e].cluster # d
        <5>1. UNCHANGED <<idleFor[d], awakeFor[d]>>
          BY <3>3, <4>2, Zenon DEF clearIdle, TypeOK
        <5>2. \A f \in Executor : f # e => call'[f] = call[f]
          BY <3>3, Zenon DEF clearIdle, return, TypeOK
        <5>3. QED
          BY <2>a, <3>3, <4>2, <5>1, <5>2, Zenon DEF Clearing, At
      <4>3. QED  BY <4>1, <4>2, Zenon
    <3>4. QED
      BY <2>2, <3>1, <3>2, <3>3, Zenon DEF proceed, checkTenants, drain, drainFailed,
         scaleToZero, scaleToZeroFailed, revert, hibernated, scaleUp, scaleUpFailed,
         unwake, At
  <2>3. ASSUME NEW c \in Cluster, NEW low \in BOOLEAN, UpdateIdleStatus(c, low)
        PROVE  (idleFor[d] <= awakeFor[d] \/ Clearing(d))'
    <3>1. idleFor'[d] \in {notIdle, 0, idleFor[d]} /\ awakeFor'[d] = awakeFor[d]
      BY <2>3, Zenon DEF UpdateIdleStatus, TypeOK
    <3>2. Clearing(d)' <=> Clearing(d)
      BY <2>3, Zenon DEF UpdateIdleStatus, Clearing, At
    <3>3. QED  BY <2>a, <2>b, <3>1, <3>2 DEF notIdle
  <2>4. ASSUME NEW t \in Tenant, NEW c \in Cluster, place(t, c)
        PROVE  (idleFor[d] <= awakeFor[d] \/ Clearing(d))'
    BY <2>4, <2>a, Zenon DEF place, Clearing, At
  <2>5. CASE tick
    <3>1. /\ idleFor'[d] = IF idleFor[d] = notIdle THEN notIdle ELSE Older(idleFor[d])
          /\ awakeFor'[d] = Older(awakeFor[d])
      BY <2>5, Zenon DEF tick
    <3>2. Clearing(d)' <=> Clearing(d)
      BY <2>5, Zenon DEF tick, Clearing, At
    <3>3. QED  BY <2>a, <2>b, <3>1, <3>2, IdleWindowAssumption DEF notIdle, Older
  <2>6. CASE restart
    <3>1. idleFor'[d] = notIdle /\ awakeFor'[d] = awakeFor[d]
      BY <2>6, Zenon DEF restart
    <3>2. QED  BY <2>b, <3>1 DEF notIdle
  <2>7. CASE UNCHANGED vars
    BY <2>7, <2>a, Zenon DEF vars, Clearing, At
  <2>8. QED
    BY <2>1, <2>2, <2>3, <2>4, <2>5, <2>6, <2>7, Zenon DEF Next
<1>3. TypeOK /\ IdleInv => IdleSinceAwake
  <2> SUFFICES ASSUME TypeOK, IdleInv, NEW c \in Cluster, IdleLongEnough(c), ~Clearing(c)
               PROVE  awakeFor[c] >= IdleWindow
    BY Zenon DEF IdleSinceAwake, Clearing
  <2>1. idleFor[c] <= awakeFor[c] /\ idleFor[c] >= IdleWindow
    BY Zenon DEF IdleInv, IdleLongEnough
  <2>2. idleFor[c] \in Int /\ awakeFor[c] \in Int
    BY IdleWindowAssumption DEF TypeOK, notIdle
  <2>3. QED  BY <2>1, <2>2, IdleWindowAssumption
<1>4. QED
  BY <1>1, <1>2, <1>3, LifecycleTypeCorrect, PTL DEF Spec
-----------------------------------------------------------------------------
(* One directive at a time.                                                  *)

Sure(c, p) == c \in unsure \/ pools[c] = p

\* What a directive in progress knows of its cluster at each of its steps.
PhaseOf(step, c) ==
  /\ step \in {"tenants", "drain", "revert"} => states[c] = "draining" /\ Sure(c, "serving")
  /\ step = "scaleToZero" => states[c] = "draining" /\ Sure(c, "cordoned")
  /\ step = "hibernated" => states[c] = "draining" /\ pools[c] = "zero"
  /\ step = "scaleUp" => states[c] = "waking" /\ Sure(c, "zero")
  /\ step = "unwake" => states[c] = "waking" /\ c \in unsure
  /\ step = "awake" => states[c] = "waking" /\ pools[c] = "serving"
  /\ step = "clearIdle" => states[c] = "active" /\ pools[c] = "serving"

\* A hibernated cluster is left by a wake-up only.
AsleepOf(step, c) ==
  step \in {"tenants", "drain", "scaleToZero", "revert", "hibernated", "clearIdle"}
    => c \notin asleep

StateInv ==
  /\ StateTellsPools
  /\ Wakeable
  /\ \A e \in Executor : ~At(e, "return") =>
       PhaseOf(call[e].step, call[e].cluster) /\ AsleepOf(call[e].step, call[e].cluster)

\* The sole-location check still holds when the workloads are drained, and the
\* drained cluster is nobody's only location when its pools go down.
TenantInv ==
  /\ TenantsKeepALocation
  /\ \A e \in Executor, t \in Tenant :
       /\ At(e, "drain") => hosts[t] # {call[e].cluster}
       /\ At(e, "scaleToZero") => hosts[t] \ {call[e].cluster} # {}

Settled(c) ==
  \/ c \in unsure
  \/ states[c] \in {"", "active"} /\ pools[c] = "serving"
  \/ states[c] = "hibernating" /\ pools[c] = "zero"

\* A step on c leaves every other cluster alone.
OnlyOn(c) ==
  \A d \in Cluster \ {c} :
    /\ states'[d] = states[d]
    /\ pools'[d] = pools[d]
    /\ d \in unsure' <=> d \in unsure
    /\ d \in asleep' <=> d \in asleep

\* With one caller, only the cluster of its directive is in progress.
LEMMA OneInProgress ==
  ASSUME Serial, NEW e \in Executor, NEW c \in Cluster,
         ~At(e, "return"), call[e].cluster = c
  PROVE  \A d \in Cluster : InProgress(d) <=> d = c
  BY Zenon DEF Serial, InProgress

LEMMA NoneInProgress ==
  ASSUME Serial, NEW e \in Executor, At(e, "return")
  PROVE  \A d \in Cluster : ~InProgress(d)
  BY Zenon DEF Serial, InProgress

\* A directive enters a step: begun, or gone on with.
LEMMA MidStep ==
  ASSUME Serial, TypeOK, StateInv, NEW e \in Executor, NEW c \in Cluster, NEW step \in Step,
         At(e, "return") \/ call[e].cluster = c,
         call' = [call EXCEPT ![e] = [step |-> step, cluster |-> c]],
         OnlyOn(c), asleep' \subseteq Cluster,
         PhaseOf(step, c)', AsleepOf(step, c)'
  PROVE  StateInv'
<1>1. call'[e] = [step |-> step, cluster |-> c]
  BY Zenon DEF TypeOK
<1>2. ~At(e, "return")' /\ call'[e].step = step /\ call'[e].cluster = c
  BY <1>1 DEF At, Step
<1>3. \A d \in Cluster : InProgress(d)' <=> d = c
  BY <1>2, Zenon DEF Serial, InProgress
<1>4. \A d \in Cluster \ {c} : ~InProgress(d)
  BY OneInProgress, NoneInProgress, Zenon
<1>5. StateTellsPools'
  <2> SUFFICES ASSUME NEW d \in Cluster, d # c
               PROVE  Settled(d)'
    BY <1>3, ZenonT(30) DEF StateTellsPools, Settled
  <2>1. Settled(d)
    BY <1>4, ZenonT(30) DEF StateInv, StateTellsPools, Settled
  <2>2. QED  BY <2>1, Zenon DEF OnlyOn, Settled
<1>6. Wakeable'
  <2> SUFFICES ASSUME NEW d \in asleep', d # c
               PROVE  states'[d] = "hibernating"
    BY <1>3, ZenonT(30) DEF Wakeable
  <2>1. QED  BY <1>4, ZenonT(30) DEF OnlyOn, StateInv, Wakeable
<1>7. \A f \in Executor : /\ PhaseOf(call[f].step, call[f].cluster)'
                          /\ AsleepOf(call[f].step, call[f].cluster)'
  <2> SUFFICES /\ PhaseOf(call[e].step, call[e].cluster)'
               /\ AsleepOf(call[e].step, call[e].cluster)'
    BY Zenon DEF Serial
  <2>1. QED  BY <1>2, Zenon DEF PhaseOf, AsleepOf, Sure
<1>8. QED
  BY <1>5, <1>6, <1>7, Zenon DEF StateInv

\* A directive returns.
LEMMA EndStep ==
  ASSUME Serial, TypeOK, StateInv, NEW e \in Executor, NEW c \in Cluster,
         ~At(e, "return"), call[e].cluster = c,
         return(e), OnlyOn(c), asleep' \subseteq Cluster,
         Settled(c)', c \in asleep' => states'[c] = "hibernating"
  PROVE  StateInv'
<1>1. At(e, "return")'
  BY Zenon DEF TypeOK, return, At, noCall
<1>2. \A d \in Cluster : ~InProgress(d)'
  BY <1>1, Zenon DEF Serial, InProgress
<1>3. \A d \in Cluster \ {c} : ~InProgress(d)
  BY OneInProgress, Zenon
<1>4. StateTellsPools'
  <2> SUFFICES ASSUME NEW d \in Cluster, d # c
               PROVE  Settled(d)'
    BY ZenonT(30) DEF StateTellsPools, Settled
  <2>1. Settled(d)
    BY <1>3, Zenon DEF StateInv, StateTellsPools, Settled
  <2>2. QED  BY <2>1, Zenon DEF OnlyOn, Settled
<1>5. Wakeable'
  <2> SUFFICES ASSUME NEW d \in asleep', d # c
               PROVE  states'[d] = "hibernating"
    BY Zenon DEF Wakeable
  <2>1. QED  BY <1>3, Zenon DEF OnlyOn, StateInv, Wakeable
<1>6. QED
  BY <1>1, <1>4, <1>5, Zenon DEF StateInv, Serial

LEMMA GotoForm ==
  ASSUME TypeOK, NEW e \in Executor, NEW step \in Step, ~At(e, "return"), goto(e, step)
  PROVE  call' = [call EXCEPT ![e] = [step |-> step, cluster |-> call[e].cluster]]
<1>1. call[e] \in Call
  BY CallCluster, Zenon
<1>2. [call[e] EXCEPT !.step = step] = [step |-> step, cluster |-> call[e].cluster]
  BY <1>1 DEF Call
<1>3. QED  BY <1>2, Zenon DEF goto

LEMMA StateStep == Serial /\ TypeOK /\ StateInv /\ [Next]_vars => StateInv'
<1> SUFFICES ASSUME Serial, TypeOK, StateInv, [Next]_vars
             PROVE  StateInv'
  BY Zenon
<1>1. ASSUME NEW e \in Executor, NEW c \in Cluster, executeHibernate(e, c)
      PROVE  StateInv'
  <2>1. Settled(c) /\ c \notin asleep
    BY <1>1, NoneInProgress, Zenon
       DEF executeHibernate, StateInv, StateTellsPools, Wakeable, Settled
  <2>2. OnlyOn(c) /\ asleep' \subseteq Cluster
    BY <1>1, Zenon DEF executeHibernate, setState, OnlyOn, TypeOK
  <2>3. PhaseOf("tenants", c)' /\ AsleepOf("tenants", c)'
    BY <1>1, <2>1, Zenon DEF executeHibernate, setState, PhaseOf, AsleepOf, Sure, Settled, TypeOK
  <2>4. "tenants" \in Step
    BY Zenon DEF Step
  <2>5. QED  BY <1>1, <2>2, <2>3, <2>4, MidStep, Zenon DEF executeHibernate
<1>2. ASSUME NEW e \in Executor, NEW c \in Cluster, executeWakeUp(e, c)
      PROVE  StateInv'
  <2>1. Settled(c)
    BY <1>2, NoneInProgress, Zenon DEF executeWakeUp, StateInv, StateTellsPools, Settled
  <2>2. OnlyOn(c) /\ asleep' \subseteq Cluster
    BY <1>2, Zenon DEF executeWakeUp, setState, OnlyOn, TypeOK
  <2>3. PhaseOf("scaleUp", c)' /\ AsleepOf("scaleUp", c)'
    BY <1>2, <2>1, Zenon DEF executeWakeUp, setState, PhaseOf, AsleepOf, Sure, Settled, TypeOK
  <2>4. "scaleUp" \in Step
    BY Zenon DEF Step
  <2>5. QED  BY <1>2, <2>2, <2>3, <2>4, MidStep, ZenonT(30) DEF executeWakeUp
<1>3. ASSUME NEW e \in Executor, NEW c \in Cluster, call[e].cluster = c,
             ~At(e, "return"), proceed(e)
      PROVE  StateInv'
  <2>a. PhaseOf(call[e].step, c) /\ AsleepOf(call[e].step, c)
    BY <1>3, Zenon DEF StateInv
  <2>b. ASSUME NEW step \in Step, goto(e, step), OnlyOn(c), asleep' \subseteq Cluster,
               PhaseOf(step, c)', AsleepOf(step, c)'
        PROVE  StateInv'
    BY <1>3, <2>b, GotoForm, MidStep, Zenon
  <2>c. ASSUME return(e), OnlyOn(c), asleep' \subseteq Cluster, Settled(c)',
               c \in asleep' => states'[c] = "hibernating"
        PROVE  StateInv'
    BY <1>3, <2>c, EndStep, Zenon
  <2>1. CASE checkTenants(e)
    <3>1. OnlyOn(c) /\ asleep' \subseteq Cluster
      BY <1>3, <2>1, Zenon DEF checkTenants, OnlyOn, TypeOK
    <3>2. PICK step \in {"revert", "drain"} : goto(e, step)
      BY <2>1, Zenon DEF checkTenants
    <3>3. PhaseOf(step, c)' /\ AsleepOf(step, c)'
      BY <1>3, <2>a, <2>1, Zenon DEF checkTenants, At, PhaseOf, AsleepOf, Sure
    <3>4. QED  BY <2>b, <3>1, <3>2, <3>3, Zenon DEF Step
  <2>2. CASE drain(e)
    <3>1. OnlyOn(c) /\ asleep' \subseteq Cluster
      BY <1>3, <2>2, Zenon DEF drain, OnlyOn, TypeOK
    <3>2. goto(e, "scaleToZero") /\ "scaleToZero" \in Step
      BY <2>2, Zenon DEF drain, Step
    <3>3. PhaseOf("scaleToZero", c)' /\ AsleepOf("scaleToZero", c)'
      BY <1>3, <2>a, <2>2, Zenon DEF drain, At, PhaseOf, AsleepOf, Sure, TypeOK
    <3>4. QED  BY <2>b, <3>1, <3>2, <3>3, Zenon
  <2>3. CASE drainFailed(e)
    <3>1. OnlyOn(c) /\ asleep' \subseteq Cluster
      BY <1>3, <2>3, Zenon DEF drainFailed, fail, OnlyOn, TypeOK
    <3>2. goto(e, "revert") /\ "revert" \in Step
      BY <2>3, Zenon DEF drainFailed, fail, Step
    <3>3. PhaseOf("revert", c)' /\ AsleepOf("revert", c)'
      BY <1>3, <2>a, <2>3, Zenon DEF drainFailed, fail, At, PhaseOf, AsleepOf, Sure, TypeOK
    <3>4. QED  BY <2>b, <3>1, <3>2, <3>3, Zenon
  <2>4. CASE scaleToZero(e)
    <3>1. OnlyOn(c) /\ asleep' \subseteq Cluster
      BY <1>3, <2>4, Zenon DEF scaleToZero, OnlyOn, TypeOK
    <3>2. goto(e, "hibernated") /\ "hibernated" \in Step
      BY <2>4, Zenon DEF scaleToZero, Step
    <3>3. PhaseOf("hibernated", c)' /\ AsleepOf("hibernated", c)'
      BY <1>3, <2>a, <2>4, Zenon DEF scaleToZero, At, PhaseOf, AsleepOf, Sure, TypeOK
    <3>4. QED  BY <2>b, <3>1, <3>2, <3>3, Zenon
  <2>5. CASE scaleToZeroFailed(e)
    <3>1. OnlyOn(c) /\ asleep' \subseteq Cluster
      BY <1>3, <2>5, Zenon DEF scaleToZeroFailed, fail, OnlyOn, TypeOK
    <3>2. goto(e, "revert") /\ "revert" \in Step
      BY <2>5, Zenon DEF scaleToZeroFailed, fail, Step
    <3>3. PhaseOf("revert", c)' /\ AsleepOf("revert", c)'
      BY <1>3, <2>a, <2>5, Zenon DEF scaleToZeroFailed, fail, At, PhaseOf, AsleepOf, Sure, TypeOK
    <3>4. QED  BY <2>b, <3>1, <3>2, <3>3, Zenon
  <2>6. CASE revert(e)
    <3>1. OnlyOn(c) /\ asleep' \subseteq Cluster
      BY <1>3, <2>6, Zenon DEF revert, setState, OnlyOn, TypeOK
    <3>2. Settled(c)' /\ (c \in asleep' => states'[c] = "hibernating")
      BY <1>3, <2>a, <2>6, Zenon DEF revert, setState, At, PhaseOf, AsleepOf, Sure, Settled, TypeOK
    <3>3. QED  BY <2>6, <2>c, <3>1, <3>2, Zenon DEF revert
  <2>7. CASE hibernated(e)
    <3>1. OnlyOn(c) /\ asleep' \subseteq Cluster
      BY <1>3, <2>7, Zenon DEF hibernated, setState, OnlyOn, TypeOK
    <3>2. Settled(c)' /\ (c \in asleep' => states'[c] = "hibernating")
      BY <1>3, <2>a, <2>7, Zenon DEF hibernated, setState, At, PhaseOf, AsleepOf, Sure, Settled, TypeOK
    <3>3. QED  BY <2>7, <2>c, <3>1, <3>2, Zenon DEF hibernated
  <2>8. CASE scaleUp(e)
    <3>1. OnlyOn(c) /\ asleep' \subseteq Cluster
      BY <1>3, <2>8, Zenon DEF scaleUp, OnlyOn, TypeOK
    <3>2. goto(e, "awake") /\ "awake" \in Step
      BY <2>8, Zenon DEF scaleUp, Step
    <3>3. PhaseOf("awake", c)' /\ AsleepOf("awake", c)'
      BY <1>3, <2>a, <2>8, Zenon DEF scaleUp, At, PhaseOf, AsleepOf, Sure, TypeOK
    <3>4. QED  BY <2>b, <3>1, <3>2, <3>3, Zenon
  <2>9. CASE scaleUpFailed(e)
    <3>1. OnlyOn(c) /\ asleep' \subseteq Cluster
      BY <1>3, <2>9, Zenon DEF scaleUpFailed, fail, OnlyOn, TypeOK
    <3>2. goto(e, "unwake") /\ "unwake" \in Step
      BY <2>9, Zenon DEF scaleUpFailed, fail, Step
    <3>3. PhaseOf("unwake", c)' /\ AsleepOf("unwake", c)'
      BY <1>3, <2>a, <2>9, Zenon DEF scaleUpFailed, fail, At, PhaseOf, AsleepOf, Sure, TypeOK
    <3>4. QED  BY <2>b, <3>1, <3>2, <3>3, Zenon
  <2>10. CASE unwake(e)
    <3>1. OnlyOn(c) /\ asleep' \subseteq Cluster
      BY <1>3, <2>10, Zenon DEF unwake, setState, OnlyOn, TypeOK
    <3>2. Settled(c)' /\ (c \in asleep' => states'[c] = "hibernating")
      BY <1>3, <2>a, <2>10, Zenon DEF unwake, setState, At, PhaseOf, AsleepOf, Sure, Settled, TypeOK
    <3>3. QED  BY <2>10, <2>c, <3>1, <3>2, Zenon DEF unwake
  <2>11. CASE awake(e)
    <3>1. OnlyOn(c) /\ asleep' \subseteq Cluster
      BY <1>3, <2>11, Zenon DEF awake, setState, OnlyOn, TypeOK
    <3>2. goto(e, "clearIdle") /\ "clearIdle" \in Step
      BY <2>11, Zenon DEF awake, setState, Step
    <3>3. PhaseOf("clearIdle", c)' /\ AsleepOf("clearIdle", c)'
      BY <1>3, <2>a, <2>11, Zenon DEF awake, setState, At, PhaseOf, AsleepOf, Sure, TypeOK
    <3>4. QED  BY <2>b, <3>1, <3>2, <3>3, Zenon
  <2>12. CASE clearIdle(e)
    <3>1. OnlyOn(c) /\ asleep' \subseteq Cluster
      BY <1>3, <2>12, Zenon DEF clearIdle, OnlyOn, TypeOK
    <3>2. Settled(c)' /\ (c \in asleep' => states'[c] = "hibernating")
      BY <1>3, <2>a, <2>12, Zenon DEF clearIdle, At, PhaseOf, AsleepOf, Sure, Settled, TypeOK
    <3>3. QED  BY <2>12, <2>c, <3>1, <3>2, Zenon DEF clearIdle
  <2>13. QED
    BY <1>3, <2>1, <2>2, <2>3, <2>4, <2>5, <2>6, <2>7, <2>8, <2>9, <2>10, <2>11, <2>12, Zenon DEF proceed
<1>4. ASSUME NEW e \in Executor, proceed(e)
      PROVE  StateInv'
  <2>1. ~At(e, "return")
    BY <1>4, Zenon DEF proceed, At, checkTenants, drain, drainFailed, scaleToZero,
       scaleToZeroFailed, revert, hibernated, scaleUp, scaleUpFailed, unwake, awake, clearIdle
  <2>2. QED  BY <1>3, <1>4, <2>1, CallCluster, Zenon
<1>5. CASE UNCHANGED <<states, call, pools, unsure, asleep>>
  BY <1>5, ZenonT(30) DEF StateInv, StateTellsPools, Wakeable, InProgress, At, PhaseOf, AsleepOf, Sure
<1>6. CASE restart
  <2>1. unsure' = Cluster /\ asleep' = {} /\ call' = [f \in Executor |-> noCall]
    BY <1>6, Zenon DEF restart
  <2>2. \A f \in Executor : At(f, "return")'
    BY <2>1, Zenon DEF At, noCall
  <2>3. QED
    BY <2>1, <2>2, Zenon DEF StateInv, StateTellsPools, Wakeable
<1>7. QED
  BY <1>1, <1>2, <1>4, <1>5, <1>6, Zenon
     DEF Next, ExecuteDirective, UpdateIdleStatus, place, tick, vars

LEMMA StateInit == Init => StateInv
<1> SUFFICES ASSUME Init PROVE StateInv
  BY Zenon
<1>1. asleep = {}
  BY Zenon DEF Init
<1>2. QED
  BY <1>1, InitFacts, Zenon DEF StateInv, StateTellsPools, Wakeable

(* Given one directive at a time, the manager's record of a cluster agrees   *)
(* with its node pools whenever no directive on it is in progress and no     *)
(* external call failed since they were scaled: executeHibernate and         *)
(* executeWakeUp undo or complete what they began.                           *)
THEOREM SerialStateHolds == ASSUME Serial PROVE Spec => []StateTellsPools
<1>1. StateInv => StateTellsPools
  BY Zenon DEF StateInv
<1>2. QED
  BY <1>1, StateInit, StateStep, LifecycleTypeCorrect, PTL DEF Spec

(* Given one directive at a time, a hibernated cluster never gets into a     *)
(* state from which executeWakeUp returns without waking it, also after      *)
(* failed wake-ups.                                                          *)
THEOREM SerialWakeableHolds == ASSUME Serial PROVE Spec => []Wakeable
<1>1. StateInv => Wakeable
  BY Zenon DEF StateInv
<1>2. QED
  BY <1>1, StateInit, StateStep, LifecycleTypeCorrect, PTL DEF Spec

LEMMA TenantStep == Serial /\ TypeOK /\ TenantInv /\ [Next]_vars => TenantInv'
<1> SUFFICES ASSUME Serial, TypeOK, TenantInv, [Next]_vars
             PROVE  TenantInv'
  BY Zenon
<1>1. ASSUME NEW e \in Executor, hosts' = hosts,
             \A f \in Executor : ~At(f, "drain")' /\ ~At(f, "scaleToZero")'
      PROVE  TenantInv'
  BY <1>1, Zenon DEF TenantInv, TenantsKeepALocation
<1>2. ASSUME NEW e \in Executor, ExecuteDirective(e)
      PROVE  TenantInv'
  <2>1. hosts' = hosts
    BY <1>2, Zenon DEF ExecuteDirective, executeHibernate, executeWakeUp
  <2>2. PICK c \in Cluster, step \in {"tenants", "scaleUp"} :
          call'[e] = [step |-> step, cluster |-> c]
    BY <1>2, Zenon DEF ExecuteDirective, executeHibernate, executeWakeUp, TypeOK
  <2>3. ~At(e, "drain")' /\ ~At(e, "scaleToZero")'
    BY <2>2 DEF At
  <2>4. QED  BY <1>1, <2>1, <2>3, Zenon DEF Serial
<1>3. ASSUME NEW e \in Executor, NEW c \in Cluster, call[e].cluster = c,
             ~At(e, "return"), proceed(e)
      PROVE  TenantInv'
  <2>a. \A step \in Step : goto(e, step) => /\ call'[e].step = step
                                            /\ call'[e].cluster = c
    BY <1>3, GotoForm DEF TypeOK
  <2>b. return(e) => call'[e].step = "return"
    BY DEF return, noCall, TypeOK
  <2>1. CASE checkTenants(e)
    <3>1. hosts' = hosts /\ ~At(e, "scaleToZero")'
      BY <2>1, <2>a, Zenon DEF checkTenants, At, Step
    <3>2. At(e, "drain")' => ~IsSoleLocationForAnyTenant(c)
      BY <1>3, <2>1, <2>a, Zenon DEF checkTenants, At, Step
    <3>3. At(e, "drain")' => call'[e].cluster = c
      BY <2>1, <2>a, Zenon DEF checkTenants, At, Step
    <3>4. QED
      BY <3>1, <3>2, <3>3, Zenon
         DEF TenantInv, TenantsKeepALocation, IsSoleLocationForAnyTenant, Serial
  <2>2. CASE drain(e)
    <3>1. /\ \A t \in Tenant : hosts'[t] = hosts[t] \ {c}
          /\ call'[e].step = "scaleToZero" /\ call'[e].cluster = c
      BY <1>3, <2>2, <2>a, Zenon DEF drain, Evicted, Step
    <3>2. \A t \in Tenant : hosts[t] # {} /\ hosts[t] # {c}
      BY <1>3, <2>2, ZenonT(30) DEF drain, TenantInv, TenantsKeepALocation
    <3>3. QED
      BY <3>1, <3>2 DEF TenantInv, TenantsKeepALocation, At, Serial
  <2>3. CASE drainFailed(e)
    <3>1. \A t \in Tenant : hosts'[t] \in {hosts[t], hosts[t] \ {c}}
      BY <1>3, <2>3, Zenon DEF drainFailed, Evicted
    <3>2. call'[e].step = "revert"
      BY <2>3, <2>a, Zenon DEF drainFailed, fail, Step
    <3>3. \A t \in Tenant : hosts[t] # {} /\ hosts[t] # {c}
      BY <1>3, <2>3, Zenon DEF drainFailed, TenantInv, TenantsKeepALocation
    <3>4. QED
      BY <3>1, <3>2, <3>3 DEF TenantInv, TenantsKeepALocation, At, Serial
  <2>4. CASE scaleToZero(e) \/ scaleToZeroFailed(e)
    <3>1. \A t \in Tenant : hosts'[t] \in {hosts[t], hosts[t] \ {c}}
      BY <1>3, <2>4, Zenon DEF scaleToZero, scaleToZeroFailed, Evicted
    <3>2. call'[e].step \in {"hibernated", "revert"}
      BY <2>4, <2>a, Zenon DEF scaleToZero, scaleToZeroFailed, fail, Step
    <3>3. \A t \in Tenant : hosts[t] # {} /\ hosts[t] \ {c} # {}
      BY <1>3, <2>4, Zenon DEF scaleToZero, scaleToZeroFailed, TenantInv, TenantsKeepALocation
    <3>4. QED
      BY <3>1, <3>2, <3>3, Zenon DEF TenantInv, TenantsKeepALocation, At, Serial
  <2>5. CASE revert(e) \/ hibernated(e) \/ unwake(e) \/ clearIdle(e)
    <3>1. hosts' = hosts /\ ~At(e, "drain")' /\ ~At(e, "scaleToZero")'
      BY <2>5, <2>b, Zenon DEF revert, hibernated, unwake, clearIdle, At
    <3>2. QED  BY <1>1, <3>1, Zenon DEF Serial
  <2>6. CASE scaleUp(e) \/ scaleUpFailed(e) \/ awake(e)
    <3>1. hosts' = hosts /\ ~At(e, "drain")' /\ ~At(e, "scaleToZero")'
      BY <2>6, <2>a, Zenon DEF scaleUp, scaleUpFailed, awake, fail, At, Step
    <3>2. QED  BY <1>1, <3>1, Zenon DEF Serial
  <2>7. QED
    BY <1>3, <2>1, <2>2, <2>3, <2>4, <2>5, <2>6, Zenon DEF proceed
<1>4. ASSUME NEW e \in Executor, proceed(e)
      PROVE  TenantInv'
  <2>1. ~At(e, "return")
    BY <1>4, ZenonT(30) DEF proceed, At, checkTenants, drain, drainFailed, scaleToZero,
       scaleToZeroFailed, revert, hibernated, scaleUp, scaleUpFailed, unwake, awake, clearIdle
  <2>2. QED  BY <1>3, <1>4, <2>1, CallCluster, Zenon
<1>5. ASSUME NEW t \in Tenant, NEW c \in Cluster, place(t, c)
      PROVE  TenantInv'
  <2>1. /\ \A u \in Tenant : hosts[u] \subseteq hosts'[u]
        /\ call' = call
    BY <1>5, Zenon DEF place, TypeOK
  <2>2. \A e \in Executor, u \in Tenant :
          At(e, "drain") => \E d \in hosts[u] : d # call[e].cluster
    BY Zenon DEF TenantInv, TenantsKeepALocation
  <2>3. \A u \in Tenant : hosts'[u] # {}
    BY <2>1, Zenon DEF TenantInv, TenantsKeepALocation
  <2>4. \A e \in Executor, u \in Tenant : At(e, "drain")' => hosts'[u] # {call'[e].cluster}
    BY <2>1, <2>2, Zenon DEF At
  <2>5. \A e \in Executor, u \in Tenant :
          At(e, "scaleToZero")' => hosts'[u] \ {call'[e].cluster} # {}
    <3> SUFFICES ASSUME NEW e \in Executor, NEW u \in Tenant, At(e, "scaleToZero")
                 PROVE  hosts'[u] \ {call[e].cluster} # {}
      BY <2>1, Zenon DEF At
    <3>1. PICK d \in hosts[u] : d # call[e].cluster
      BY Zenon DEF TenantInv
    <3>2. QED  BY <2>1, <3>1, Zenon
  <2>6. QED
    BY <2>3, <2>4, <2>5, Zenon DEF TenantInv, TenantsKeepALocation
<1>6. CASE UNCHANGED <<hosts, call>>
  BY <1>6, Zenon DEF TenantInv, TenantsKeepALocation, At
<1>7. CASE restart
  <2>1. hosts' = hosts /\ \A f \in Executor : call'[f].step = "return"
    BY <1>7, Zenon DEF restart, noCall
  <2>2. QED
    BY <2>1, Zenon DEF TenantInv, TenantsKeepALocation, At
<1>8. QED
  BY <1>2, <1>4, <1>5, <1>6, <1>7, Zenon DEF Next, UpdateIdleStatus, tick, vars

(* Given one directive at a time, no tenant is drained off its last cluster: *)
(* what IsSoleLocationForAnyTenant answered is still true at the drain and   *)
(* at the scale-down, whatever fails part-way.                               *)
THEOREM SerialTenantsHold == ASSUME Serial PROVE Spec => []TenantsKeepALocation
<1>1. Init => TenantInv
  <2> SUFFICES ASSUME Init PROVE TenantInv
    BY Zenon
  <2>1. \A t \in Tenant : hosts[t] # {}
    BY Zenon DEF Init
  <2>2. QED  BY <2>1, InitFacts, Zenon DEF TenantInv, TenantsKeepALocation, At
<1>2. TenantInv => TenantsKeepALocation
  BY Zenon DEF TenantInv
<1>3. QED
  BY <1>1, <1>2, TenantStep, LifecycleTypeCorrect, PTL DEF Spec

-----------------------------------------------------------------------------
(* Sequences. *)

\* Taking the first of t to the end of s.
LEMMA MoveHead ==
  ASSUME NEW S, NEW s \in Seq(S), NEW t \in Seq(S), t # <<>>
  PROVE  /\ Head(t) \in S
         /\ Tail(t) \in Seq(S)
         /\ Append(s, Head(t)) \o Tail(t) = s \o t
<1>1. Head(t) \in S /\ Tail(t) \in Seq(S) /\ t = <<Head(t)>> \o Tail(t)
  BY HeadTailProperties, SMT
<1>2. Append(s, Head(t)) = s \o <<Head(t)>> /\ <<Head(t)>> \in Seq(S)
  BY <1>1, AppendIsConcat, SMT
<1>3. (s \o <<Head(t)>>) \o Tail(t) = s \o (<<Head(t)>> \o Tail(t))
  BY <1>1, <1>2, ConcatAssociative
<1>4. QED
  BY <1>1, <1>2, <1>3, Zenon

\* Appending to the second of two sequences.
LEMMA AppendRight ==
  ASSUME NEW S, NEW s \in Seq(S), NEW t \in Seq(S), NEW x \in S
  PROVE  s \o Append(t, x) = Append(s \o t, x)
<1>1. <<x>> \in Seq(S) /\ s \o t \in Seq(S)
  BY SMT
<1>2. Append(t, x) = t \o <<x>> /\ Append(s \o t, x) = (s \o t) \o <<x>>
  BY <1>1, AppendIsConcat, Zenon
<1>3. QED
  BY <1>1, <1>2, ConcatAssociative

\* The directives 1 to n and the next one.
LEMMA CountNext ==
  ASSUME NEW n \in Nat
  PROVE  Append([i \in 1 .. n |-> i], n + 1) = [i \in 1 .. n + 1 |-> i]
<1> DEFINE s == [i \in 1 .. n |-> i]
           u == [i \in 1 .. n + 1 |-> i]
<1>1. s \in Seq(Nat) /\ Len(s) = n /\ u \in Seq(Nat) /\ Len(u) = n + 1
  BY IsASeq, LenProperties, SMT
<1>2. Append(s, n + 1) \in Seq(Nat) /\ Len(Append(s, n + 1)) = n + 1
  BY <1>1, SMT
<1>3. \A i \in 1 .. n + 1 : Append(s, n + 1)[i] = u[i]
  BY <1>1, SMT
<1>4. QED
  BY <1>1, <1>2, <1>3, SeqEqual, Zenon

-----------------------------------------------------------------------------
(* Types. *)

LEMMA AgedType ==
  ASSUME NEW age \in Age
  PROVE  Aged(age) \in Age
  BY HubAssumption DEF Aged, Age, Stale

LEMMA NoDirectives == <<>> \in Seq(Directives)
  BY EmptySeq, Zenon

LEMMA AgeEnds == 0 \in Age /\ Stale \in Age
  BY HubAssumption DEF Age, Stale

LEMMA GiveUpType ==
  ASSUME LinkTypeOK, NEW sent, NEW request \in Request, giveUp(sent, request)
  PROVE  late' \subseteq Request /\ lateAge' \in Age
  BY Zenon DEF LinkTypeOK, giveUp, netVars

\* The loops run only after Start has begun to serve, so it finds no answer.
StartInv == start \notin {"serving", "returned"} => poll = "off"

TypeInv == LinkTypeOK /\ StartInv

LEMMA TypeInit == LinkInit => TypeInv
<1> SUFFICES ASSUME LinkInit PROVE TypeInv
  BY Zenon
<1>1. 0 \in 0 .. MaxDirectives
  BY HubAssumption
<1>2. LinkTypeOK
  BY <1>1, AgeEnds, NoDirectives, Zenon DEF LinkInit, HubInit, AgentInit, LinkTypeOK, AgentState
<1>3. QED
  BY <1>2, Zenon DEF LinkInit, AgentInit, TypeInv, StartInv

LEMMA TypeStep == TypeInv /\ [LinkNext]_linkVars => TypeInv'
<1> SUFFICES ASSUME LinkTypeOK, StartInv, [LinkNext]_linkVars PROVE TypeInv'
  BY Zenon DEF TypeInv
<1> USE DEF hubVars, netVars, startVars, beatVars, pollVars, mailHistory, TypeInv, StartInv
<1>1. CASE Start
  BY <1>1, ZenonT(30)  DEF Start, LinkTypeOK
<1>2. CASE connectFailed
  BY <1>2, Zenon DEF connectFailed, LinkTypeOK
<1>3. CASE registerFailed
  BY <1>3, GiveUpType, ZenonT(30)  DEF registerFailed, LinkTypeOK, AgentState, Request
<1>4. CASE registrationAccepted
  BY <1>4, ZenonT(30)  DEF registrationAccepted, LinkTypeOK, AgentState
<1>5. CASE startLoops
  BY <1>5, Zenon DEF startLoops, LinkTypeOK, AgentState
<1>6. CASE stop
  BY <1>6, ZenonT(30)  DEF stop, LinkTypeOK, AgentState
<1>7. CASE cancel
  BY <1>7 DEF cancel, LinkTypeOK
<1>8. CASE RegisterCluster
  BY <1>8, Zenon DEF RegisterCluster, LinkTypeOK
<1>9. CASE ReportStatus
  BY <1>9, ZenonT(30)  DEF ReportStatus, storeReport, LinkTypeOK
<1>10. CASE GetDirective
  BY <1>10, NoDirectives, ZenonT(30)  DEF GetDirective, LinkTypeOK
<1>11. CASE EnqueueDirective
  <2>1. posted' \in Directives /\ posted' \in 0 .. MaxDirectives
    BY <1>11, HubAssumption DEF EnqueueDirective, LinkTypeOK, Directives
  <2>2. directives' \in Seq(Directives)
    BY <1>11, <2>1, AppendProperties, Zenon DEF EnqueueDirective, LinkTypeOK
  <2>3. QED
    BY <1>11, <2>1, <2>2 DEF EnqueueDirective, LinkTypeOK
<1>12. CASE sendHeartbeat
  BY <1>12, AgeEnds, ZenonT(30)  DEF sendHeartbeat, LinkTypeOK
<1>13. CASE heartbeatAcked
  BY <1>13, ZenonT(30)  DEF heartbeatAcked, LinkTypeOK
<1>14. CASE heartbeatFailed
  BY <1>14, GiveUpType, ZenonT(90) DEF heartbeatFailed, LinkTypeOK, Request
<1>15. CASE endHeartbeats
  BY <1>15, Zenon DEF endHeartbeats, LinkTypeOK
<1>16. CASE sendPoll
  BY <1>16, ZenonT(30)  DEF sendPoll, LinkTypeOK
<1>17. CASE pollFailed
  BY <1>17, NoDirectives, GiveUpType, ZenonT(30)  DEF pollFailed, LinkTypeOK, Request
<1>18. CASE pollAnswered
  BY <1>18, ZenonT(30)  DEF pollAnswered, LinkTypeOK
<1>19. ASSUME NEW failed \in BOOLEAN, handle(failed) PROVE TypeInv'
  <2>1. batch \in Seq(Directives) /\ batch # <<>> /\ handled \in Seq(Directives)
    BY <1>19, Zenon DEF handle, LinkTypeOK
  <2>2. Head(batch) \in Directives /\ Tail(batch) \in Seq(Directives)
    BY <2>1, MoveHead, Zenon
  <2>3. Append(handled, Head(batch)) \in Seq(Directives)
    BY <2>1, <2>2, AppendProperties, Zenon
  <2>4. QED
    BY <1>19, <2>2, <2>3, ZenonT(30)  DEF handle, LinkTypeOK
<1>20. CASE allHandled
  BY <1>20, ZenonT(30)  DEF allHandled, LinkTypeOK
<1>21. CASE endPolls
  BY <1>21, ZenonT(30)  DEF endPolls, LinkTypeOK
<1>22. CASE lateRegister
  BY <1>22 DEF lateRegister, LinkTypeOK
<1>23. CASE lateReport
  BY <1>23 DEF lateReport, storeReport, LinkTypeOK
<1>24. CASE latePoll
  BY <1>24, NoDirectives DEF latePoll, LinkTypeOK
<1>25. CASE linkTick
  BY <1>25, AgedType DEF linkTick, LinkTypeOK
<1>26. CASE hubRestart
  BY <1>26, AgeEnds, NoDirectives, Zenon DEF hubRestart, LinkTypeOK
<1>27. CASE agentRestart
  BY <1>27, AgeEnds, NoDirectives, Zenon DEF agentRestart, LinkTypeOK, AgentState
<1>28. CASE UNCHANGED linkVars
  BY <1>28 DEF linkVars, LinkTypeOK
<1>29. QED
  BY <1>1, <1>2, <1>3, <1>4, <1>5, <1>6, <1>7, <1>8, <1>9, <1>10, <1>11, <1>12, <1>13, <1>14,
     <1>15, <1>16, <1>17, <1>18, <1>19, <1>20, <1>21, <1>22, <1>23, <1>24, <1>25, <1>26, <1>27,
     <1>28, ZenonT(30)  DEF LinkNext, heartbeatLoop, directiveLoop

LEMMA TypeInvHolds == LinkSpec => []TypeInv
  BY TypeInit, TypeStep, PTL DEF LinkSpec

(* Type correctness: no handler, failure or restart takes a variable of hub  *)
(* or agent out of its type, and only an answer holds directives.            *)
THEOREM HubSpokeTypeCorrect == LinkSpec => []LinkTypeOK
<1>1. TypeInv => LinkTypeOK
  BY Zenon DEF TypeInv
<1>2. QED
  BY <1>1, TypeInvHolds, PTL

-----------------------------------------------------------------------------
(* The hub's view of the agent's health.  No report that is stored, sent or  *)
(* late is younger than the youngest report that was collected.              *)
HealthInv ==
  /\ reportedFor <= beatAge
  /\ reportedFor <= lateAge
  /\ lastStatus # NoStatus => reportedFor <= lastStatus

LEMMA AgedMonotone ==
  ASSUME NEW a \in Age, NEW b \in Age, a <= b
  PROVE  Aged(a) <= Aged(b)
  BY HubAssumption DEF Aged, Age, Stale

LEMMA AgeOrder == \A a \in Age : a \in Nat /\ 0 <= a /\ a <= Stale
  BY HubAssumption DEF Age, Stale

LEMMA HealthStep == LinkTypeOK /\ HealthInv /\ [LinkNext]_linkVars => HealthInv'
<1> SUFFICES ASSUME LinkTypeOK, HealthInv, [LinkNext]_linkVars PROVE HealthInv'
  BY Zenon
<1> USE DEF hubVars, netVars, startVars, beatVars, pollVars, mailHistory
<1>1. /\ beatAge \in Age /\ lateAge \in Age /\ reportedFor \in Age
      /\ lastStatus # NoStatus => lastStatus \in Age
  BY Zenon DEF LinkTypeOK
<1>2. ASSUME NEW sent, NEW request, giveUp(sent, request), beatAge' = beatAge,
             reportedFor' = reportedFor, lastStatus' = lastStatus
      PROVE  HealthInv'
  BY <1>2, Zenon DEF giveUp, HealthInv
<1>3. CASE registerFailed
  BY <1>3, <1>2, Zenon DEF registerFailed
<1>4. CASE heartbeatFailed
  BY <1>4, <1>2, Zenon DEF heartbeatFailed
<1>5. CASE pollFailed
  BY <1>5, <1>2, Zenon DEF pollFailed
<1>6. CASE sendHeartbeat
  BY <1>6, <1>1, AgeOrder DEF sendHeartbeat, HealthInv
<1>7. CASE ReportStatus
  BY <1>7, Zenon DEF ReportStatus, storeReport, HealthInv
<1>8. CASE lateReport
  BY <1>8, Zenon DEF lateReport, storeReport, HealthInv
<1>9. CASE linkTick
  <2>1. reportedFor' <= beatAge' /\ reportedFor' <= lateAge'
    BY <1>9, <1>1, AgedMonotone, Zenon DEF linkTick, HealthInv
  <2>2. lastStatus' # NoStatus => reportedFor' <= lastStatus'
    BY <1>9, <1>1, AgedMonotone, Zenon DEF linkTick, HealthInv
  <2>3. QED  BY <2>1, <2>2, Zenon DEF HealthInv
<1>10. CASE hubRestart
  BY <1>10, <1>1, AgeOrder, Zenon DEF hubRestart, HealthInv
<1>11. CASE agentRestart
  BY <1>11, <1>1, AgeOrder, Zenon DEF agentRestart, HealthInv
<1>12. CASE Start \/ connectFailed \/ registrationAccepted \/ startLoops \/ stop \/ cancel
  BY <1>12, Zenon DEF Start, connectFailed, registrationAccepted, startLoops, stop, cancel, HealthInv
<1>13. CASE RegisterCluster \/ GetDirective \/ EnqueueDirective \/ lateRegister \/ latePoll
  BY <1>13, Zenon DEF RegisterCluster, GetDirective, EnqueueDirective, lateRegister, latePoll, HealthInv
<1>14. CASE heartbeatAcked \/ endHeartbeats \/ sendPoll \/ pollAnswered \/ allHandled \/ endPolls
            \/ \E failed \in BOOLEAN : handle(failed)
  BY <1>14, Zenon DEF heartbeatAcked, endHeartbeats, sendPoll, pollAnswered, allHandled, endPolls, handle,
     HealthInv
<1>15. CASE UNCHANGED linkVars
  BY <1>15, Zenon DEF linkVars, HealthInv
<1>16. QED
  BY <1>3, <1>4, <1>5, <1>6, <1>7, <1>8, <1>9, <1>10, <1>11, <1>12, <1>13, <1>14, <1>15, Zenon
     DEF LinkNext, heartbeatLoop, directiveLoop

(* IsHealthy says of no agent that it is healthy that has not collected a    *)
(* report within the time-to-live, however late a report was stored.         *)
THEOREM HealthHolds == LinkSpec => []HealthyIsTrue
<1>1. LinkInit => HealthInv
  BY AgeEnds, AgeOrder, Zenon DEF LinkInit, HubInit, AgentInit, HealthInv
<1>2. LinkTypeOK /\ HealthInv => HealthyIsTrue
  BY HubAssumption DEF HealthInv, HealthyIsTrue, IsHealthy, LinkTypeOK, Age, Stale
<1>3. QED
  BY <1>1, <1>2, HealthStep, HubSpokeTypeCorrect, PTL DEF LinkSpec

-----------------------------------------------------------------------------
(* Directives on their way. *)

\* The steps that touch neither the queue, nor the answer, nor the records.
Elsewhere ==
  \/ Start \/ connectFailed \/ registerFailed \/ registrationAccepted \/ startLoops \/ stop \/ cancel
  \/ RegisterCluster \/ ReportStatus
  \/ heartbeatLoop
  \/ sendPoll \/ pollAnswered \/ allHandled \/ endPolls
  \/ lateRegister \/ lateReport \/ linkTick
  \/ UNCHANGED linkVars

mail == <<directives, batch, posted, handled, fault>>

LEMMA ElsewhereKeeps == Elsewhere => UNCHANGED mail
<1> USE DEF hubVars, netVars, startVars, beatVars, pollVars, mailHistory, mail
<1>1. Start \/ connectFailed \/ registerFailed \/ registrationAccepted \/ startLoops \/ stop \/ cancel
        => UNCHANGED mail
  BY Zenon DEF Start, connectFailed, registerFailed, registrationAccepted, startLoops, stop, cancel
<1>2. RegisterCluster \/ ReportStatus \/ lateRegister \/ lateReport \/ linkTick => UNCHANGED mail
  BY Zenon DEF RegisterCluster, ReportStatus, lateRegister, lateReport, linkTick
<1>3. heartbeatLoop => UNCHANGED mail
  BY Zenon DEF heartbeatLoop, sendHeartbeat, heartbeatAcked, heartbeatFailed, endHeartbeats
<1>4. sendPoll \/ pollAnswered \/ allHandled \/ endPolls => UNCHANGED mail
  BY Zenon DEF sendPoll, pollAnswered, allHandled, endPolls
<1>5. UNCHANGED linkVars => UNCHANGED mail
  BY Zenon DEF linkVars
<1>6. QED
  BY <1>1, <1>2, <1>3, <1>4, <1>5, Zenon DEF Elsewhere

LEMMA MailSteps ==
  [LinkNext]_linkVars => \/ Elsewhere
                 \/ GetDirective \/ EnqueueDirective \/ pollFailed \/ latePoll
                 \/ \E failed \in BOOLEAN : handle(failed)
                 \/ hubRestart \/ agentRestart
  BY Zenon DEF LinkNext, directiveLoop, Elsewhere

\* What the steps do to the directives that are left, lost ones apart.
LEMMA MailMoves ==
  ASSUME LinkTypeOK, [LinkNext]_linkVars
  PROVE  \/ UNCHANGED mail
         \/ /\ batch = <<>> /\ batch' = directives /\ directives' = <<>>
            /\ UNCHANGED <<posted, handled, fault>>
         \/ /\ posted \in Nat /\ posted' = posted + 1 /\ posted' \in Directives
            /\ directives' = Append(directives, posted')
            /\ UNCHANGED <<batch, handled, fault>>
         \/ /\ batch # <<>> /\ handled' = Append(handled, Head(batch)) /\ batch' = Tail(batch)
            /\ UNCHANGED <<directives, posted, fault>>
         \/ /\ batch' = <<>> /\ fault' = (fault \/ batch # <<>>)
            /\ UNCHANGED <<directives, posted, handled>>
         \/ /\ directives' = <<>> /\ fault' = (fault \/ directives # <<>>)
            /\ UNCHANGED <<batch, posted, handled>>
<1> USE DEF hubVars, netVars, startVars, beatVars, pollVars, mailHistory
<1>1. CASE Elsewhere
  BY <1>1, ElsewhereKeeps, Zenon
<1>2. CASE GetDirective
  BY <1>2, Zenon DEF GetDirective, LinkTypeOK
<1>3. CASE EnqueueDirective
  BY <1>3, HubAssumption DEF EnqueueDirective, LinkTypeOK, Directives
<1>4. CASE pollFailed
  BY <1>4, Zenon DEF pollFailed
<1>5. CASE latePoll
  BY <1>5, Zenon DEF latePoll
<1>6. CASE \E failed \in BOOLEAN : handle(failed)
  BY <1>6, Zenon DEF handle
<1>7. CASE hubRestart
  BY <1>7, Zenon DEF hubRestart
<1>8. CASE agentRestart
  BY <1>8, Zenon DEF agentRestart
<1>9. QED
  BY <1>1, <1>2, <1>3, <1>4, <1>5, <1>6, <1>7, <1>8, MailSteps, ZenonT(30)

(* Without a fault every directive that was enqueued is handled, in the      *)
(* agent's hands or in the queue, in the order of the EnqueueDirective calls. *)
THEOREM NoLossHolds == LinkSpec => []NoLossWithoutFault
<1> DEFINE All == handled \o batch \o directives
<1>1. LinkInit => NoLossWithoutFault
  <2> SUFFICES ASSUME LinkInit PROVE All = [i \in 1 .. posted |-> i]
    BY Zenon DEF NoLossWithoutFault
  <2>1. handled = <<>> /\ batch = <<>> /\ directives = <<>> /\ posted = 0
    BY Zenon DEF LinkInit, HubInit, AgentInit
  <2>2. <<>> \o <<>> = <<>>
    BY EmptySeq, ConcatEmptySeq, Zenon
  <2>3. [i \in 1 .. 0 |-> i] = <<>>
    BY SMTT(30)
  <2>4. QED  BY <2>1, <2>2, <2>3, Zenon
<1>2. LinkTypeOK /\ NoLossWithoutFault /\ [LinkNext]_linkVars => NoLossWithoutFault'
  <2> SUFFICES ASSUME LinkTypeOK, NoLossWithoutFault, [LinkNext]_linkVars, ~fault'
               PROVE  All' = [i \in 1 .. posted' |-> i]
    BY Zenon DEF NoLossWithoutFault
  <2>1. handled \in Seq(Directives) /\ batch \in Seq(Directives) /\ directives \in Seq(Directives)
    BY Zenon DEF LinkTypeOK
  <2>2. handled \o batch \in Seq(Directives)
    BY <2>1, ConcatProperties, Zenon
  <2>3. CASE UNCHANGED mail
    BY <2>3, Zenon DEF mail, NoLossWithoutFault
  <2>4. CASE /\ batch = <<>> /\ batch' = directives /\ directives' = <<>>
             /\ UNCHANGED <<posted, handled, fault>>
    <3>1. handled \o batch = handled /\ (handled \o directives) \o <<>> = handled \o directives
      BY <2>1, <2>4, ConcatProperties, ConcatEmptySeq, Zenon
    <3>2. QED  BY <2>4, <3>1, Zenon DEF NoLossWithoutFault
  <2>5. CASE /\ posted \in Nat /\ posted' = posted + 1 /\ posted' \in Directives
             /\ directives' = Append(directives, posted')
             /\ UNCHANGED <<batch, handled, fault>>
    <3>1. \A s, t \in Seq(Directives), x \in Directives : s \o Append(t, x) = Append(s \o t, x)
      BY AppendRight
    <3>2. All' = Append(All, posted')
      BY <2>1, <2>2, <2>5, <3>1, Zenon
    <3>3. QED  BY <2>5, <3>2, CountNext, Zenon DEF NoLossWithoutFault
  <2>6. CASE /\ batch # <<>> /\ handled' = Append(handled, Head(batch)) /\ batch' = Tail(batch)
             /\ UNCHANGED <<directives, posted, fault>>
    <3>1. handled' \o batch' = handled \o batch
      BY <2>1, <2>6, MoveHead, Zenon
    <3>2. QED  BY <2>6, <3>1, Zenon DEF NoLossWithoutFault
  <2>7. CASE /\ batch' = <<>> /\ fault' = (fault \/ batch # <<>>)
             /\ UNCHANGED <<directives, posted, handled>>
    BY <2>7, Zenon DEF NoLossWithoutFault
  <2>8. CASE /\ directives' = <<>> /\ fault' = (fault \/ directives # <<>>)
             /\ UNCHANGED <<batch, posted, handled>>
    BY <2>8, Zenon DEF NoLossWithoutFault
  <2>9. QED
    BY <2>3, <2>4, <2>5, <2>6, <2>7, <2>8, MailMoves, Zenon
<1>3. QED
  BY <1>1, <1>2, HubSpokeTypeCorrect, PTL DEF LinkSpec

-----------------------------------------------------------------------------
(* The order of the directives.  What is handled, what the agent holds and   *)
(* what the hub has are each in order, and each before the next: without     *)
(* this, nothing would keep a lost answer from being handed out again.       *)
Rising(s) == \A i, j \in 1 .. Len(s) : i < j => s[i] < s[j]
Before(s, t) == \A i \in 1 .. Len(s), j \in 1 .. Len(t) : s[i] < t[j]
UpTo(s, n) == \A i \in 1 .. Len(s) : s[i] <= n

OrderInv ==
  /\ Rising(handled) /\ Rising(batch) /\ Rising(directives)
  /\ Before(handled, batch) /\ Before(handled, directives) /\ Before(batch, directives)
  /\ UpTo(handled, posted) /\ UpTo(batch, posted) /\ UpTo(directives, posted)

LEMMA DirectiveNat == \A s \in Seq(Directives) : Len(s) \in Nat /\ \A i \in 1 .. Len(s) : s[i] \in Nat
  BY HubAssumption, ElementOfSeq, LenProperties DEF Directives

LEMMA NatSeq == \A s \in Seq(Directives) : s \in Seq(Nat)
  BY DirectiveNat, IsASeq, SeqDef

LEMMA EmptyOrder ==
  ASSUME NEW s, NEW n
  PROVE  Rising(<<>>) /\ Before(s, <<>>) /\ Before(<<>>, s) /\ UpTo(<<>>, n)
  BY DEF Rising, Before, UpTo

\* A directive above n, appended to one of two sequences up to n.
LEMMA AppendOrder ==
  ASSUME NEW s \in Seq(Directives), NEW t \in Seq(Directives), NEW n \in Nat,
         n + 1 \in Directives, UpTo(s, n), UpTo(t, n), Rising(t), Before(s, t)
  PROVE  /\ Rising(Append(t, n + 1))
         /\ Before(s, Append(t, n + 1))
         /\ UpTo(Append(t, n + 1), n + 1)
         /\ UpTo(s, n + 1)
<1> DEFINE u == Append(t, n + 1)
<1>1. /\ Len(u) = Len(t) + 1
      /\ \A i \in 1 .. Len(u) : u[i] = IF i = Len(t) + 1 THEN n + 1 ELSE t[i]
  BY AppendProperties
<1>2. /\ Len(s) \in Nat /\ \A i \in 1 .. Len(s) : s[i] \in Nat
      /\ Len(t) \in Nat /\ \A i \in 1 .. Len(t) : t[i] \in Nat
  BY DirectiveNat, Zenon
<1> HIDE DEF u
<1>3. Rising(u)
  <2> SUFFICES ASSUME NEW i \in 1 .. Len(u), NEW j \in 1 .. Len(u), i < j PROVE u[i] < u[j]
    BY Zenon DEF Rising
  <2>1. i \in 1 .. Len(t) /\ u[i] = t[i] /\ t[i] \in Nat /\ t[i] <= n
    BY <1>1, <1>2 DEF UpTo
  <2>2. CASE j = Len(t) + 1
    BY <2>1, <2>2, <1>1
  <2>3. CASE j # Len(t) + 1
    <3>1. j \in 1 .. Len(t)
      <4>1. Len(u) = Len(t) + 1 /\ Len(t) \in Nat
        BY <1>1, <1>2, Zenon
      <4>2. QED  BY <2>3, <4>1
    <3>2. u[j] = t[j]
      BY <2>3, <1>1, Zenon
    <3>3. QED  BY <2>1, <3>1, <3>2, Zenon DEF Rising
  <2>4. QED  BY <2>2, <2>3, Zenon
<1>4. Before(s, u)
  BY <1>1, <1>2, SMTT(30) DEF Before, UpTo
<1>5. UpTo(u, n + 1) /\ UpTo(s, n + 1)
  <2>1. UpTo(s, n + 1)
    BY <1>2 DEF UpTo
  <2>2. ASSUME NEW i \in 1 .. Len(u) PROVE u[i] <= n + 1
    <3>1. CASE i = Len(t) + 1
      BY <3>1, <1>1, <1>2
    <3>2. CASE i # Len(t) + 1
      <4>1. i \in 1 .. Len(t) /\ u[i] = t[i]
        BY <3>2, <1>1, <1>2
      <4>2. QED  BY <4>1, <1>2 DEF UpTo
    <3>3. QED  BY <3>1, <3>2, Zenon
  <2>3. QED  BY <2>1, <2>2, Zenon DEF UpTo
<1>6. QED
  BY <1>3, <1>4, <1>5, Zenon DEF u

\* The first of t moves to the end of s.
LEMMA MoveOrder ==
  ASSUME NEW s \in Seq(Directives), NEW t \in Seq(Directives), NEW r \in Seq(Directives), NEW n,
         t # <<>>, Rising(s), Rising(t), Before(s, t), Before(s, r), Before(t, r),
         UpTo(s, n), UpTo(t, n)
  PROVE  /\ Rising(Append(s, Head(t))) /\ Rising(Tail(t))
         /\ Before(Append(s, Head(t)), Tail(t))
         /\ Before(Append(s, Head(t)), r) /\ Before(Tail(t), r)
         /\ UpTo(Append(s, Head(t)), n) /\ UpTo(Tail(t), n)
<1> DEFINE u == Append(s, Head(t))
           v == Tail(t)
<1>1. /\ Len(s) \in Nat /\ Len(t) \in Nat /\ Len(r) \in Nat
      /\ Head(t) = t[1] /\ Len(t) >= 1
      /\ Len(v) = Len(t) - 1 /\ \A i \in 1 .. Len(v) : v[i] = t[i + 1]
  BY HeadTailProperties, LenProperties, EmptySeq
<1>2. /\ Len(u) = Len(s) + 1
      /\ \A i \in 1 .. Len(u) : u[i] = IF i = Len(s) + 1 THEN t[1] ELSE s[i]
  <2>1. Head(t) \in Directives
    BY MoveHead, Zenon
  <2>2. QED  BY <2>1, <1>1, AppendProperties
<1> HIDE DEF u, v
<1>3. \A i \in 1 .. Len(u) : \/ i = Len(s) + 1 /\ u[i] = t[1]
                             \/ i \in 1 .. Len(s) /\ u[i] = s[i]
  <2>1. \A i \in 1 .. Len(u) : i = Len(s) + 1 \/ i \in 1 .. Len(s)
    <3>1. Len(u) = Len(s) + 1 /\ Len(s) \in Nat
      BY <1>1, <1>2, Zenon
    <3>2. QED  BY <3>1
  <2> SUFFICES ASSUME NEW i \in 1 .. Len(u)
               PROVE  \/ i = Len(s) + 1 /\ u[i] = t[1]
                      \/ i \in 1 .. Len(s) /\ u[i] = s[i]
    BY Zenon
  <2>2. CASE i = Len(s) + 1
    BY <2>2, <1>2, Zenon
  <2>3. CASE i # Len(s) + 1
    <3>1. i \in 1 .. Len(s)
      BY <2>1, <2>3, Zenon
    <3>2. u[i] = s[i]
      BY <2>3, <1>2, Zenon
    <3>3. QED  BY <3>1, <3>2, Zenon
  <2>4. QED  BY <2>2, <2>3, Zenon
<1>4. 1 \in 1 .. Len(t) /\ \A i \in 1 .. Len(v) : i + 1 \in 1 .. Len(t) /\ 1 < i + 1 /\ v[i] = t[i + 1]
  BY <1>1
<1>5. Rising(u)
  <2> SUFFICES ASSUME NEW i \in 1 .. Len(u), NEW j \in 1 .. Len(u), i < j PROVE u[i] < u[j]
    BY Zenon DEF Rising
  <2>1. i \in 1 .. Len(s) /\ u[i] = s[i]
    BY <1>1, <1>2
  <2>2. QED  BY <2>1, <1>3, <1>4, Zenon DEF Rising, Before
<1>6. Rising(v)
  <2> SUFFICES ASSUME NEW i \in 1 .. Len(v), NEW j \in 1 .. Len(v), i < j PROVE v[i] < v[j]
    BY Zenon DEF Rising
  <2>1. i + 1 < j + 1
    BY <1>1
  <2>2. QED  BY <2>1, <1>4, Zenon DEF Rising
<1>7. Before(u, v)
  <2> SUFFICES ASSUME NEW i \in 1 .. Len(u), NEW j \in 1 .. Len(v) PROVE u[i] < v[j]
    BY Zenon DEF Before
  <2>1. t[1] < t[j + 1]
    BY <1>4, Zenon DEF Rising
  <2>2. i \in 1 .. Len(s) => s[i] < t[j + 1]
    BY <1>4, Zenon DEF Before
  <2>3. QED  BY <2>1, <2>2, <1>3, <1>4, Zenon
<1>8. Before(u, r) /\ Before(v, r)
  BY <1>3, <1>4, Zenon DEF Before
<1>9. UpTo(u, n) /\ UpTo(v, n)
  BY <1>3, <1>4, Zenon DEF UpTo
<1>10. QED
  BY <1>5, <1>6, <1>7, <1>8, <1>9, Zenon DEF u, v

LEMMA OrderStep == LinkTypeOK /\ OrderInv /\ [LinkNext]_linkVars => OrderInv'
<1> SUFFICES ASSUME LinkTypeOK, OrderInv, [LinkNext]_linkVars PROVE OrderInv'
  BY Zenon
<1>1. handled \in Seq(Directives) /\ batch \in Seq(Directives) /\ directives \in Seq(Directives)
  BY Zenon DEF LinkTypeOK
<1>2. CASE UNCHANGED mail
  BY <1>2, Zenon DEF mail, OrderInv
<1>3. CASE /\ batch = <<>> /\ batch' = directives /\ directives' = <<>>
           /\ UNCHANGED <<posted, handled, fault>>
  BY <1>3, EmptyOrder, Zenon DEF OrderInv
<1>4. CASE /\ posted \in Nat /\ posted' = posted + 1 /\ posted' \in Directives
           /\ directives' = Append(directives, posted')
           /\ UNCHANGED <<batch, handled, fault>>
  BY <1>1, <1>4, AppendOrder, Zenon DEF OrderInv
<1>5. CASE /\ batch # <<>> /\ handled' = Append(handled, Head(batch)) /\ batch' = Tail(batch)
           /\ UNCHANGED <<directives, posted, fault>>
  BY <1>1, <1>5, MoveOrder, Zenon DEF OrderInv
<1>6. CASE /\ batch' = <<>> /\ fault' = (fault \/ batch # <<>>)
           /\ UNCHANGED <<directives, posted, handled>>
  BY <1>6, EmptyOrder, Zenon DEF OrderInv
<1>7. CASE /\ directives' = <<>> /\ fault' = (fault \/ directives # <<>>)
           /\ UNCHANGED <<batch, posted, handled>>
  BY <1>7, EmptyOrder, Zenon DEF OrderInv
<1>8. QED
  BY <1>2, <1>3, <1>4, <1>5, <1>6, <1>7, MailMoves, Zenon

(* The handler gets no directive twice and none after a later one, whatever  *)
(* is lost: GetDirective empties the queue before its answer is sent.        *)
THEOREM OrderHolds == LinkSpec => []HandledInOrder
<1>1. LinkInit => OrderInv
  BY EmptyOrder, Zenon DEF LinkInit, HubInit, AgentInit, OrderInv
<1>2. OrderInv => HandledInOrder
  BY Zenon DEF OrderInv, Rising, HandledInOrder
<1>3. QED
  BY <1>1, <1>2, OrderStep, HubSpokeTypeCorrect, PTL DEF LinkSpec

-----------------------------------------------------------------------------
(* The mailbox. *)

\* Dropping one of two adjoining sequences loses entries and keeps the order.
LEMMA DropLeft ==
  ASSUME NEW s \in Seq(Directives), NEW t \in Seq(Directives)
  PROVE  \E pos \in [DOMAIN t -> DOMAIN (s \o t)] :
           /\ \A i, j \in DOMAIN t : i < j => pos[i] < pos[j]
           /\ \A i \in DOMAIN t : t[i] = (s \o t)[pos[i]]
<1>1. /\ Len(s) \in Nat /\ Len(t) \in Nat /\ DOMAIN t = 1 .. Len(t)
      /\ DOMAIN (s \o t) = 1 .. Len(s) + Len(t)
      /\ \A i \in 1 .. Len(s) + Len(t) : (s \o t)[i] = IF i <= Len(s) THEN s[i] ELSE t[i - Len(s)]
  BY ConcatProperties, LenProperties
<1> DEFINE pos == [i \in DOMAIN t |-> i + Len(s)]
<1>2. pos \in [DOMAIN t -> DOMAIN (s \o t)]
  BY <1>1
<1>3. \A i \in DOMAIN t : t[i] = (s \o t)[pos[i]]
  BY <1>1
<1>4. \A i, j \in DOMAIN t : i < j => pos[i] < pos[j]
  BY <1>1
<1>5. QED
  BY <1>2, <1>3, <1>4, Zenon

LEMMA DropRight ==
  ASSUME NEW s \in Seq(Directives), NEW t \in Seq(Directives)
  PROVE  \E pos \in [DOMAIN s -> DOMAIN (s \o t)] :
           /\ \A i, j \in DOMAIN s : i < j => pos[i] < pos[j]
           /\ \A i \in DOMAIN s : s[i] = (s \o t)[pos[i]]
<1>1. /\ Len(s) \in Nat /\ Len(t) \in Nat /\ DOMAIN s = 1 .. Len(s)
      /\ DOMAIN (s \o t) = 1 .. Len(s) + Len(t)
      /\ \A i \in 1 .. Len(s) + Len(t) : (s \o t)[i] = IF i <= Len(s) THEN s[i] ELSE t[i - Len(s)]
  BY ConcatProperties, LenProperties
<1> DEFINE pos == [i \in DOMAIN s |-> i]
<1>2. pos \in [DOMAIN s -> DOMAIN (s \o t)]
  BY <1>1
<1>3. \A i \in DOMAIN s : s[i] = (s \o t)[pos[i]]
  BY <1>1
<1>4. \A i, j \in DOMAIN s : i < j => pos[i] < pos[j]
  BY <1>1, Zenon
<1>5. QED
  BY <1>2, <1>3, <1>4, Zenon

\* The first of the box is the first of the answer, if there is one.
LEMMA ConcatHead ==
  ASSUME NEW s \in Seq(Directives), NEW t \in Seq(Directives), s # <<>>
  PROVE  /\ s \o t # <<>>
         /\ Head(s \o t) = Head(s)
         /\ Tail(s \o t) = Tail(s) \o t
<1>1. Head(s) \in Directives /\ Tail(s) \in Seq(Directives) /\ s = <<Head(s)>> \o Tail(s)
  BY HeadTailProperties
<1>2. <<Head(s)>> \in Seq(Directives) /\ Tail(s) \o t \in Seq(Directives)
  BY <1>1, ConcatProperties, SMT
<1>3. s \o t = <<Head(s)>> \o (Tail(s) \o t)
  BY <1>1, <1>2, ConcatAssociative
<1> DEFINE h == Head(s)
           r == Tail(s) \o t
<1>4. <<h>> \o r # <<>> /\ Head(<<h>> \o r) = h /\ Tail(<<h>> \o r) = r
  <2> h \in Directives /\ r \in Seq(Directives)
    BY <1>1, <1>2, Zenon
  <2> HIDE DEF h, r
  <2> QED  BY SMT
<1>5. QED
  BY <1>3, <1>4, Zenon

(* Hub and agent, with lost answers, late requests, cancellation and         *)
(* restarts of either, implement Mailbox: every step posts a directive at    *)
(* the end, takes the first one, loses some, or does nothing to the box.     *)
THEOREM MailboxImplemented == LinkSpec => IsMailbox
<1>1. LinkInit => Box!MailInit
  <2>1. <<>> \o <<>> = <<>>
    BY EmptySeq, ConcatEmptySeq, Zenon
  <2>2. QED  BY <2>1, Zenon DEF LinkInit, HubInit, AgentInit, Box!MailInit
<1>2. LinkTypeOK /\ [LinkNext]_linkVars => [Box!MailNext]_(Box!mailVars)
  <2> SUFFICES ASSUME LinkTypeOK, [LinkNext]_linkVars
               PROVE  Box!Post \/ Box!Take \/ Box!Lose \/ UNCHANGED Box!mailVars
    BY Zenon DEF Box!MailNext
  <2>1. handled \in Seq(Directives) /\ batch \in Seq(Directives) /\ directives \in Seq(Directives)
    BY Zenon DEF LinkTypeOK
  <2>2. CASE UNCHANGED mail
    BY <2>2, Zenon DEF mail, Box!mailVars
  <2>3. CASE /\ batch = <<>> /\ batch' = directives /\ directives' = <<>>
             /\ UNCHANGED <<posted, handled, fault>>
    <3>1. (batch \o directives)' = batch \o directives
      BY <2>1, <2>3, ConcatEmptySeq, Zenon
    <3>2. QED  BY <2>3, <3>1, Zenon DEF Box!mailVars
  <2>4. CASE /\ posted \in Nat /\ posted' = posted + 1 /\ posted' \in Directives
             /\ directives' = Append(directives, posted')
             /\ UNCHANGED <<batch, handled, fault>>
    BY <2>1, <2>4, AppendRight, SMTT(30) DEF Box!Post
  <2>5. CASE /\ batch # <<>> /\ handled' = Append(handled, Head(batch)) /\ batch' = Tail(batch)
             /\ UNCHANGED <<directives, posted, fault>>
    BY <2>1, <2>5, ConcatHead, Zenon DEF Box!Take
  <2>6. CASE /\ batch' = <<>> /\ fault' = (fault \/ batch # <<>>)
             /\ UNCHANGED <<directives, posted, handled>>
    <3>1. (batch \o directives)' = directives
      BY <2>1, <2>6, ConcatEmptySeq, Zenon
    <3>2. PICK pos \in [DOMAIN directives -> DOMAIN (batch \o directives)] :
                 /\ \A i, j \in DOMAIN directives : i < j => pos[i] < pos[j]
                 /\ \A i \in DOMAIN directives : directives[i] = (batch \o directives)[pos[i]]
      BY <2>1, DropLeft, Zenon
    <3>3. /\ pos \in [DOMAIN (batch \o directives)' -> DOMAIN (batch \o directives)]
          /\ \A i, j \in DOMAIN (batch \o directives)' : i < j => pos[i] < pos[j]
          /\ \A i \in DOMAIN (batch \o directives)' :
               (batch \o directives)'[i] = (batch \o directives)[pos[i]]
      BY <3>1, <3>2, Zenon
    <3>4. (batch \o directives)' \in Seq(Nat)
      BY <2>1, <3>1, NatSeq, Zenon
    <3>5. QED  BY <2>6, <3>3, <3>4, Zenon DEF Box!Lose
  <2>7. CASE /\ directives' = <<>> /\ fault' = (fault \/ directives # <<>>)
             /\ UNCHANGED <<batch, posted, handled>>
    <3>1. (batch \o directives)' = batch
      BY <2>1, <2>7, ConcatEmptySeq, Zenon
    <3>2. PICK pos \in [DOMAIN batch -> DOMAIN (batch \o directives)] :
                 /\ \A i, j \in DOMAIN batch : i < j => pos[i] < pos[j]
                 /\ \A i \in DOMAIN batch : batch[i] = (batch \o directives)[pos[i]]
      BY <2>1, DropRight, Zenon
    <3>3. /\ pos \in [DOMAIN (batch \o directives)' -> DOMAIN (batch \o directives)]
          /\ \A i, j \in DOMAIN (batch \o directives)' : i < j => pos[i] < pos[j]
          /\ \A i \in DOMAIN (batch \o directives)' :
               (batch \o directives)'[i] = (batch \o directives)[pos[i]]
      BY <3>1, <3>2, Zenon
    <3>4. (batch \o directives)' \in Seq(Nat)
      BY <2>1, <3>1, NatSeq, Zenon
    <3>5. QED  BY <2>7, <3>3, <3>4, Zenon DEF Box!Lose
  <2>8. QED
    BY <2>2, <2>3, <2>4, <2>5, <2>6, <2>7, MailMoves, Zenon
<1>3. QED
  BY <1>1, <1>2, HubSpokeTypeCorrect, PTL DEF LinkSpec, IsMailbox, Box!MailSpec
=============================================================================
