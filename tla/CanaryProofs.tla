---------------------------- MODULE CanaryProofs ----------------------------
(***************************************************************************)
(* Proofs about Canary and PodActuator, for any largest replica count, any *)
(* values of the options and any number of watcher goroutines.             *)
(***************************************************************************)
EXTENDS Canary, TLAPS

-----------------------------------------------------------------------------
(* Sizing: a target is approached, never overshot.                           *)

\* n lies between a and b, in whichever order they are.
Between(n, a, b) == (a <= n /\ n <= b) \/ (b <= n /\ n <= a)

LEMMA MaxDeltaPositive ==
  ASSUME NEW current \in Nat, NEW percent \in Nat
  PROVE  maxDelta(current, percent) \in Nat /\ maxDelta(current, percent) >= 1
<1> DEFINE delta == (current * percent) \div 100
<1>1. current * percent \in Int
  OBVIOUS
<1>2. delta \in Int
  <2> HIDE DEF delta
  <2>1. \A p \in Int : p \div 100 \in Int
    OBVIOUS
  <2>2. QED  BY <1>1, <2>1, Zenon DEF delta
<1>3. maxDelta(current, percent) = IF delta < 1 THEN 1 ELSE delta
  BY Zenon DEF maxDelta
<1> HIDE DEF delta
<1>4. QED  BY <1>2, <1>3

(* applyMaxChange moves the replica count toward the target, by at most the *)
(* larger of one replica and maxChange, and not past it.                    *)
THEOREM MaxChangeBetween ==
  ASSUME NEW current \in Nat, NEW target \in Nat, NEW percent \in Nat
  PROVE  LET t == applyMaxChange(current, target, percent) IN
         /\ t \in Nat
         /\ Between(t, current, target)
         /\ percent > 0 /\ current > 0 => abs(t - current) <= maxDelta(current, percent)
<1> DEFINE m == maxDelta(current, percent)
           t == applyMaxChange(current, target, percent)
<1>1. m \in Nat /\ m >= 1
  BY MaxDeltaPositive, Zenon
<1>2. t = IF percent <= 0 \/ current = 0 THEN target
          ELSE IF target > current + m THEN current + m
          ELSE IF target < current - m THEN current - m ELSE target
  BY Zenon DEF applyMaxChange
<1> HIDE DEF m, t
<1>3. t \in Nat /\ Between(t, current, target)
  BY <1>1, <1>2 DEF Between
<1>4. percent > 0 /\ current > 0 => abs(t - current) <= m
  BY <1>1, <1>2 DEF abs
<1>5. QED  BY <1>3, <1>4, Zenon DEF m, t

(* halfStep lies between the current count and the target, at least as near *)
(* to the target as to the current count.                                   *)
THEOREM HalfStepBetween ==
  ASSUME NEW current \in Nat, NEW target \in Nat
  PROVE  LET h == halfStep(current, target) IN
         /\ h \in Nat
         /\ Between(h, current, target)
         /\ abs(target - h) <= abs(h - current)
  BY DEF halfStep, Between, abs

\* What Apply writes is a size that runs.
LEMMA SizingType ==
  ASSUME NEW current \in Replicas, NEW target \in 0 .. MaxReplicas, NEW percent \in MaxChange
  PROVE  applyMaxChange(current, floor(target), percent) \in 1 .. MaxReplicas
<1>1. floor(target) \in 1 .. MaxReplicas
  BY ReplicasAssumption DEF floor, MinReplicas
<1>2. current \in Nat /\ floor(target) \in Nat /\ percent \in Nat
  BY <1>1, CanaryAssumption, ReplicasAssumption DEF Replicas
<1> DEFINE t == applyMaxChange(current, floor(target), percent)
<1>3. t \in Nat /\ Between(t, current, floor(target))
  BY <1>2, MaxChangeBetween, Zenon
<1>4. current = 0 => t = floor(target)
  BY Zenon DEF applyMaxChange
<1> HIDE DEF t
<1>5. t \in 1 .. MaxReplicas
  BY <1>1, <1>2, <1>3, <1>4, ReplicasAssumption DEF Between, Replicas
<1>6. QED  BY <1>5, Zenon DEF t

LEMMA RunningIsSize == 1 .. MaxReplicas \subseteq Replicas
BY ReplicasAssumption DEF Replicas

LEMMA HalfStepType ==
  ASSUME NEW current \in Replicas, NEW target \in 0 .. MaxReplicas
  PROVE  halfStep(current, target) \in 0 .. MaxReplicas
<1> DEFINE h == halfStep(current, target)
<1>1. current \in Nat /\ target \in Nat
  BY ReplicasAssumption DEF Replicas
<1>2. h \in Nat /\ Between(h, current, target)
  BY <1>1, HalfStepBetween, Zenon
<1> HIDE DEF h
<1>3. h \in 0 .. MaxReplicas
  BY <1>2, ReplicasAssumption DEF Between, Replicas
<1>4. QED  BY <1>3, Zenon DEF h

-----------------------------------------------------------------------------
(* Type correctness.                                                         *)

\* The copies that patches are computed from are of the right kind, and a
\* rollback is only computed from an annotated Deployment.
CopyInv ==
  /\ pc \in {"list", "get", "patchHPA", "patch", "sleep"} => act \in Action
  /\ pc = "patchHPA" => read \in HPA /\ hpa \in HPA
  /\ pc = "patch" => read \in Deployment
  /\ pc = "rollbackPatch" => read \in Deployment /\ read.prev \in Replicas
  /\ \A w \in Watcher : watch[w].status = "patch" =>
       watch[w].read \in Deployment /\ watch[w].read.prev \in Replicas

CanaryInv == TypeOK /\ CopyInv

LEMMA ApplyDeploymentType ==
  ASSUME PodTypeOK, read \in Deployment, act \in Action,
         applyDeployment(read, floor(act.target), act.maxChange)
  PROVE  PodTypeOK'
<1> DEFINE t == applyMaxChange(read.replicas, floor(act.target), act.maxChange)
<1>1. t \in Replicas
  BY SizingType, RunningIsSize, Zenon DEF Deployment, Action
<1> HIDE DEF t
<1>2. deploy' = [replicas |-> merge(deploy.replicas, read.replicas, t),
                 prev |-> merge(deploy.prev, read.prev, read.replicas)] /\ hpa' = hpa
  BY Zenon DEF applyDeployment, t
<1>3. QED
  BY <1>1, <1>2, Zenon DEF PodTypeOK, Deployment, Action, merge

LEMMA ApplyHPAType ==
  ASSUME PodTypeOK, read \in HPA, hpa \in HPA, act \in Action,
         applyHPA(read, floor(act.target), act.maxChange)
  PROVE  PodTypeOK' /\ hpa' \in HPA
<1> DEFINE t == applyMaxChange(read.max, floor(act.target), act.maxChange)
<1>1. t \in 1 .. MaxReplicas
  BY SizingType, RunningIsSize, Zenon DEF HPA, Action
<1> HIDE DEF t
<1>2. hpa' = [min |-> merge(hpa.min, read.min, t), max |-> merge(hpa.max, read.max, t)]
      /\ deploy' = deploy
  BY Zenon DEF applyHPA, t
<1>3. QED
  BY <1>1, <1>2, Zenon DEF PodTypeOK, HPA, merge

LEMMA RollbackType ==
  ASSUME PodTypeOK, NEW copy \in Deployment, copy.prev \in Replicas, rollbackDeployment(copy)
  PROVE  PodTypeOK'
  BY Zenon DEF rollbackDeployment, PodTypeOK, Deployment, merge

LEMMA WroteType ==
  ASSUME last \in Write, NEW kind \in {"action", "half", "undo", "abort", "other"}, wrote(kind)
  PROVE  last' \in Write
  BY Zenon DEF wrote, Write

LEMMA RollbackWroteType ==
  ASSUME last \in Write, NEW fresh \in BOOLEAN, rollbackWrote(fresh)
  PROVE  last' \in Write
  BY WroteType, Zenon DEF rollbackWrote

LEMMA ApplyWroteType ==
  ASSUME last \in Write, act \in Action, NEW fresh \in BOOLEAN, NEW size \in Replicas,
         applyWrote(fresh, size)
  PROVE  last' \in Write
<1>1. act.stage \in {"single", "step1", "step2"}
  BY Zenon DEF Action, Stage
<1>2. PICK write \in {"action", "half", "other"} :
        last' = IF act.stage = "step2" THEN [last EXCEPT !.write = write]
                ELSE [write |-> write, split |-> act.stage = "step1", size |-> size,
                      maxChange |-> act.maxChange]
  BY <1>1, Zenon DEF applyWrote
<1>3. last' \in Write
  BY <1>2, Zenon DEF Write, Action
<1>4. QED  BY <1>3, Zenon DEF applyWrote

\* What the history keeps of a write.
LEMMA ApplyWroteSplit ==
  ASSUME last \in Write, act \in Action, NEW fresh \in BOOLEAN, NEW size,
         last.write \in {"half", "abort"} => last.split, applyWrote(fresh, size)
  PROVE  /\ last'.write \in {"half", "abort"} => last'.split
         /\ last'.write \in {"action", "half", "other"}
         /\ last'.write # "other" /\ act.stage # "step2" => fresh /\ last'.size = size
         /\ act.stage = "step2" => last'.write # "half" /\ (last'.write = "action" => last'.split)
<1>1. act.stage \in {"single", "step1", "step2"}
  BY Zenon DEF Action, Stage
<1>2. CASE act.stage = "step2"
  BY <1>2, Zenon DEF applyWrote, Write
<1>3. CASE act.stage \in {"single", "step1"}
  BY <1>3, Zenon DEF applyWrote
<1>4. QED  BY <1>1, <1>2, <1>3, Zenon

\* Steps of the caller and of the environment leave the goroutines' copies alone.
LEMMA WatchCopies ==
  ASSUME CopyInv, watch' = watch
  PROVE  \A w \in Watcher : watch'[w].status = "patch" =>
           watch'[w].read \in Deployment /\ watch'[w].read.prev \in Replicas
  BY Zenon DEF CopyInv

LEMMA CancelType ==
  ASSUME TypeOK, CopyInv, cancelWatcher
  PROVE  /\ watchers' \in Watcher \cup {NoWatcher}
         /\ watch' \in [Watcher -> Goroutine]
         /\ \A w \in Watcher : watch'[w].status = "patch" =>
              watch'[w].read \in Deployment /\ watch'[w].read.prev \in Replicas
<1>1. CASE watch' = watch
  BY <1>1, WatchCopies, Zenon DEF cancelWatcher, TypeOK
<1>2. CASE watchers # NoWatcher /\ watch' = [watch EXCEPT ![watchers].cancelled = TRUE]
  <2>1. watchers \in Watcher
    BY <1>2, Zenon DEF TypeOK
  <2>2. watch' \in [Watcher -> Goroutine]
    BY <1>2, <2>1, ZenonT(30) DEF TypeOK, Goroutine
  <2>3. \A w \in Watcher : watch'[w].status = watch[w].status /\ watch'[w].read = watch[w].read
    BY <1>2, <2>1, Zenon DEF TypeOK, Goroutine
  <2>4. QED  BY <2>2, <2>3, Zenon DEF cancelWatcher, CopyInv
<1>3. QED  BY <1>1, <1>2, Zenon DEF cancelWatcher

LEMMA CanaryStep == CanaryInv /\ [Next]_vars => CanaryInv'
<1> SUFFICES ASSUME CanaryInv, [Next]_vars
             PROVE  CanaryInv'
  BY Zenon
<1> USE DEF CanaryInv
<1>a. TypeOK /\ CopyInv
  BY Zenon
<1>1. CASE Apply
  <2>1. PICK target \in 0 .. MaxReplicas, canary \in CanaryOption, m \in MaxChange :
          LET large == canary /\ isLargeChange(deploy.replicas, target) IN
          act' = [stage |-> IF large THEN "step1" ELSE "single",
                  target |-> IF large THEN halfStep(deploy.replicas, target) ELSE target,
                  final |-> target, maxChange |-> m]
    BY <1>1, Zenon DEF Apply
  <2>2. halfStep(deploy.replicas, target) \in 0 .. MaxReplicas
    BY HalfStepType, Zenon DEF TypeOK, PodTypeOK, Deployment
  <2>3. act' \in Action
    BY <2>1, <2>2, Zenon DEF Action, Stage
  <2>4. QED
    BY <1>1, <2>3, WatchCopies, Zenon
       DEF Apply, podVars, watcherVars, TypeOK, PodTypeOK, CopyInv, Step
<1>2. CASE listHPA
  BY <1>2, WatchCopies, Zenon
     DEF listHPA, done, goto, podVars, watcherVars, TypeOK, PodTypeOK, CopyInv, Step
<1>3. CASE getDeployment
  BY <1>3, WatchCopies, Zenon
     DEF getDeployment, done, podVars, watcherVars, TypeOK, PodTypeOK, CopyInv, Step
<1>4. CASE patchHPA
  <2>1. act \in Action /\ read \in HPA /\ hpa \in HPA
    BY <1>4, Zenon DEF patchHPA, CopyInv
  <2>2. PodTypeOK'
    BY <1>4, <2>1, ApplyHPAType, Zenon DEF patchHPA, podVars, TypeOK, PodTypeOK
  <2>3. last' \in Write
    <3>1. deploy.replicas \in Replicas
      BY Zenon DEF TypeOK, PodTypeOK, Deployment
    <3>2. QED
      BY <1>4, <2>1, <3>1, ApplyWroteType, WroteType, Zenon DEF patchHPA, TypeOK
  <2>4. /\ pc' \in {"idle", "sleep", "cancelOld"}
        /\ act' \in Action \cup {None} /\ (pc' = "sleep" => act' \in Action)
        /\ read' = None
    BY <1>4, <2>1, Zenon DEF patchHPA, patched, done
  <2>5. QED
    BY <1>4, <2>2, <2>3, <2>4, WatchCopies, Zenon DEF patchHPA, watcherVars, TypeOK, CopyInv, Step
<1>5. CASE patchDeployment
  <2>1. act \in Action /\ read \in Deployment
    BY <1>5, Zenon DEF patchDeployment, CopyInv
  <2>2. PodTypeOK'
    BY <1>5, <2>1, ApplyDeploymentType, Zenon DEF patchDeployment, podVars, TypeOK, PodTypeOK
  <2>3. last' \in Write
    <3>1. read.replicas \in Replicas
      BY <2>1, Zenon DEF Deployment
    <3>2. QED
      BY <1>5, <2>1, <3>1, ApplyWroteType, WroteType, Zenon DEF patchDeployment, TypeOK
  <2>4. /\ pc' \in {"idle", "sleep", "cancelOld"}
        /\ act' \in Action \cup {None} /\ (pc' = "sleep" => act' \in Action)
        /\ read' = None
    BY <1>5, <2>1, Zenon DEF patchDeployment, patched, done
  <2>5. QED
    BY <1>5, <2>2, <2>3, <2>4, WatchCopies, Zenon
       DEF patchDeployment, watcherVars, TypeOK, CopyInv, Step
<1>6. CASE checkStep1
  <2>1. act' \in Action
    BY <1>6, Zenon DEF checkStep1, goto, CopyInv, Action, Stage
  <2>2. QED
    BY <1>6, <2>1, WatchCopies, Zenon
       DEF checkStep1, goto, podVars, watcherVars, TypeOK, PodTypeOK, CopyInv, Step
<1>7. CASE cancelOld
  BY <1>7, CancelType, Zenon DEF cancelOld, goto, podVars, TypeOK, PodTypeOK, CopyInv, Step
<1>8. CASE register
  <2>1. PICK w \in Watcher :
          /\ watchers' = w
          /\ watch' = [watch EXCEPT ![w] = [noGoroutine EXCEPT !.status = "sleep"]]
    BY <1>8, Zenon DEF register
  <2>2. [noGoroutine EXCEPT !.status = "sleep"].status = "sleep"
    BY Zenon DEF noGoroutine
  <2>3. [noGoroutine EXCEPT !.status = "sleep"] \in Goroutine
    BY Zenon DEF noGoroutine, Goroutine
  <2>4. watch' \in [Watcher -> Goroutine]
    BY <2>1, <2>3, Zenon DEF TypeOK
  <2>5. \A v \in Watcher : watch'[v].status = "patch" => watch'[v] = watch[v]
    BY <2>1, <2>2, Zenon DEF TypeOK
  <2>6. QED
    BY <1>8, <2>1, <2>4, <2>5, Zenon DEF register, done, podVars, TypeOK, PodTypeOK, CopyInv, Step
<1>9. CASE Rollback
  BY <1>9, CancelType, Zenon DEF Rollback, goto, podVars, TypeOK, PodTypeOK, CopyInv, Step
<1>10. CASE rollbackGet
  <2>1. last' \in Write
    BY <1>10, RollbackWroteType, Zenon DEF rollbackGet, nothingToRollback, TypeOK
  <2>2. pc' = "rollbackPatch" => read' \in Deployment /\ read'.prev \in Replicas
    BY <1>10, Zenon DEF rollbackGet, done, TypeOK, PodTypeOK, Deployment
  <2>3. QED
    BY <1>10, <2>1, <2>2, WatchCopies, Zenon
       DEF rollbackGet, done, podVars, watcherVars, TypeOK, PodTypeOK, CopyInv, Step
<1>11. CASE rollbackPatch
  <2>1. PodTypeOK'
    BY <1>11, RollbackType, Zenon DEF rollbackPatch, podVars, TypeOK, PodTypeOK, CopyInv
  <2>2. last' \in Write
    BY <1>11, RollbackWroteType, WroteType, Zenon DEF rollbackPatch, TypeOK
  <2>3. QED
    BY <1>11, <2>1, <2>2, WatchCopies, Zenon DEF rollbackPatch, done, watcherVars, TypeOK, CopyInv, Step
<1>12. ASSUME NEW w \in Watcher, watcher(w)
       PROVE  CanaryInv'
  <2>1. UNCHANGED <<callerVars, watchers>>
    BY <1>12, Zenon DEF watcher, wake, checkHealth, watcherGet, watcherPatch
  <2>2. PodTypeOK'
    BY <1>12, RollbackType, Zenon
       DEF watcher, wake, checkHealth, watcherGet, watcherPatch, podVars, TypeOK, PodTypeOK, CopyInv
  <2>3. pc = "patchHPA" => hpa' = hpa
    BY <1>12, Zenon DEF watcher, wake, checkHealth, watcherGet, watcherPatch, podVars, rollbackDeployment
  <2>4. last' \in Write
    BY <1>12, RollbackWroteType, WroteType, Zenon
       DEF watcher, wake, checkHealth, watcherGet, watcherPatch, nothingToRollback, TypeOK
  <2>6. /\ watch' \in [Watcher -> Goroutine]
        /\ \A v \in Watcher : watch'[v].status = "patch" =>
             watch'[v].read \in Deployment /\ watch'[v].read.prev \in Replicas
    <3>a. watch[w] \in Goroutine
      BY Zenon DEF TypeOK
    <3>1. CASE end(w)
      BY <3>1, Zenon DEF end, noGoroutine, Goroutine, TypeOK, CopyInv
    <3>2. CASE enter(w, "check") \/ enter(w, "get")
      BY <3>2, <3>a DEF enter, Goroutine, TypeOK, CopyInv
    <3>3. CASE deploy.prev # noAnnotation /\
               watch' = [watch EXCEPT ![w] = [@ EXCEPT !.status = "patch", !.read = deploy]]
      BY <3>3, <3>a, Zenon DEF Goroutine, Deployment, TypeOK, PodTypeOK, CopyInv
    <3>4. QED
      BY <1>12, <3>1, <3>2, <3>3, Zenon DEF watcher, wake, checkHealth, watcherGet, watcherPatch
  <2>7. QED
    BY <2>1, <2>2, <2>3, <2>4, <2>6, Zenon DEF callerVars, TypeOK, CopyInv
<1>13. CASE scaled
  <2>1. deploy' \in Deployment
    <3>1. hpa \in HPA
      BY <1>13, Zenon DEF scaled, autoscale, TypeOK, PodTypeOK
    <3>2. PICK n \in hpa.min .. hpa.max : deploy' = [deploy EXCEPT !.replicas = n]
      BY <1>13, Zenon DEF scaled, autoscale
    <3>3. n \in Replicas
      BY <3>1, <3>2, ReplicasAssumption DEF HPA, Replicas
    <3>4. QED  BY <3>2, <3>3, Zenon DEF TypeOK, PodTypeOK, Deployment
  <2>2. QED
    BY <1>13, <2>1, WatchCopies, Zenon
       DEF scaled, autoscale, callerVars, watcherVars, TypeOK, PodTypeOK, CopyInv
<1>14. CASE UNCHANGED vars
  BY <1>14, WatchCopies, Zenon DEF vars, TypeOK, PodTypeOK, CopyInv
<1>15. QED
  BY <1>1, <1>2, <1>3, <1>4, <1>5, <1>6, <1>7, <1>8, <1>9, <1>10, <1>11, <1>12, <1>13, <1>14, Zenon
     DEF Next, caller

LEMMA CanaryInit == Init => CanaryInv
<1> SUFFICES ASSUME Init PROVE CanaryInv
  BY Zenon
<1>1. PodTypeOK
  BY Zenon DEF Init, PodInit, PodTypeOK
<1>2. watch \in [Watcher -> Goroutine] /\ \A w \in Watcher : watch[w].status = "none"
  BY Zenon DEF Init, noGoroutine, Goroutine
<1>3. deploy.replicas \in Replicas
  BY <1>1, Zenon DEF PodTypeOK, Deployment
<1>4. last \in Write
  BY <1>1, <1>3 DEF Init, Write, PodTypeOK, Deployment
<1>5. QED
  BY <1>1, <1>2, <1>4, Zenon DEF Init, CanaryInv, TypeOK, CopyInv, Step

(* Type correctness of the controller, its watchers and the workload.        *)
THEOREM CanaryTypeCorrect == Spec => []TypeOK
<1>1. CanaryInv => TypeOK
  BY Zenon DEF CanaryInv
<1>2. QED
  BY <1>1, CanaryInit, CanaryStep, PTL DEF Spec

-----------------------------------------------------------------------------
(* Once the old watcher is cancelled, and until the new one is registered,   *)
(* every goroutine that is left has been told.                               *)

AllTold == \A w \in Watcher : watch[w].status # "none" => watch[w].cancelled

ReachInv == CanaryInv /\ WatcherReachable /\ (pc = "register" => AllTold)

LEMMA CancelTells ==
  ASSUME TypeOK, WatcherReachable, cancelWatcher
  PROVE  AllTold'
<1> SUFFICES ASSUME NEW w \in Watcher, watch'[w].status # "none"
             PROVE  watch'[w].cancelled
  BY Zenon DEF AllTold
<1>1. CASE watchers = NoWatcher
  BY <1>1, CanaryAssumption, Zenon DEF cancelWatcher, WatcherReachable
<1>2. CASE watchers \in Watcher /\ watch[watchers].status = "none"
  BY <1>2, CanaryAssumption, Zenon DEF cancelWatcher, WatcherReachable
<1>3. CASE watchers \in Watcher /\ watch[watchers].status # "none"
  <2>1. watch' = [watch EXCEPT ![watchers].cancelled = TRUE]
    BY <1>3, CanaryAssumption, Zenon DEF cancelWatcher
  <2>2. QED  BY <1>3, <2>1, Zenon DEF WatcherReachable, TypeOK, Goroutine
<1>4. QED  BY <1>1, <1>2, <1>3, Zenon DEF TypeOK

LEMMA ReachStep == ReachInv /\ [Next]_vars => ReachInv'
<1> SUFFICES ASSUME ReachInv, [Next]_vars
             PROVE  ReachInv'
  BY Zenon
<1>a. CanaryInv' /\ TypeOK /\ TypeOK'
  BY CanaryStep, Zenon DEF ReachInv, CanaryInv
<1>b. ASSUME AllTold' PROVE ReachInv'
  BY <1>a, <1>b, Zenon DEF ReachInv, AllTold, WatcherReachable
<1>1. CASE cancelOld \/ Rollback
  BY <1>1, <1>a, <1>b, CancelTells, Zenon DEF cancelOld, Rollback, ReachInv
<1>2. CASE register
  <2>1. PICK w \in Watcher :
          /\ watchers' = w
          /\ watch' = [watch EXCEPT ![w] = [noGoroutine EXCEPT !.status = "sleep"]]
    BY <1>2, Zenon DEF register
  <2>2. \A v \in Watcher : v # w => watch'[v] = watch[v]
    BY <2>1, <1>a, Zenon DEF TypeOK
  <2>3. AllTold /\ pc' = "idle"
    BY <1>2, Zenon DEF register, done, ReachInv
  <2>4. QED  BY <2>1, <2>2, <2>3, <1>a, Zenon DEF ReachInv, WatcherReachable, AllTold
<1>3. CASE UNCHANGED watcherVars /\ pc' # "register"
  BY <1>3, <1>a, Zenon DEF watcherVars, ReachInv, WatcherReachable
<1>4. CASE UNCHANGED <<pc, watchers, watch>>
  BY <1>4, <1>a, Zenon DEF ReachInv, WatcherReachable, AllTold
<1>5. ASSUME NEW w \in Watcher, watcher(w)
      PROVE  ReachInv'
  <2>1. UNCHANGED <<pc, watchers>>
    BY <1>5, Zenon DEF watcher, wake, checkHealth, watcherGet, watcherPatch, callerVars
  <2>2. watch[w].status # "none"
    BY <1>5, Zenon DEF watcher, wake, checkHealth, watcherGet, watcherPatch
  <2>3. /\ \A v \in Watcher : v # w => watch'[v] = watch[v]
        /\ watch'[w].status = "none" \/ watch'[w].cancelled = watch[w].cancelled
    <3>a. watch[w] \in Goroutine
      BY <1>a, Zenon DEF TypeOK
    <3>1. CASE end(w)
      BY <3>1, <1>a, Zenon DEF end, noGoroutine, TypeOK
    <3>2. CASE enter(w, "check") \/ enter(w, "get")
      BY <3>2, <3>a, <1>a DEF enter, Goroutine, TypeOK
    <3>3. CASE watch' = [watch EXCEPT ![w] = [@ EXCEPT !.status = "patch", !.read = deploy]]
      BY <3>3, <3>a, <1>a, Zenon DEF Goroutine, TypeOK
    <3>4. QED
      BY <1>5, <3>1, <3>2, <3>3, Zenon DEF watcher, wake, checkHealth, watcherGet, watcherPatch
  <2>4. WatcherReachable'
    BY <2>1, <2>2, <2>3, Zenon DEF ReachInv, WatcherReachable
  <2>5. pc' = "register" => AllTold'
    BY <2>1, <2>2, <2>3, Zenon DEF ReachInv, AllTold
  <2>6. QED  BY <1>a, <2>4, <2>5, Zenon DEF ReachInv
<1>6. CASE Apply \/ listHPA \/ getDeployment \/ checkStep1 \/ rollbackGet
  BY <1>6, <1>3, Zenon
     DEF Apply, listHPA, getDeployment, checkStep1, rollbackGet, done, goto
<1>7. CASE patchHPA \/ patchDeployment \/ rollbackPatch
  <2>1. UNCHANGED <<watchers, watch>> /\ pc' # "register"
    BY <1>7, Zenon DEF patchHPA, patchDeployment, rollbackPatch, patched, done, watcherVars
  <2>2. QED  BY <2>1, <1>a, Zenon DEF ReachInv, WatcherReachable
<1>8. CASE scaled \/ UNCHANGED vars
  BY <1>8, <1>4, Zenon DEF scaled, vars, callerVars, watcherVars
<1>9. QED
  BY <1>1, <1>2, <1>5, <1>6, <1>7, <1>8, Zenon DEF Next, caller

(* The watchers map never loses a goroutine that may still roll back: with   *)
(* any number of them, in any order of Apply, Rollback and wake-ups.         *)
THEOREM WatcherReachableHolds == Spec => []WatcherReachable
<1>1. Init => ReachInv
  <2> SUFFICES ASSUME Init PROVE ReachInv
    BY Zenon
  <2>1. \A w \in Watcher : watch[w].status = "none"
    BY Zenon DEF Init, noGoroutine
  <2>2. QED  BY <2>1, CanaryInit, Zenon DEF Init, ReachInv, WatcherReachable
<1>2. ReachInv => WatcherReachable
  BY Zenon DEF ReachInv
<1>3. QED
  BY <1>1, <1>2, ReachStep, PTL DEF Spec

-----------------------------------------------------------------------------
(* What a rollback restores, without an HPA.  The annotation holds the size  *)
(* before the last write that was computed from a fresh copy, unless that    *)
(* write is the second step of a canary.                                     *)

Undoable == last.write = "half" \/ (last.write = "action" /\ ~last.split)
Undone == last.write = "abort" \/ (last.write = "undo" /\ ~last.split)

SnapshotInv ==
  /\ CanaryInv
  /\ last.write \in {"half", "abort"} => last.split
  /\ hpa = NoHPA /\ Undoable => deploy.prev = last.size
  /\ hpa = NoHPA /\ Undone => deploy.replicas = last.size

\* A rollback, of the caller or of a watcher, computed from the given copy.
LEMMA RollbackSnapshot ==
  ASSUME SnapshotInv, NEW copy \in Deployment, copy.prev \in Replicas,
         rollbackDeployment(copy), rollbackWrote(copy = deploy) \/ wrote("other"), CanaryInv'
  PROVE  SnapshotInv'
<1>1. last \in Write /\ deploy \in Deployment
  BY Zenon DEF SnapshotInv, CanaryInv, TypeOK, PodTypeOK
<1>2. hpa' = hpa /\ deploy'.prev = deploy.prev
  BY <1>1, Zenon DEF rollbackDeployment, Deployment
<1>3. last'.size = last.size /\ last'.split = last.split
  BY <1>1, Zenon DEF rollbackWrote, wrote, Write
<1>4. copy = deploy => deploy'.replicas = deploy.prev
  BY <1>1, Zenon DEF rollbackDeployment, merge, Deployment
<1>5. /\ last'.write \in {"undo", "abort", "other"}
      /\ last'.write = "undo" => copy = deploy /\ last.write = "action"
      /\ last'.write = "abort" => copy = deploy /\ last.write = "half"
  BY <1>1, Zenon DEF rollbackWrote, wrote, Write
<1>6. QED
  BY <1>2, <1>3, <1>4, <1>5, Zenon DEF SnapshotInv, Undoable, Undone

\* There is an annotation once something can be undone.
LEMMA NothingSnapshot ==
  ASSUME SnapshotInv, deploy.prev = noAnnotation, nothingToRollback, UNCHANGED podVars,
         CanaryInv'
  PROVE  SnapshotInv'
<1>1. last \in Write /\ deploy \in Deployment
  BY Zenon DEF SnapshotInv, CanaryInv, TypeOK, PodTypeOK
<1>2. last.size # noAnnotation
  BY <1>1, ReplicasAssumption DEF Write, Replicas, noAnnotation
<1>3. hpa = NoHPA => ~Undoable
  BY <1>2, Zenon DEF SnapshotInv
<1>4. /\ last'.write \in {"undo", "abort", "other"} /\ last'.split = last.split
      /\ last'.write = "undo" => last.write = "action"
      /\ last'.write = "abort" => last.write = "half"
  BY <1>1, Zenon DEF nothingToRollback, rollbackWrote, wrote, Write
<1>5. QED
  BY <1>3, <1>4, Zenon DEF SnapshotInv, Undoable, Undone, podVars

\* Nothing is written.
LEMMA NoWriteSnapshot ==
  ASSUME SnapshotInv, UNCHANGED <<podVars, last>>, CanaryInv'
  PROVE  SnapshotInv'
  BY Zenon DEF SnapshotInv, Undoable, Undone, podVars

LEMMA SnapshotStep == SnapshotInv /\ [Next]_vars => SnapshotInv'
<1> SUFFICES ASSUME SnapshotInv, [Next]_vars
             PROVE  SnapshotInv'
  BY Zenon
<1>a. CanaryInv /\ CanaryInv'
  BY CanaryStep, Zenon DEF SnapshotInv
<1>b. TypeOK /\ CopyInv /\ last \in Write /\ deploy \in Deployment
  BY <1>a, Zenon DEF CanaryInv, TypeOK, PodTypeOK
<1>1. CASE Apply \/ listHPA \/ getDeployment \/ checkStep1 \/ cancelOld \/ register \/ Rollback
  BY <1>1, <1>a, NoWriteSnapshot, Zenon
     DEF Apply, listHPA, getDeployment, checkStep1, cancelOld, register, Rollback
<1>2. CASE patchHPA
  <2>1. CASE UNCHANGED <<podVars, last>>
    BY <2>1, <1>a, NoWriteSnapshot, Zenon
  <2>2. CASE applyHPA(read, floor(act.target), act.maxChange) /\ wrote("other")
    <3>1. last'.write = "other"
      BY <2>2, <1>b, Zenon DEF wrote, Write
    <3>2. QED  BY <3>1, <1>a, Zenon DEF SnapshotInv, Undoable, Undone
  <2>3. CASE /\ applyHPA(read, floor(act.target), act.maxChange)
             /\ applyWrote(read = hpa, deploy.replicas)
    <3>1. hpa # NoHPA /\ hpa' # NoHPA
      <4>1. hpa \in HPA /\ read \in HPA /\ act \in Action
        BY <1>2, <1>b, Zenon DEF patchHPA, CopyInv
      <4>2. hpa' \in HPA
        BY <4>1, <2>3, <1>b, ApplyHPAType, Zenon DEF TypeOK
      <4>3. QED  BY <4>1, <4>2, NoHPAAssumption, Zenon
    <3>2. last'.write \in {"half", "abort"} => last'.split
      BY <1>2, <2>3, <1>b, ApplyWroteSplit, Zenon DEF patchHPA, CopyInv, SnapshotInv
    <3>3. QED  BY <3>1, <3>2, <1>a, Zenon DEF SnapshotInv
  <2>4. QED
    BY <1>2, <2>1, <2>2, <2>3, Zenon DEF patchHPA
<1>3. CASE patchDeployment
  <2>1. CASE UNCHANGED <<podVars, last>>
    BY <2>1, <1>a, NoWriteSnapshot, Zenon
  <2>2. CASE wrote("other")
    <3>1. last'.write = "other"
      BY <2>2, <1>b, Zenon DEF wrote, Write
    <3>2. QED  BY <3>1, <1>a, Zenon DEF SnapshotInv, Undoable, Undone
  <2>3. CASE /\ applyDeployment(read, floor(act.target), act.maxChange)
             /\ applyWrote(read = deploy, read.replicas)
    <3>1. read = deploy => deploy'.prev = read.replicas
      BY <2>3, Zenon DEF applyDeployment, merge
    <3>2. hpa' = hpa
      BY <2>3, Zenon DEF applyDeployment
    <3>3. act \in Action
      BY <1>3, <1>b, Zenon DEF patchDeployment, CopyInv
    <3>4. /\ last'.write \in {"half", "abort"} => last'.split
          /\ last'.write \in {"action", "half", "other"}
          /\ last'.write # "other" /\ act.stage # "step2" =>
               read = deploy /\ last'.size = read.replicas
          /\ act.stage = "step2" => last'.write # "half" /\ (last'.write = "action" => last'.split)
      BY <3>3, <2>3, <1>b, ApplyWroteSplit, Zenon DEF SnapshotInv
    <3>5. QED
      BY <3>1, <3>2, <3>4, <1>a, Zenon DEF SnapshotInv, Undoable, Undone
  <2>4. QED
    BY <1>3, <2>1, <2>2, <2>3, Zenon DEF patchDeployment
<1>4. CASE rollbackGet
  BY <1>4, <1>a, NothingSnapshot, NoWriteSnapshot, Zenon DEF rollbackGet
<1>5. CASE rollbackPatch
  <2>1. read \in Deployment /\ read.prev \in Replicas
    BY <1>5, <1>b, Zenon DEF rollbackPatch, CopyInv
  <2>2. QED
    BY <1>5, <1>a, <2>1, RollbackSnapshot, NoWriteSnapshot, Zenon DEF rollbackPatch
<1>6. ASSUME NEW w \in Watcher, watcher(w)
      PROVE  SnapshotInv'
  <2>1. CASE wake(w) \/ checkHealth(w)
    BY <2>1, <1>a, NoWriteSnapshot, Zenon DEF wake, checkHealth
  <2>2. CASE watcherGet(w)
    BY <2>2, <1>a, NothingSnapshot, NoWriteSnapshot, Zenon DEF watcherGet
  <2>3. CASE watcherPatch(w)
    <3>1. watch[w].read \in Deployment /\ watch[w].read.prev \in Replicas
      BY <2>3, <1>b, Zenon DEF watcherPatch, CopyInv
    <3>2. QED
      BY <2>3, <3>1, <1>a, RollbackSnapshot, NoWriteSnapshot, Zenon DEF watcherPatch
  <2>4. QED
    BY <1>6, <2>1, <2>2, <2>3, Zenon DEF watcher
<1>7. CASE scaled
  <2>1. hpa # NoHPA /\ hpa' = hpa /\ last' = last
    BY <1>7, Zenon DEF scaled, autoscale
  <2>2. QED  BY <2>1, <1>a, Zenon DEF SnapshotInv
<1>8. CASE UNCHANGED vars
  BY <1>8, <1>a, NoWriteSnapshot, Zenon DEF vars, podVars
<1>9. QED
  BY <1>1, <1>2, <1>3, <1>4, <1>5, <1>6, <1>7, <1>8, Zenon DEF Next, caller

LEMMA SnapshotInit == Init => SnapshotInv
<1> SUFFICES ASSUME Init PROVE SnapshotInv
  BY Zenon
<1>1. last.write = "other"
  BY DEF Init
<1>2. QED  BY <1>1, CanaryInit, Zenon DEF SnapshotInv, Undoable, Undone

(* A degraded first step of a canary is undone, without an HPA.              *)
THEOREM AbortHolds == Spec => []AbortRestores
<1>1. SnapshotInv => AbortRestores
  BY Zenon DEF SnapshotInv, AbortRestores, Undone
<1>2. QED
  BY <1>1, SnapshotInit, SnapshotStep, PTL DEF Spec

(* Rollback reverts the most recent action, without an HPA and with the      *)
(* action applied in one step.                                               *)
THEOREM RollbackHolds == Spec => []DirectRollbackRestores
<1>1. SnapshotInv => DirectRollbackRestores
  BY Zenon DEF SnapshotInv, DirectRollbackRestores, Undone
<1>2. QED
  BY <1>1, SnapshotInit, SnapshotStep, PTL DEF Spec

-----------------------------------------------------------------------------
(* An action applied in one step, from a fresh copy and without an HPA,      *)
(* respects MaxChange and leaves the workload running.                       *)

LEMMA SizingBounded ==
  ASSUME NEW current \in Replicas, NEW target \in 0 .. MaxReplicas, NEW percent \in MaxChange,
         percent > 0, current > 0
  PROVE  abs(applyMaxChange(current, floor(target), percent) - current)
           <= maxDelta(current, percent)
<1>1. floor(target) \in Nat /\ current \in Nat /\ percent \in Nat
  BY ReplicasAssumption, CanaryAssumption DEF floor, MinReplicas, Replicas
<1>2. QED  BY <1>1, MaxChangeBetween, Zenon

\* The Deployment is patched only when there is no HPA.
DirectInv ==
  /\ CanaryInv
  /\ pc \in {"get", "patch"} => hpa = NoHPA
  /\ last.write = "half" => last.split

LEMMA DirectStep == DirectInv /\ [Next]_vars => DirectInv'
<1> SUFFICES ASSUME DirectInv, [Next]_vars
             PROVE  DirectInv'
  BY Zenon
<1>a. CanaryInv /\ CanaryInv'
  BY CanaryStep, Zenon DEF DirectInv
<1>b. TypeOK /\ CopyInv /\ last \in Write
  BY <1>a, Zenon DEF CanaryInv, TypeOK
<1>1. pc' \in {"get", "patch"} => hpa' = NoHPA
  <2>1. ASSUME NEW w \in Watcher, watcher(w) PROVE UNCHANGED <<pc, hpa>>
    BY <2>1, Zenon DEF watcher, wake, checkHealth, watcherGet, watcherPatch, rollbackDeployment,
                podVars, callerVars
  <2>2. CASE scaled \/ UNCHANGED vars
    BY <2>2, Zenon DEF DirectInv, scaled, autoscale, callerVars, vars
  <2>3. CASE caller
    BY <2>3, Zenon DEF DirectInv, caller, Apply, listHPA, getDeployment, checkStep1, cancelOld, register,
                Rollback, patchHPA, patchDeployment, patched, rollbackGet, rollbackPatch,
                rollbackDeployment, goto, done, podVars
  <2>4. QED  BY <2>1, <2>2, <2>3, Zenon DEF Next, DirectInv
<1>2. last'.write = "half" => last'.split
  <2>1. ASSUME last' = last PROVE last'.write = "half" => last'.split
    BY <2>1, Zenon DEF DirectInv
  <2>2. ASSUME NEW fresh \in BOOLEAN, rollbackWrote(fresh) \/ wrote("other")
        PROVE  last'.write # "half"
    BY <2>2, <1>b, Zenon DEF rollbackWrote, wrote, Write
  <2>3. ASSUME NEW fresh \in BOOLEAN, NEW size, act \in Action, applyWrote(fresh, size)
        PROVE  last'.write = "half" => last'.split
    <3>1. CASE act.stage = "step2"
      BY <3>1, <2>3, <1>b, Zenon DEF applyWrote, Write
    <3>2. CASE act.stage \in {"single", "step1"}
      BY <3>2, <2>3, Zenon DEF applyWrote
    <3>3. QED  BY <2>3, <3>1, <3>2, Zenon DEF Action, Stage
  <2>4. CASE patchHPA \/ patchDeployment
    BY <2>4, <2>1, <2>2, <2>3, <1>b, Zenon DEF patchHPA, patchDeployment, CopyInv
  <2>5. CASE rollbackGet \/ rollbackPatch
    BY <2>5, <2>1, <2>2, Zenon DEF rollbackGet, rollbackPatch, nothingToRollback
  <2>6. CASE Apply \/ listHPA \/ getDeployment \/ checkStep1 \/ cancelOld \/ register
             \/ Rollback \/ scaled \/ UNCHANGED vars
    BY <2>6, <2>1, Zenon DEF Apply, listHPA, getDeployment, checkStep1, cancelOld, register, Rollback,
                      scaled, vars
  <2>7. ASSUME NEW w \in Watcher, watcher(w) PROVE last'.write = "half" => last'.split
    BY <2>7, <2>1, <2>2, Zenon
       DEF watcher, wake, checkHealth, watcherGet, watcherPatch, nothingToRollback
  <2>8. QED  BY <2>4, <2>5, <2>6, <2>7, Zenon DEF Next, caller
<1>3. QED  BY <1>a, <1>1, <1>2, Zenon DEF DirectInv

BoundInv == DirectInv /\ ChangeBounded

\* A write that is not the single step of an action.
LEMMA OtherBound ==
  ASSUME DirectInv', last'.write = "action" => last'.split
  PROVE  BoundInv'
  BY Zenon DEF BoundInv, ChangeBounded

LEMMA NoWriteBound ==
  ASSUME BoundInv, UNCHANGED <<podVars, last>>, DirectInv'
  PROVE  BoundInv'
  BY Zenon DEF BoundInv, ChangeBounded, podVars

\* Behind an HPA nothing is claimed.
LEMMA HPABound ==
  ASSUME DirectInv', hpa' # NoHPA
  PROVE  BoundInv'
  BY Zenon DEF BoundInv, ChangeBounded

LEMMA BoundStep == BoundInv /\ [Next]_vars => BoundInv'
<1> SUFFICES ASSUME BoundInv, [Next]_vars
             PROVE  BoundInv'
  BY Zenon
<1>a. DirectInv /\ DirectInv'
  BY DirectStep, Zenon DEF BoundInv
<1>b. TypeOK /\ CopyInv /\ last \in Write
  BY <1>a, Zenon DEF DirectInv, CanaryInv, TypeOK
<1>c. ASSUME UNCHANGED <<podVars, last>> PROVE BoundInv'
  BY <1>a, <1>c, NoWriteBound, Zenon
<1>d. ASSUME wrote("other") PROVE BoundInv'
  <2>1. last'.write = "other"
    BY <1>b, <1>d, Zenon DEF wrote, Write
  <2>2. QED  BY <1>a, <2>1, OtherBound, Zenon
<1>e. ASSUME NEW fresh \in BOOLEAN, rollbackWrote(fresh) PROVE BoundInv'
  <2>1. last'.write \in {"undo", "abort", "other"}
    BY <1>b, <1>e, Zenon DEF rollbackWrote, wrote, Write
  <2>2. QED  BY <1>a, <2>1, OtherBound, Zenon
<1>f. ASSUME act \in Action, NEW fresh \in BOOLEAN, NEW size \in Replicas,
             applyWrote(fresh, size),
             fresh => deploy'.replicas = applyMaxChange(size, floor(act.target), act.maxChange)
      PROVE  BoundInv'
  <2>1. CASE act.stage = "step2"
    <3>1. last'.write = "action" => last.write = "half" /\ last'.split = last.split
                                    /\ last'.size = last.size
      BY <1>b, <1>f, <2>1, Zenon DEF applyWrote, Write
    <3>2. QED  BY <3>1, <1>a, OtherBound, Zenon DEF DirectInv
  <2>2. CASE act.stage \in {"single", "step1"}
    <3>1. /\ last'.size = size /\ last'.maxChange = act.maxChange
          /\ last'.write = "action" => fresh
      BY <1>f, <2>2, Zenon DEF applyWrote
    <3>2. act.target \in 0 .. MaxReplicas /\ act.maxChange \in MaxChange
      BY <1>f, Zenon DEF Action
    <3>3. last'.write = "action" /\ last'.maxChange > 0 /\ last'.size > 0 =>
            abs(deploy'.replicas - last'.size) <= maxDelta(last'.size, last'.maxChange)
      BY <1>f, <3>1, <3>2, SizingBounded, Zenon
    <3>4. last'.write = "action" => deploy'.replicas \in 1 .. MaxReplicas
      BY <1>f, <3>1, <3>2, SizingType, Zenon
    <3>5. last'.write = "action" => deploy'.replicas >= MinReplicas
      BY <3>4, ReplicasAssumption DEF MinReplicas
    <3>6. QED  BY <3>3, <3>5, <1>a, Zenon DEF BoundInv, ChangeBounded
  <2>3. QED  BY <1>f, <2>1, <2>2, Zenon DEF Action, Stage
<1>1. CASE Apply \/ listHPA \/ getDeployment \/ checkStep1 \/ cancelOld \/ register \/ Rollback
  BY <1>1, <1>c, Zenon
     DEF Apply, listHPA, getDeployment, checkStep1, cancelOld, register, Rollback
<1>2. CASE patchHPA
  <2>1. CASE /\ applyHPA(read, floor(act.target), act.maxChange)
             /\ applyWrote(read = hpa, deploy.replicas)
    <3>1. hpa \in HPA /\ read \in HPA /\ act \in Action /\ PodTypeOK
      BY <1>2, <1>b, Zenon DEF patchHPA, CopyInv, TypeOK
    <3>2. hpa' \in HPA
      BY <3>1, <2>1, ApplyHPAType, Zenon
    <3>3. QED  BY <3>2, <1>a, HPABound, NoHPAAssumption, Zenon
  <2>2. QED  BY <1>2, <2>1, <1>c, <1>d, Zenon DEF patchHPA
<1>3. CASE patchDeployment
  <2>1. CASE /\ applyDeployment(read, floor(act.target), act.maxChange)
             /\ applyWrote(read = deploy, read.replicas)
    <3>1. read \in Deployment /\ act \in Action
      BY <1>3, <1>b, Zenon DEF patchDeployment, CopyInv
    <3>2. CASE hpa = NoHPA
      <4>1. read = deploy =>
              deploy'.replicas = applyMaxChange(read.replicas, floor(act.target), act.maxChange)
        <5> DEFINE t == applyMaxChange(read.replicas, floor(act.target), act.maxChange)
        <5>1. deploy'.replicas = merge(deploy.replicas, read.replicas, t)
          BY <2>1, Zenon DEF applyDeployment
        <5> HIDE DEF t
        <5>2. read = deploy => deploy'.replicas = t
          BY <5>1, Zenon DEF merge
        <5>3. QED  BY <5>2, Zenon DEF t
      <4>3. read.replicas \in Replicas /\ (read = deploy) \in BOOLEAN
        BY <3>1, Zenon DEF Deployment
      <4>4. QED  BY <2>1, <3>1, <4>1, <4>3, <1>f, Zenon
    <3>3. QED  BY <3>2, <1>3, <1>a, Zenon DEF patchDeployment, DirectInv
  <2>2. QED  BY <1>3, <2>1, <1>c, <1>d, Zenon DEF patchDeployment
<1>4. CASE rollbackGet
  BY <1>4, <1>c, <1>e, Zenon DEF rollbackGet, nothingToRollback
<1>5. CASE rollbackPatch
  BY <1>5, <1>c, <1>d, <1>e, Zenon DEF rollbackPatch
<1>6. ASSUME NEW w \in Watcher, watcher(w)
      PROVE  BoundInv'
  BY <1>6, <1>c, <1>d, <1>e, Zenon
     DEF watcher, wake, checkHealth, watcherGet, watcherPatch, nothingToRollback
<1>7. CASE scaled
  <2>1. hpa # NoHPA /\ hpa' = hpa /\ last' = last
    BY <1>7, Zenon DEF scaled, autoscale
  <2>2. QED  BY <2>1, <1>a, HPABound, Zenon
<1>8. CASE UNCHANGED vars
  BY <1>8, <1>c, Zenon DEF vars, podVars
<1>9. QED
  BY <1>1, <1>2, <1>3, <1>4, <1>5, <1>6, <1>7, <1>8, Zenon DEF Next, caller

(* MaxChange bounds an action that is applied in one step without an HPA,    *)
(* which leaves at least one replica.                                        *)
THEOREM ChangeHolds == Spec => []ChangeBounded
<1>1. Init => BoundInv
  <2> SUFFICES ASSUME Init PROVE BoundInv
    BY Zenon
  <2>1. last.write = "other" /\ pc = "idle"
    BY DEF Init
  <2>2. QED  BY <2>1, CanaryInit, Zenon DEF BoundInv, DirectInv, ChangeBounded
<1>2. BoundInv => ChangeBounded
  BY Zenon DEF BoundInv
<1>3. QED
  BY <1>1, <1>2, BoundStep, PTL DEF Spec
=============================================================================
