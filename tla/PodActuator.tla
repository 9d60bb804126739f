----------------------------- MODULE PodActuator -----------------------------
(***************************************************************************)
(* The PodActuator of internal/actuator/pod_actuator.go: one workload as   *)
(* the API server holds it, and what Apply and Rollback write to it.       *)
(*                                                                         *)
(* Both read the object, compute on the copy and send a merge patch, the   *)
(* difference between copy and result, without a resource version.  So the *)
(* read and the write are two steps, and a field that the computation left *)
(* as it was read is not in the patch.  Module Canary interleaves them.    *)
(*                                                                         *)
(* Left out: the annotation on the HPA, the VPA recommendation and the     *)
(* containers' resource requests, which are written and never read; so a   *)
(* rollback does not restore the requests.                                 *)
(***************************************************************************)
EXTENDS Integers

CONSTANTS
  MaxReplicas,  \* bound: the largest replica count
  WithHPA,      \* whether a HorizontalPodAutoscaler targets the workload: the
                \* cases to start from
  NoHPA         \* hpa when none does

ASSUME ReplicasAssumption == MaxReplicas \in Nat \ {0}

VARIABLES
  deploy,  \* the Deployment: spec.replicas and the replicas of its
           \* previous-state annotation
  hpa      \* the HPA's spec.minReplicas and spec.maxReplicas

podVars == <<deploy, hpa>>

Replicas == 0 .. MaxReplicas
noAnnotation == -1
MinReplicas == 1

\* A Deployment may be scaled to nothing, by its owner or by the rollback of an
\* action that found it so; the API server admits no such range for an HPA.
Deployment == [replicas : Replicas, prev : {noAnnotation} \cup Replicas]
HPA == [min : 1 .. MaxReplicas, max : 1 .. MaxReplicas]

ASSUME NoHPAAssumption == NoHPA \notin HPA

PodTypeOK ==
  /\ deploy \in Deployment
  /\ hpa \in HPA \cup {NoHPA}

\* The workload may carry an annotation of an earlier actuation.
PodInit ==
  /\ deploy \in Deployment
  /\ \/ TRUE \in WithHPA /\ hpa \in {h \in HPA : h.min <= h.max}
     \/ FALSE \in WithHPA /\ hpa = NoHPA

-----------------------------------------------------------------------------
(* Sizing. *)

\* Mutant: the solver's target is taken as it is.
floorNot(target) == target

floor(target) == IF target < MinReplicas THEN MinReplicas ELSE target

maxDelta(current, percent) ==
  LET delta == (current * percent) \div 100 IN IF delta < 1 THEN 1 ELSE delta

\* Mutant: scaling down is not limited.
applyMaxChangeUp(current, target, percent) ==
  IF percent <= 0 \/ current = 0 THEN target
  ELSE IF target > current + maxDelta(current, percent) THEN current + maxDelta(current, percent)
  ELSE target

\* maxChangeFrac is percent / 100; 0 means no limit.
applyMaxChange(current, target, percent) ==
  IF percent <= 0 \/ current = 0 THEN target
  ELSE IF target > current + maxDelta(current, percent) THEN current + maxDelta(current, percent)
  ELSE IF target < current - maxDelta(current, percent) THEN current - maxDelta(current, percent)
  ELSE target

-----------------------------------------------------------------------------
(* Writing.  read is the copy that the patch was computed from. *)

merge(actual, read, new) == IF new = read THEN actual ELSE new

\* The limit is measured on the old maxReplicas, not on the replicas that run, and
\* both ends of the range are set to the result.
applyHPA(read, target, percent) ==
  LET t == applyMaxChange(read.max, target, percent) IN
  /\ hpa' = [min |-> merge(hpa.min, read.min, t), max |-> merge(hpa.max, read.max, t)]
  /\ UNCHANGED deploy

\* Mutant: the annotation keeps the first snapshot ever taken.
applyDeploymentOnce(read, target, percent) ==
  LET t == applyMaxChange(read.replicas, target, percent) IN
  /\ deploy' = [replicas |-> merge(deploy.replicas, read.replicas, t),
                prev |-> IF read.prev = noAnnotation
                         THEN merge(deploy.prev, read.prev, read.replicas) ELSE deploy.prev]
  /\ UNCHANGED hpa

applyDeployment(read, target, percent) ==
  LET t == applyMaxChange(read.replicas, target, percent) IN
  /\ deploy' = [replicas |-> merge(deploy.replicas, read.replicas, t),
                prev |-> merge(deploy.prev, read.prev, read.replicas)]
  /\ UNCHANGED hpa

\* Rollback: the annotation stays, and nothing else is restored.
rollbackDeployment(read) ==
  /\ deploy' = [deploy EXCEPT !.replicas = merge(@, read.replicas, read.prev)]
  /\ UNCHANGED hpa

\* External: the autoscaler moves the Deployment into the HPA's range.  It leaves
\* one that is scaled to nothing alone.
autoscale ==
  /\ hpa # NoHPA
  /\ deploy.replicas > 0
  /\ \E n \in hpa.min .. hpa.max : deploy' = [deploy EXCEPT !.replicas = n]
  /\ UNCHANGED hpa
=============================================================================
