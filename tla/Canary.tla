------------------------------- MODULE Canary -------------------------------
(***************************************************************************)
(* The CanaryController of internal/actuator/canary.go around a registry   *)
(* that holds the PodActuator, for one workload: its state is keyed by     *)
(* service and services do not meet.                                       *)
(*                                                                         *)
(* The caller is the optimization loop, one goroutine that calls Apply or  *)
(* Rollback and waits for the answer.  Every successful Apply leaves a     *)
(* watcher goroutine behind, which rolls back if the service is unhealthy  *)
(* some minutes later.  Every API call, every look at the SLO checker and  *)
(* every critical section of the controller's mutex is a step.             *)
(*                                                                         *)
(* An Apply with DryRun reads and returns, as one whose read fails does.   *)
(* A checker is configured (without one there is no watcher).              *)
(***************************************************************************)
EXTENDS PodActuator

CONSTANTS
  Watcher,       \* bound: the watcher goroutines that exist at a time
  NoWatcher,
  CanaryOption,  \* values of opts.Canary
  MaxChange,     \* values of opts.MaxChange, in percent
  None           \* act and read when there is none

ASSUME CanaryAssumption == MaxChange \subseteq Nat /\ NoWatcher \notin Watcher

VARIABLES
  pc,        \* where the caller is
  act,       \* the action and options of the Apply in hand
  read,      \* the caller's copy of the object it is about to patch
  watchers,  \* the entry of the service in the watchers map
  watch,     \* watch[w]: watcher goroutine w
  \* History variable.
  last       \* what the last write to the workload was, and of which action

callerVars == <<pc, act, read>>
watcherVars == <<watchers, watch>>
vars == <<deploy, hpa, pc, act, read, watchers, watch, last>>

Step == {"idle", "list", "get", "patchHPA", "patch", "sleep", "cancelOld", "register",
         "rollbackGet", "rollbackPatch"}
Stage == {"single", "step1", "step2"}
Action == [stage : Stage, target : 0 .. MaxReplicas, final : 0 .. MaxReplicas,
           maxChange : MaxChange]
Goroutine == [status : {"none", "sleep", "check", "get", "patch"},
              cancelled : BOOLEAN, read : Deployment \cup {None}]
noGoroutine == [status |-> "none", cancelled |-> FALSE, read |-> None]

\* write: an action applied in full, the first half of one, the rollback of
\* either with nothing written in between, or anything else; split: the action
\* took two steps; size: the Deployment's before the action.
Write == [write : {"action", "half", "undo", "abort", "other"}, split : BOOLEAN,
          size : Replicas, maxChange : MaxChange]

(* Type invariant. *)
TypeOK ==
  /\ PodTypeOK
  /\ pc \in Step
  /\ act \in Action \cup {None}
  /\ read \in Deployment \cup HPA \cup {None}
  /\ watchers \in Watcher \cup {NoWatcher}
  /\ watch \in [Watcher -> Goroutine]
  /\ last \in Write

Init ==
  /\ PodInit
  /\ pc = "idle"
  /\ act = None
  /\ read = None
  /\ watchers = NoWatcher
  /\ watch = [w \in Watcher |-> noGoroutine]
  /\ \E m \in MaxChange :
       last = [write |-> "other", split |-> FALSE, size |-> deploy.replicas, maxChange |-> m]

-----------------------------------------------------------------------------
(* Helpers of canary.go. *)

abs(n) == IF n < 0 THEN -n ELSE n

\* More than canaryThreshold, a half, of current.
isLargeChange(current, target) == current # 0 /\ 2 * abs(target - current) > current

halfStep(current, target) ==
  IF target > current THEN current + (target - current + 1) \div 2
                      ELSE current - (current - target + 1) \div 2

-----------------------------------------------------------------------------
(* History. *)

wrote(write) == last' = [last EXCEPT !.write = write]

\* The caller's Apply wrote to a workload of the given size.
\* fresh: nobody wrote between its read and its write.
applyWrote(fresh, size) ==
  LET write == IF ~fresh THEN "other"
               ELSE CASE act.stage = "single" -> "action"
                      [] act.stage = "step1" -> "half"
                      [] act.stage = "step2" -> IF last.write = "half" THEN "action" ELSE "other"
  IN  last' = IF act.stage = "step2" THEN [last EXCEPT !.write = write]
              ELSE [write |-> write, split |-> act.stage = "step1", size |-> size,
                    maxChange |-> act.maxChange]

rollbackWrote(fresh) ==
  wrote(CASE fresh /\ last.write = "action" -> "undo"
          [] fresh /\ last.write = "half" -> "abort"
          [] OTHER -> "other")

-----------------------------------------------------------------------------
(* The caller: Apply. *)

done == pc' = "idle" /\ act' = None /\ read' = None

goto(step) == pc' = step /\ UNCHANGED <<act, read>>

\* currentReplicas was read off the Deployment for the solver's input.
Apply ==
  /\ pc = "idle"
  /\ \E target \in 0 .. MaxReplicas, canary \in CanaryOption, m \in MaxChange :
       LET large == canary /\ isLargeChange(deploy.replicas, target) IN
       act' = [stage |-> IF large THEN "step1" ELSE "single",
               target |-> IF large THEN halfStep(deploy.replicas, target) ELSE target,
               final |-> target, maxChange |-> m]
  /\ pc' = "list"
  /\ UNCHANGED <<podVars, read, watcherVars, last>>

\* applyHPA: List, and return if that failed or this is a dry run.
listHPA ==
  /\ pc = "list"
  /\ \/ hpa # NoHPA /\ read' = hpa /\ pc' = "patchHPA" /\ UNCHANGED act
     \/ hpa = NoHPA /\ goto("get")
     \/ done
  /\ UNCHANGED <<podVars, watcherVars, last>>

getDeployment ==
  /\ pc = "get"
  /\ \/ read' = deploy /\ pc' = "patch" /\ UNCHANGED act
     \/ done
  /\ UNCHANGED <<podVars, watcherVars, last>>

\* The first step of two is followed by a pause, every other by the watcher.
patched ==
  /\ pc' = IF act.stage = "step1" THEN "sleep" ELSE "cancelOld"
  /\ read' = None
  /\ UNCHANGED act

\* A patch that returns an error may have been applied.
patchHPA ==
  /\ pc = "patchHPA"
  /\ \/ /\ applyHPA(read, floor(act.target), act.maxChange)
        /\ patched
        /\ applyWrote(read = hpa, deploy.replicas)
     \/ /\ applyHPA(read, floor(act.target), act.maxChange)
        /\ done
        /\ wrote("other")
     \/ done /\ UNCHANGED <<podVars, last>>
  /\ UNCHANGED watcherVars

patchDeployment ==
  /\ pc = "patch"
  /\ \/ /\ applyDeployment(read, floor(act.target), act.maxChange)
        /\ patched
        /\ applyWrote(read = deploy, read.replicas)
     \/ /\ applyDeployment(read, floor(act.target), act.maxChange)
        /\ done
        /\ wrote("other")
     \/ done /\ UNCHANGED <<podVars, last>>
  /\ UNCHANGED watcherVars

\* After the pause: the second step, or back if the SLO degraded or the
\* checker failed.
checkStep1 ==
  /\ pc = "sleep"
  /\ \/ /\ act' = [act EXCEPT !.stage = "step2", !.target = act.final]
        /\ pc' = "list"
        /\ UNCHANGED read
     \/ goto("rollbackGet")
  /\ UNCHANGED <<podVars, watcherVars, last>>

-----------------------------------------------------------------------------
(* startAutoRollbackWatcher and cancelWatcher. *)

cancelWatcher ==
  /\ watchers' = NoWatcher
  /\ watch' = IF watchers = NoWatcher \/ watch[watchers].status = "none" THEN watch
              ELSE [watch EXCEPT ![watchers].cancelled = TRUE]

\* Mutant: the entry is dropped, the goroutine not told.
cancelOldForgets ==
  /\ pc = "cancelOld"
  /\ watchers' = NoWatcher
  /\ goto("register")
  /\ UNCHANGED <<podVars, watch, last>>

cancelOld ==
  /\ pc = "cancelOld"
  /\ cancelWatcher
  /\ goto("register")
  /\ UNCHANGED <<podVars, last>>

\* Bound: the caller waits for a free goroutine.
register ==
  /\ pc = "register"
  /\ \E w \in Watcher :
       /\ watch[w].status = "none"
       /\ watchers' = w
       /\ watch' = [watch EXCEPT ![w] = [noGoroutine EXCEPT !.status = "sleep"]]
  /\ done
  /\ UNCHANGED <<podVars, last>>

-----------------------------------------------------------------------------
(* Rollback, of the caller and after a degraded first step. *)

Rollback ==
  /\ pc = "idle"
  /\ cancelWatcher
  /\ goto("rollbackGet")
  /\ UNCHANGED <<podVars, last>>

\* Without an annotation Rollback returns, as if all was restored.
nothingToRollback == rollbackWrote(TRUE)

rollbackGet ==
  /\ pc = "rollbackGet"
  /\ \/ /\ deploy.prev # noAnnotation
        /\ read' = deploy
        /\ pc' = "rollbackPatch"
        /\ UNCHANGED <<act, last>>
     \/ deploy.prev = noAnnotation /\ nothingToRollback /\ done
     \/ done /\ UNCHANGED last
  /\ UNCHANGED <<podVars, watcherVars>>

rollbackPatch ==
  /\ pc = "rollbackPatch"
  /\ \/ rollbackDeployment(read) /\ rollbackWrote(read = deploy)
     \/ rollbackDeployment(read) /\ wrote("other")
     \/ UNCHANGED <<podVars, last>>
  /\ done
  /\ UNCHANGED watcherVars

-----------------------------------------------------------------------------
(* A watcher. *)

end(w) == watch' = [watch EXCEPT ![w] = noGoroutine]

enter(w, status) == watch' = [watch EXCEPT ![w].status = status]

\* autoRollbackDelay is over: the one look at the cancellation.
wake(w) ==
  /\ watch[w].status = "sleep"
  /\ IF watch[w].cancelled THEN end(w) ELSE enter(w, "check")
  /\ UNCHANGED <<podVars, callerVars, watchers, last>>

checkHealth(w) ==
  /\ watch[w].status = "check"
  /\ end(w) \/ enter(w, "get")
  /\ UNCHANGED <<podVars, callerVars, watchers, last>>

watcherGet(w) ==
  /\ watch[w].status = "get"
  /\ \/ /\ deploy.prev # noAnnotation
        /\ watch' = [watch EXCEPT ![w] = [@ EXCEPT !.status = "patch", !.read = deploy]]
        /\ UNCHANGED last
     \/ deploy.prev = noAnnotation /\ nothingToRollback /\ end(w)
     \/ end(w) /\ UNCHANGED last
  /\ UNCHANGED <<podVars, callerVars, watchers>>

\* A request with a cancelled context is not sent.
watcherPatch(w) ==
  /\ watch[w].status = "patch"
  /\ \/ /\ ~watch[w].cancelled
        /\ rollbackDeployment(watch[w].read)
        /\ rollbackWrote(watch[w].read = deploy) \/ wrote("other")
     \/ UNCHANGED <<podVars, last>>
  /\ end(w)
  /\ UNCHANGED <<callerVars, watchers>>

-----------------------------------------------------------------------------

scaled ==
  /\ autoscale
  /\ UNCHANGED <<callerVars, watcherVars, last>>

caller ==
  \/ Apply \/ listHPA \/ getDeployment \/ patchHPA \/ patchDeployment
  \/ checkStep1 \/ cancelOld \/ register
  \/ Rollback \/ rollbackGet \/ rollbackPatch

watcher(w) == wake(w) \/ checkHealth(w) \/ watcherGet(w) \/ watcherPatch(w)

Next ==
  \/ caller
  \/ \E w \in Watcher : watcher(w)
  \/ scaled

Spec == Init /\ [][Next]_vars

-----------------------------------------------------------------------------
(* Properties. *)

\* A watcher that may still roll back can still be told not to: it is cancelled,
\* or it is the one the watchers map has for the service.
WatcherReachable ==
  \A w \in Watcher : watch[w].status # "none" => watch[w].cancelled \/ watchers = w

\* A canary whose first step degraded the SLO is undone: with nothing written in
\* between, the rollback brings the workload back to the size before the step.
\* Not so behind an HPA, whose annotation Rollback does not read.
AbortRestores == last.write = "abort" /\ hpa = NoHPA => deploy.replicas = last.size

\* Rollback "reverts the most recent action for the given service": with nothing
\* written in between, it brings the workload back to its size before the action.
RollbackRestores == last.write = "undo" => deploy.replicas = last.size

\* It does for an action that was applied in one step, to a workload without HPA.
DirectRollbackRestores ==
  last.write = "undo" /\ ~last.split /\ hpa = NoHPA => deploy.replicas = last.size

\* An action that was applied in one step to a Deployment without an HPA left it
\* running, and moved it by no more than MaxPercent, "the maximum percentage change
\* per scaling cycle", or by one replica; a workload scaled to nothing may come back
\* at any size.  (The two steps of a canary are limited one by one.  Behind an HPA
\* the document's claim is false: applyHPA measures the change of maxReplicas, so
\* that one replica in a range of 1 to 3 becomes three under a limit of 50%.)
ChangeBounded ==
  last.write = "action" /\ ~last.split /\ hpa = NoHPA =>
    /\ deploy.replicas >= MinReplicas
    /\ last.maxChange > 0 /\ last.size > 0 =>
         abs(deploy.replicas - last.size) <= maxDelta(last.size, last.maxChange)

\* A watcher stays out of a newer action ("was cancelled (e.g. a new action was
\* applied)"): it does not decide to roll back when one was applied, in full, and
\* the controller has yet to replace the watcher.
RollsBackOwnAction ==
  [][\A w \in Watcher :
       watch[w].status = "check" /\ watch'[w].status = "get" => pc # "cancelOld"]_vars
=============================================================================
