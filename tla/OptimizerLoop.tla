---------------------------- MODULE OptimizerLoop ----------------------------
(***************************************************************************)
(* The optimization loop of internal/controller/optimizer_controller.go    *)
(* and the SafetyGuard it passes every actuation through.                  *)
(*                                                                         *)
(* One goroutine (Start) lists the ServiceObjectives on every tick and     *)
(* works through them one after the other: decide, pass the guard's three  *)
(* checks in order, apply, record.  Each API read, each guard call and     *)
(* each Apply is a step of its own, so that the clock, the operators who   *)
(* set and lift the emergency stop, an observer of the breaker and a       *)
(* restart of the process fall anywhere between them.                      *)
(*                                                                         *)
(* Left out: journal writes, events and logging (they never change the     *)
(* control flow here) and the replica counts (module Canary).              *)
(***************************************************************************)
EXTENDS SafetyGuard

CONSTANTS
  Objective,    \* the ServiceObjectives
  Namespace,
  TargetOf,     \* TargetOf[so]: the service of so.Spec.TargetRef
  NamespaceOf,  \* NamespaceOf[s]: the namespace of a service
  Policy,       \* OptimizationPolicies: their cooldown per scaling direction
  NoActuation   \* cur when no actuation is in hand

ScalingRule == [scale_up : Age, scale_down : Age]

ASSUME LoopAssumption ==
  /\ TargetOf \in [Objective -> Service]
  /\ NamespaceOf \in [Service -> Namespace]
  /\ Policy \subseteq ScalingRule

VARIABLES
  pc,            \* where the loop goroutine is
  pending,       \* the ready objectives of this cycle's list still to visit
  cur,           \* the actuation in hand: service and options
  nsPaused,      \* nsPaused[n]: namespace n carries the pause annotation
  globalPaused,  \* the global pause ConfigMap says "true"
  \* History variables: what happened, whatever the guard remembers of it.
  sinceApplied,  \* sinceApplied[s]: age of the last actuation that was applied
  fails,         \* fails[s][i]: age of the i-th last of the Apply errors of s
                 \* since its last applied actuation
  sinceStart,    \* sinceStart[s]: how many of these MaxStrikes last errors came
                 \* after the last restart
  forgotten,     \* services a restart dropped the guard's record of
  stopHeld,      \* the stop switches on ever since Allow was entered
  readFailed     \* a read of a stop switch failed since Allow was entered

envVars == <<nsPaused, globalPaused>>
applyHistory == <<sinceApplied, fails, sinceStart, forgotten>>
stopHistory == <<stopHeld, readFailed>>
vars == <<cooldowns, circuits, pc, pending, cur, nsPaused, globalPaused,
          sinceApplied, fails, sinceStart, forgotten, stopHeld, readFailed>>

ActionType == {"scale_up", "scale_down", "tune"}
Switch == {"namespace", "global"}
Step == {"idle", "cycle", "stopNamespace", "stopGlobal", "cooldown", "circuit",
         "apply", "recordActuation", "recordImproved", "recordDegraded"}
Actuation == [service : Service, dryRun : BOOLEAN, cooldownSeconds : Age]

\* Where the loop is past the checks for cur, or about to record it.
Recording == {"recordActuation", "recordImproved", "recordDegraded"}
InHand == {"stopNamespace", "stopGlobal", "cooldown", "circuit", "apply"} \cup Recording

never == [i \in 1 .. MaxStrikes |-> Horizon]

(* Type invariant. *)
TypeOK ==
  /\ GuardTypeOK
  /\ pc \in Step
  /\ pending \subseteq Objective
  /\ cur \in Actuation \cup {NoActuation}
  /\ pc \in InHand => cur \in Actuation
  /\ nsPaused \in [Namespace -> BOOLEAN]
  /\ globalPaused \in BOOLEAN
  /\ sinceApplied \in [Service -> Age]
  /\ fails \in [Service -> [1 .. MaxStrikes -> Age]]
  /\ sinceStart \in [Service -> 0 .. MaxStrikes]
  /\ forgotten \subseteq Service
  /\ stopHeld \subseteq Switch
  /\ readFailed \in BOOLEAN

Init ==
  /\ NewSafetyGuard
  /\ pc = "idle"
  /\ pending = {}
  /\ cur = NoActuation
  /\ nsPaused \in [Namespace -> BOOLEAN]
  /\ globalPaused \in BOOLEAN
  /\ sinceApplied = [s \in Service |-> Horizon]
  /\ fails = [s \in Service |-> never]
  /\ sinceStart = [s \in Service |-> 0]
  /\ forgotten = {}
  /\ stopHeld = {}
  /\ readFailed = FALSE

-----------------------------------------------------------------------------
(* The loop. *)

\* A tick of the loop's ticker.  List failing leaves nothing to visit, and an
\* objective that is not ready in the listed snapshot is skipped unseen.
runOptimizationCycle ==
  /\ pc = "idle"
  /\ \E ready \in SUBSET Objective : pending' = ready
  /\ pc' = "cycle"
  /\ UNCHANGED <<guardVars, cur, envVars, applyHistory, stopHistory>>

endOfCycle ==
  /\ pc = "cycle"
  /\ pending = {}
  /\ pc' = "idle"
  /\ UNCHANGED <<guardVars, pending, cur, envVars, applyHistory, stopHistory>>

\* The cooldown rules that buildActuationOptions reads for an action type: the
\* tune type selects no rule.
CooldownRules(type, policies) ==
  IF type = "tune" THEN {} ELSE {p[type] : p \in policies}

\* c is the largest of the matching rules' CooldownSeconds, 0 if there is none.
buildActuationOptions(c, type, policies) ==
  /\ c \in {0} \cup CooldownRules(type, policies)
  /\ \A r \in CooldownRules(type, policies) : r <= c

\* optimizeService up to the call of actuate, with an action other than
\* no_action: the loop enters Allow.
optimizeService(so) ==
  /\ pc = "cycle"
  /\ so \in pending
  /\ pending' = pending \ {so}
  /\ \E type \in ActionType, dryRun \in BOOLEAN, policies \in SUBSET Policy, c \in Age :
       /\ buildActuationOptions(c, type, policies)
       /\ cur' = [service |-> TargetOf[so], dryRun |-> dryRun, cooldownSeconds |-> c]
  /\ pc' = "stopNamespace"
  /\ stopHeld' = {w \in Switch :
       IF w = "global" THEN globalPaused ELSE nsPaused[NamespaceOf[TargetOf[so]]]}
  /\ readFailed' = FALSE
  /\ UNCHANGED <<guardVars, envVars, applyHistory>>

\* optimizeService returning early: policy lookup or solver error, or no_action.
skipService(so) ==
  /\ pc = "cycle"
  /\ so \in pending
  /\ pending' = pending \ {so}
  /\ UNCHANGED <<guardVars, pc, cur, envVars, applyHistory, stopHistory>>

-----------------------------------------------------------------------------
(* Allow: CheckEmergencyStop (two reads), CheckCooldown, CheckCircuit.  A   *)
(* failed read counts as "not paused".                                      *)

\* actuate returns: its local state is gone.
done ==
  /\ pc' = "cycle"
  /\ cur' = NoActuation
  /\ stopHeld' = {}
  /\ readFailed' = FALSE

goto(step) == pc' = step /\ UNCHANGED <<cur, stopHistory>>

readError(step) == pc' = step /\ readFailed' = TRUE /\ UNCHANGED <<cur, stopHeld>>

\* Mutant: a namespace that is not paused ends the check, the ConfigMap unread.
checkNamespacePauseOnly ==
  /\ pc = "stopNamespace"
  /\ \/ nsPaused[NamespaceOf[cur.service]] /\ done
     \/ ~nsPaused[NamespaceOf[cur.service]] /\ goto("cooldown")
     \/ readError("stopGlobal")
  /\ UNCHANGED <<guardVars, pending, envVars, applyHistory>>

checkNamespacePause ==
  /\ pc = "stopNamespace"
  /\ \/ nsPaused[NamespaceOf[cur.service]] /\ done
     \/ ~nsPaused[NamespaceOf[cur.service]] /\ goto("stopGlobal")
     \/ readError("stopGlobal")
  /\ UNCHANGED <<guardVars, pending, envVars, applyHistory>>

checkGlobalPause ==
  /\ pc = "stopGlobal"
  /\ \/ globalPaused /\ done
     \/ ~globalPaused /\ goto("cooldown")
     \/ readError("cooldown")
  /\ UNCHANGED <<guardVars, pending, envVars, applyHistory>>

checkCooldown ==
  /\ pc = "cooldown"
  /\ IF CooldownActive(cur.service, cur.cooldownSeconds) THEN done ELSE goto("circuit")
  /\ UNCHANGED <<guardVars, pending, envVars, applyHistory>>

checkCircuit ==
  /\ pc = "circuit"
  /\ CheckCircuit(cur.service)
  /\ IF CircuitOpen(cur.service) THEN done ELSE goto("apply")
  /\ UNCHANGED <<cooldowns, pending, envVars, applyHistory>>

-----------------------------------------------------------------------------
(* Apply and the recording of its outcome. *)

applied ==
  /\ pc = "apply"
  /\ ~cur.dryRun
  /\ sinceApplied' = [sinceApplied EXCEPT ![cur.service] = 0]
  /\ fails' = [fails EXCEPT ![cur.service] = never]
  /\ sinceStart' = [sinceStart EXCEPT ![cur.service] = 0]
  /\ forgotten' = forgotten \ {cur.service}
  /\ goto("recordActuation")
  /\ UNCHANGED <<guardVars, pending, envVars>>

\* Applied = false without an error: a dry run, an action no registered actuator
\* takes, or a canary that rolled its first step back.  Nothing is recorded.
notApplied ==
  /\ pc = "apply"
  /\ done
  /\ UNCHANGED <<guardVars, pending, envVars, applyHistory>>

\* The newest failure moves every other one place back.
Push(ages) == [i \in 1 .. MaxStrikes |-> IF i = 1 THEN 0 ELSE ages[i - 1]]

applyFailed ==
  /\ pc = "apply"
  /\ fails' = [fails EXCEPT ![cur.service] = Push(@)]
  /\ sinceStart' = [sinceStart EXCEPT ![cur.service] = IF @ < MaxStrikes THEN @ + 1 ELSE @]
  /\ goto("recordDegraded")
  /\ UNCHANGED <<guardVars, pending, envVars, sinceApplied, forgotten>>

recordActuation ==
  /\ pc = "recordActuation"
  /\ RecordActuation(cur.service)
  /\ goto("recordImproved")
  /\ UNCHANGED <<circuits, pending, envVars, applyHistory>>

recordImproved ==
  /\ pc = "recordImproved"
  /\ RecordImproved(cur.service)
  /\ done
  /\ UNCHANGED <<cooldowns, pending, envVars, applyHistory>>

recordDegraded ==
  /\ pc = "recordDegraded"
  /\ RecordDegraded(cur.service)
  /\ done
  /\ UNCHANGED <<cooldowns, pending, envVars, applyHistory>>

-----------------------------------------------------------------------------
(* Around the loop: the clock, an observer of the breaker, the operators,   *)
(* and a restart (a crash, or a new leader).                                *)

tick ==
  /\ GuardTick
  /\ sinceApplied' = [s \in Service |-> Older(sinceApplied[s])]
  /\ fails' = [s \in Service |-> [i \in 1 .. MaxStrikes |-> Older(fails[s][i])]]
  /\ UNCHANGED <<pc, pending, cur, envVars, sinceStart, forgotten, stopHistory>>

IsCircuitOpen(s) ==
  /\ CheckCircuit(s)
  /\ UNCHANGED <<cooldowns, pc, pending, cur, envVars, applyHistory, stopHistory>>

setNamespacePause(n, on) ==
  /\ nsPaused' = [nsPaused EXCEPT ![n] = on]
  /\ stopHeld' = IF ~on /\ pc \in InHand /\ n = NamespaceOf[cur.service]
                 THEN stopHeld \ {"namespace"} ELSE stopHeld
  /\ UNCHANGED <<guardVars, pc, pending, cur, globalPaused, applyHistory, readFailed>>

setGlobalPause(on) ==
  /\ globalPaused' = on
  /\ stopHeld' = IF on THEN stopHeld ELSE stopHeld \ {"global"}
  /\ UNCHANGED <<guardVars, pc, pending, cur, nsPaused, applyHistory, readFailed>>

restart ==
  /\ cooldowns' = [s \in Service |-> Horizon]
  /\ circuits' = [s \in Service |-> noCircuit]
  /\ pc' = "idle"
  /\ pending' = {}
  /\ cur' = NoActuation
  /\ sinceStart' = [s \in Service |-> 0]
  /\ forgotten' = Service
  /\ stopHeld' = {}
  /\ readFailed' = FALSE
  /\ UNCHANGED <<envVars, sinceApplied, fails>>

loop ==
  \/ runOptimizationCycle
  \/ endOfCycle
  \/ \E so \in Objective : optimizeService(so) \/ skipService(so)
  \/ checkNamespacePause
  \/ checkGlobalPause
  \/ checkCooldown
  \/ checkCircuit
  \/ applied
  \/ notApplied
  \/ applyFailed
  \/ recordActuation
  \/ recordImproved
  \/ recordDegraded

environment ==
  \/ tick
  \/ \E s \in Service : IsCircuitOpen(s)
  \/ \E n \in Namespace, on \in BOOLEAN : setNamespacePause(n, on)
  \/ \E on \in BOOLEAN : setGlobalPause(on)
  \/ restart

Next == loop \/ environment

Spec == Init /\ [][Next]_vars

\* The goroutine and the clock do not stop; nobody has to pause anything.
FairSpec == Spec /\ WF_vars(loop) /\ WF_vars(tick)

-----------------------------------------------------------------------------
(* Properties. *)

\* Rate limiter: an actuation reaches Apply only when the last applied actuation
\* of its service is at least its cooldown old, however time passes between the
\* check and the Apply and between an Apply and its recording; the one exception
\* is a service whose record a restart dropped.
CooldownRespected ==
  pc = "apply" /\ cur.service \notin forgotten =>
    sinceApplied[cur.service] >= cur.cooldownSeconds

\* Circuit breaker: within one run of the process, MaxStrikes + 1 consecutive Apply
\* errors of a service span a whole pause, also when the breaker resets, fails again
\* and is looked at by observers in between: an actuation reaches Apply only when
\* the MaxStrikes-th last error is at least PauseDuration old, or older than the
\* last restart.  A restart drops the strikes (they are in memory only), so errors
\* before it do not count: after each restart another MaxStrikes may follow at once.
FailuresSpaced ==
  pc = "apply" /\ sinceStart[cur.service] = MaxStrikes =>
    fails[cur.service][MaxStrikes] >= PauseDuration

\* Emergency stop: if a switch was on when Allow was entered and has been on ever
\* since, the actuation reaches Apply only if one of the two reads failed.  (The
\* code takes a failed read for "not paused", although its comment promises that
\* under the global pause "all actuation is halted cluster-wide".)
StopHonoured ==
  pc = "apply" /\ stopHeld # {} => readFailed

\* No lockout: once the stop switches stay off and the process stays up, a
\* service the solver keeps wanting to actuate keeps reaching Apply, however many
\* errors opened its breaker and however often a cooldown blocked it.
Deciding(s) == pc = "stopNamespace" /\ cur.service = s
Attempting(s) == pc = "apply" /\ cur.service = s
NeverLockedOut ==
  \A s \in Service :
    (/\ []<>Deciding(s)
     /\ <>[](~globalPaused /\ ~nsPaused[NamespaceOf[s]])
     /\ <>[][~restart]_vars) => []<>Attempting(s)
=============================================================================
