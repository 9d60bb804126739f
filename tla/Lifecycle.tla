------------------------------ MODULE Lifecycle ------------------------------
(***************************************************************************)
(* The LifecycleManager of internal/global/lifecycle.go: hibernating and   *)
(* waking clusters on directives, and the idle tracker.                    *)
(*                                                                         *)
(* Executor is the set of callers of ExecuteDirective.  The manager holds  *)
(* its mutex only while it reads or writes its maps, never across a call   *)
(* to the tenant locator, the drainer or the scaler, so every such call    *)
(* and every setState is a step of its own.  One executor is the serial    *)
(* use of the manager, two make directives overlap.                        *)
(*                                                                         *)
(* The tenant locator, the drainer and the scaler are interfaces without   *)
(* an implementation in the repository.  They are modelled by what their   *)
(* comments promise when they succeed; when they fail, nothing, a part or  *)
(* all of the work may have been done.  A tenant gives up a location only  *)
(* by being drained off it.                                                *)
(***************************************************************************)
EXTENDS Integers

CONSTANTS
  Cluster,
  Tenant,
  Executor,
  mgmtCluster,  \* the management cluster; outside Cluster when none is set
  IdleWindow    \* idleWindowDur in clock units

ASSUME IdleWindowAssumption == IdleWindow \in Nat \ {0}

VARIABLES
  states,    \* states[c]: the manager's map, "" where it has no entry
  idleFor,   \* idleFor[c]: age of idleSince, notIdle if there is none
  call,      \* call[e]: the ExecuteDirective call of executor e
  pools,     \* pools[c]: the node pools of c
  hosts,     \* hosts[t]: the clusters that run tenant t
  \* History variables.
  awakeFor,  \* awakeFor[c]: time since a wake-up last made c active
  unsure,    \* clusters with a failed external call, or a restart of the
             \* manager, since their node pools were last scaled
  asleep     \* clusters hibernated by this process and not woken since

vars == <<states, idleFor, call, pools, hosts, awakeFor, unsure, asleep>>

LifecycleState == {"", "active", "draining", "hibernating", "waking"}
Step == {"tenants", "drain", "scaleToZero", "revert", "hibernated",
         "scaleUp", "unwake", "awake", "clearIdle"}
notIdle == -1
noCall == [step |-> "return"]
Call == [step : Step, cluster : Cluster]

(* Type invariant. *)
TypeOK ==
  /\ states \in [Cluster -> LifecycleState]
  /\ idleFor \in [Cluster -> {notIdle} \cup 0 .. IdleWindow]
  /\ call \in [Executor -> Call \cup {noCall}]
  /\ pools \in [Cluster -> {"serving", "cordoned", "zero"}]
  /\ hosts \in [Tenant -> SUBSET Cluster]
  /\ awakeFor \in [Cluster -> 0 .. IdleWindow]
  /\ unsure \subseteq Cluster
  /\ asleep \subseteq Cluster

Init ==
  /\ states = [c \in Cluster |-> ""]
  /\ idleFor = [c \in Cluster |-> notIdle]
  /\ call = [e \in Executor |-> noCall]
  /\ pools = [c \in Cluster |-> "serving"]
  /\ hosts \in [Tenant -> (SUBSET Cluster) \ {{}}]
  /\ awakeFor = [c \in Cluster |-> IdleWindow]
  /\ unsure = {}
  /\ asleep = {}

-----------------------------------------------------------------------------
(* External calls. *)

IsSoleLocationForAnyTenant(c) == \E t \in Tenant : hosts[t] = {c}

Evicted(c, ts) == [t \in Tenant |-> IF t \in ts THEN hosts[t] \ {c} ELSE hosts[t]]

At(e, step) == call[e].step = step

goto(e, step) == call' = [call EXCEPT ![e].step = step]

return(e) == call' = [call EXCEPT ![e] = noCall]

setState(c, state) == states' = [states EXCEPT ![c] = state]

fail(e, step) == goto(e, step) /\ unsure' = unsure \cup {call[e].cluster}

-----------------------------------------------------------------------------
(* Hibernation. *)

\* Mutant: the management cluster is not excepted.
executeHibernateAny(e, c) ==
  /\ At(e, "return")
  /\ states[c] \notin {"hibernating", "draining"}
  /\ setState(c, "draining")
  /\ call' = [call EXCEPT ![e] = [step |-> "tenants", cluster |-> c]]
  /\ UNCHANGED <<idleFor, pools, hosts, awakeFor, unsure, asleep>>

\* A call the guards turn away returns at once and changes nothing.
executeHibernate(e, c) ==
  /\ At(e, "return")
  /\ c # mgmtCluster
  /\ states[c] \notin {"hibernating", "draining"}
  /\ setState(c, "draining")
  /\ call' = [call EXCEPT ![e] = [step |-> "tenants", cluster |-> c]]
  /\ UNCHANGED <<idleFor, pools, hosts, awakeFor, unsure, asleep>>

\* Mutant: an error of the locator counts as "not the sole location".
checkTenantsOpen(e) ==
  /\ At(e, "tenants")
  /\ \/ IsSoleLocationForAnyTenant(call[e].cluster) /\ goto(e, "revert")
     \/ goto(e, "drain")
  /\ UNCHANGED <<states, idleFor, pools, hosts, awakeFor, unsure, asleep>>

\* An error of the locator reverts like a sole location does.
checkTenants(e) ==
  /\ At(e, "tenants")
  /\ \/ goto(e, "revert")
     \/ ~IsSoleLocationForAnyTenant(call[e].cluster) /\ goto(e, "drain")
  /\ UNCHANGED <<states, idleFor, pools, hosts, awakeFor, unsure, asleep>>

drain(e) ==
  LET c == call[e].cluster IN
  /\ At(e, "drain")
  /\ pools' = [pools EXCEPT ![c] = "cordoned"]
  /\ hosts' = Evicted(c, Tenant)
  /\ goto(e, "scaleToZero")
  /\ UNCHANGED <<states, idleFor, awakeFor, unsure, asleep>>

drainFailed(e) ==
  LET c == call[e].cluster IN
  /\ At(e, "drain")
  /\ \E p \in {pools[c], "cordoned"} : pools' = [pools EXCEPT ![c] = p]
  /\ \E ts \in SUBSET Tenant : hosts' = Evicted(c, ts)
  /\ fail(e, "revert")
  /\ UNCHANGED <<states, idleFor, awakeFor, asleep>>

scaleToZero(e) ==
  LET c == call[e].cluster IN
  /\ At(e, "scaleToZero")
  /\ pools' = [pools EXCEPT ![c] = "zero"]
  /\ hosts' = Evicted(c, Tenant)
  /\ goto(e, "hibernated")
  /\ unsure' = unsure \ {c}
  /\ UNCHANGED <<states, idleFor, awakeFor, asleep>>

scaleToZeroFailed(e) ==
  LET c == call[e].cluster IN
  /\ At(e, "scaleToZero")
  /\ \E p \in {pools[c], "zero"} : pools' = [pools EXCEPT ![c] = p]
  /\ \E ts \in SUBSET Tenant : hosts' = Evicted(c, ts)
  /\ fail(e, "revert")
  /\ UNCHANGED <<states, idleFor, awakeFor, asleep>>

\* Mutant: the state is written in another spelling.
revertSpelling(e) ==
  /\ At(e, "revert")
  /\ setState(call[e].cluster, "Active")
  /\ return(e)
  /\ UNCHANGED <<idleFor, pools, hosts, awakeFor, unsure, asleep>>

\* Mutant: the revert of the wake-up path is used.
revertAsleep(e) ==
  /\ At(e, "revert")
  /\ setState(call[e].cluster, "hibernating")
  /\ return(e)
  /\ UNCHANGED <<idleFor, pools, hosts, awakeFor, unsure, asleep>>

\* Mutant: an error returns without a revert.
revertNot(e) ==
  /\ At(e, "revert")
  /\ return(e)
  /\ UNCHANGED <<states, idleFor, pools, hosts, awakeFor, unsure, asleep>>

\* Every error path of executeHibernate.
revert(e) ==
  /\ At(e, "revert")
  /\ setState(call[e].cluster, "active")
  /\ return(e)
  /\ UNCHANGED <<idleFor, pools, hosts, awakeFor, unsure, asleep>>

hibernated(e) ==
  /\ At(e, "hibernated")
  /\ setState(call[e].cluster, "hibernating")
  /\ asleep' = asleep \cup {call[e].cluster}
  /\ return(e)
  /\ UNCHANGED <<idleFor, pools, hosts, awakeFor, unsure>>

-----------------------------------------------------------------------------
(* Waking up. *)

executeWakeUp(e, c) ==
  /\ At(e, "return")
  /\ states[c] \notin {"active", "waking", ""}
  /\ setState(c, "waking")
  /\ call' = [call EXCEPT ![e] = [step |-> "scaleUp", cluster |-> c]]
  /\ UNCHANGED <<idleFor, pools, hosts, awakeFor, unsure, asleep>>

scaleUp(e) ==
  LET c == call[e].cluster IN
  /\ At(e, "scaleUp")
  /\ pools' = [pools EXCEPT ![c] = "serving"]
  /\ goto(e, "awake")
  /\ unsure' = unsure \ {c}
  /\ UNCHANGED <<states, idleFor, hosts, awakeFor, asleep>>

scaleUpFailed(e) ==
  LET c == call[e].cluster IN
  /\ At(e, "scaleUp")
  /\ \E p \in {pools[c], "serving"} : pools' = [pools EXCEPT ![c] = p]
  /\ fail(e, "unwake")
  /\ UNCHANGED <<states, idleFor, hosts, awakeFor, asleep>>

\* Mutant: a failed scale-up is reverted to active.
unwakeActive(e) ==
  /\ At(e, "unwake")
  /\ setState(call[e].cluster, "active")
  /\ return(e)
  /\ UNCHANGED <<idleFor, pools, hosts, awakeFor, unsure, asleep>>

unwake(e) ==
  /\ At(e, "unwake")
  /\ setState(call[e].cluster, "hibernating")
  /\ return(e)
  /\ UNCHANGED <<idleFor, pools, hosts, awakeFor, unsure, asleep>>

awake(e) ==
  LET c == call[e].cluster IN
  /\ At(e, "awake")
  /\ setState(c, "active")
  /\ awakeFor' = [awakeFor EXCEPT ![c] = 0]
  /\ asleep' = asleep \ {c}
  /\ goto(e, "clearIdle")
  /\ UNCHANGED <<idleFor, pools, hosts, unsure>>

\* Mutant: the idle tracker outlives the wake-up.
clearIdleNot(e) ==
  /\ At(e, "clearIdle")
  /\ return(e)
  /\ UNCHANGED <<states, idleFor, pools, hosts, awakeFor, unsure, asleep>>

clearIdle(e) ==
  /\ At(e, "clearIdle")
  /\ idleFor' = [idleFor EXCEPT ![call[e].cluster] = notIdle]
  /\ return(e)
  /\ UNCHANGED <<states, pools, hosts, awakeFor, unsure, asleep>>

-----------------------------------------------------------------------------
(* Heartbeats, tenants, the clock, and a restart of the manager's process. *)

\* low: the heartbeat's utilization is below the policy's idle threshold.
UpdateIdleStatus(c, low) ==
  /\ idleFor' = [idleFor EXCEPT ![c] =
       IF ~low THEN notIdle ELSE IF @ = notIdle THEN 0 ELSE @]
  /\ UNCHANGED <<states, call, pools, hosts, awakeFor, unsure, asleep>>

\* What UpdateIdleStatus returns for a low heartbeat.
IdleLongEnough(c) == idleFor[c] >= IdleWindow

place(t, c) ==
  /\ pools[c] = "serving"
  /\ hosts' = [hosts EXCEPT ![t] = @ \cup {c}]
  /\ UNCHANGED <<states, idleFor, call, pools, awakeFor, unsure, asleep>>

Older(age) == IF age < IdleWindow THEN age + 1 ELSE IdleWindow

tick ==
  /\ idleFor' = [c \in Cluster |-> IF idleFor[c] = notIdle THEN notIdle ELSE Older(idleFor[c])]
  /\ awakeFor' = [c \in Cluster |-> Older(awakeFor[c])]
  /\ UNCHANGED <<states, call, pools, hosts, unsure, asleep>>

\* NewLifecycleManager: both maps are kept in memory only.
restart ==
  /\ states' = [c \in Cluster |-> ""]
  /\ idleFor' = [c \in Cluster |-> notIdle]
  /\ call' = [e \in Executor |-> noCall]
  /\ unsure' = Cluster
  /\ asleep' = {}
  /\ UNCHANGED <<pools, hosts, awakeFor>>

ExecuteDirective(e) ==
  \E c \in Cluster : executeHibernate(e, c) \/ executeWakeUp(e, c)

\* The rest of a directive in progress.
proceed(e) ==
  \/ checkTenants(e)
  \/ drain(e) \/ drainFailed(e)
  \/ scaleToZero(e) \/ scaleToZeroFailed(e)
  \/ revert(e) \/ hibernated(e)
  \/ scaleUp(e) \/ scaleUpFailed(e)
  \/ unwake(e) \/ awake(e) \/ clearIdle(e)

Next ==
  \/ \E e \in Executor : ExecuteDirective(e) \/ proceed(e)
  \/ \E c \in Cluster, low \in BOOLEAN : UpdateIdleStatus(c, low)
  \/ \E t \in Tenant, c \in Cluster : place(t, c)
  \/ tick
  \/ restart

Spec == Init /\ [][Next]_vars

\* The external calls take a context and return: a directive that was begun
\* goes on.  No directive has to be given.
FairSpec == Spec /\ \A e \in Executor : WF_vars(proceed(e))

-----------------------------------------------------------------------------
(* Properties. *)

InProgress(c) == \E e \in Executor : ~At(e, "return") /\ call[e].cluster = c

\* LifecycleState "tracks where a cluster is in the hibernate/wake cycle": while
\* no directive on the cluster is in progress, and unless an external call failed
\* or the manager restarted since its node pools were last scaled, active (or no
\* entry) means that the node pools serve, hibernating that they are at zero,
\* and the two transient states do not occur.
StateTellsPools ==
  \A c \in Cluster : InProgress(c) \/ c \in unsure \/
    (/\ states[c] \in {"", "active"} /\ pools[c] = "serving")
    \/ (states[c] = "hibernating" /\ pools[c] = "zero")

\* Sole-location guard: however directives, failures part-way and restarts follow
\* each other, no tenant is ever drained off its last cluster.
TenantsKeepALocation == \A t \in Tenant : hosts[t] # {}

\* The management cluster is never drained, nor are its pools taken down.
ManagementServes == \A c \in Cluster : c = mgmtCluster => pools[c] = "serving"

\* After a wake-up a cluster becomes a hibernation candidate again only when it
\* has been awake for a whole idle window: the idle time it collected before and
\* during its hibernation does not count ("so it doesn't immediately hibernate
\* again").  Between setState and the clearing of the tracker it still does.
IdleSinceAwake ==
  \A c \in Cluster :
    states[c] = "active" /\ IdleLongEnough(c)
    /\ ~(\E e \in Executor : At(e, "clearIdle") /\ call[e].cluster = c)
      => awakeFor[c] >= IdleWindow

\* A hibernated cluster stays wakeable: until a wake-up of it succeeded, and as
\* long as the manager does not restart, its state is never one that
\* executeWakeUp returns from without scaling up, except while a wake-up runs.
Wakeable ==
  \A c \in asleep : states[c] = "hibernating" \/ InProgress(c)

\* Draining and waking are transient: every directive that was begun takes its
\* cluster out of them, whichever external calls fail and however directives
\* overlap.
NeverStuck ==
  \A c \in Cluster : states[c] \in {"draining", "waking"} ~> states[c] \notin {"draining", "waking"}
=============================================================================
