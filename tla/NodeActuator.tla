---------------------------- MODULE NodeActuator -----------------------------
(***************************************************************************)
(* internal/actuator/node_actuator.go: turns the spot ratio of an action   *)
(* into the requirements of the Karpenter NodePool, or into a hint on the  *)
(* namespace where there is no NodePool, and rolls the requirements back.  *)
(*                                                                         *)
(* NodePools are cluster-scoped and findNodePool ignores the namespace, so *)
(* the actions of all services meet in one pool.  Each call reads the pool *)
(* and sends a merge patch with the fields it changed; the requirements    *)
(* are one field.  They are [zone, instance, capacity]: a requirement that *)
(* the actuator keeps, one that it drops, and the capacity type.           *)
(***************************************************************************)
EXTENDS Integers

CONSTANTS
  Service,
  Ratio,               \* spot ratios in percent
  OwnBudget,           \* the disruption budget that the owner gave the pool
  NoPool, NoReqs, NoCall, NoHint

VARIABLES
  pool,      \* [reqs, disruption, previous]: previous is the annotation; NoPool
             \* if the list of pools has none to use
  hint,      \* the namespace annotation
  nodeJob,   \* per service: the call under way, with the pool it read
  before,    \* history: the requirements that the last Apply replaced, NoReqs
             \* if the pool had changed between its read and its patch
  actor      \* history: the service of that Apply

nodeVars == <<pool, hint, nodeJob, before, actor>>

NodeInit ==
  /\ pool \in {NoPool,
               [reqs |-> [zone |-> TRUE, instance |-> TRUE, capacity |-> "any"],
                disruption |-> OwnBudget, previous |-> NoReqs]}
  /\ hint = NoHint
  /\ nodeJob = [s \in Service |-> NoCall]
  /\ before = NoReqs
  /\ actor = NoCall

\* The first pool of the list, or the one that NodePoolName names.
findNodePool == pool # NoPool

\* On-demand nodes stay allowed even at a ratio of 100 %.
buildRequirements(ratio, existing) ==
  [zone |-> existing.zone, instance |-> FALSE,
   capacity |-> IF ratio > 0 THEN "mixed" ELSE "on-demand"]

\* A merge patch has the fields that differ from what was read.  Whether two
\* lists of the same requirements differ depends on their order, which is left out.
Patched(new, read, now) == IF new = read THEN {new, now} ELSE {new}

\* The read of Apply.
StartNodeApply(s, ratio) ==
  /\ findNodePool
  /\ nodeJob[s] = NoCall
  /\ nodeJob' = [nodeJob EXCEPT ![s] = [op |-> "apply", ratio |-> ratio, read |-> pool]]
  /\ UNCHANGED <<pool, hint, before, actor>>

\* The disruption budget is written at a ratio above 0 and never taken back.
applyNodePool(s) ==
  /\ nodeJob[s] # NoCall
  /\ nodeJob[s].op = "apply"
  /\ LET old   == nodeJob[s].read
         ratio == nodeJob[s].ratio
     IN  /\ \E reqs \in Patched(buildRequirements(ratio, old.reqs), old.reqs, pool.reqs),
              prev \in Patched(old.reqs, old.previous, pool.previous) :
              pool' = [reqs |-> reqs, previous |-> prev,
                       disruption |-> IF ratio = 0 \/ old.disruption = ratio THEN pool.disruption
                                      ELSE ratio]
         /\ before' = IF pool = old THEN pool.reqs ELSE NoReqs
  /\ actor' = s
  /\ nodeJob' = [nodeJob EXCEPT ![s] = NoCall]
  /\ UNCHANGED hint

\* No dry run, and the namespace is there: without a NodePool the ratio is noted on the namespace.
applyHint(s, ratio) ==
  /\ ~findNodePool
  /\ hint' = ratio
  /\ UNCHANGED <<pool, nodeJob, before, actor>>

\* The read of Rollback: whichever service acted last.
StartNodeRollback(s) ==
  /\ findNodePool
  /\ nodeJob[s] = NoCall
  /\ pool.previous # NoReqs
  /\ nodeJob' = [nodeJob EXCEPT ![s] = [op |-> "rollback", ratio |-> 0, read |-> pool]]
  /\ UNCHANGED <<pool, hint, before, actor>>

\* Mutant: the requirements that the actuator does not write stay as they are.
PatchNodeRollbackCapacity(s) ==
  /\ nodeJob[s] # NoCall
  /\ nodeJob[s].op = "rollback"
  /\ pool' = [pool EXCEPT !.reqs.capacity = nodeJob[s].read.previous.capacity]
  /\ nodeJob' = [nodeJob EXCEPT ![s] = NoCall]
  /\ UNCHANGED <<hint, before, actor>>

\* The annotation stays, and so does the disruption budget.
PatchNodeRollback(s) ==
  /\ nodeJob[s] # NoCall
  /\ nodeJob[s].op = "rollback"
  /\ LET old == nodeJob[s].read
     IN  \E reqs \in Patched(old.previous, old.reqs, pool.reqs) : pool' = [pool EXCEPT !.reqs = reqs]
  /\ nodeJob' = [nodeJob EXCEPT ![s] = NoCall]
  /\ UNCHANGED <<hint, before, actor>>

\* A dry run ends, or the patch fails.
NodeCallFails(s) ==
  /\ nodeJob[s] # NoCall
  /\ nodeJob' = [nodeJob EXCEPT ![s] = NoCall]
  /\ UNCHANGED <<pool, hint, before, actor>>

\* The owner adds or removes the requirement that is theirs.
EditNodePool ==
  /\ pool # NoPool
  /\ pool' = [pool EXCEPT !.reqs.zone = ~@]
  /\ UNCHANGED <<hint, nodeJob, before, actor>>

NodeNext ==
  \/ \E s \in Service : \/ \E r \in Ratio : StartNodeApply(s, r) \/ applyHint(s, r)
                        \/ applyNodePool(s)
                        \/ StartNodeRollback(s)
                        \/ PatchNodeRollback(s)
                        \/ NodeCallFails(s)
  \/ EditNodePool

\* The rollback of the service that made the last Apply brings back the
\* requirements it replaced, the instance types that buildRequirements drops
\* included, if the pool did not change between a read and its patch; and an
\* Apply on a pool that did not change keeps the owner's requirement
\* (applyNodePool, Rollback, buildRequirements).  Exception: with two services,
\* the rollback of one undoes what the other did last, not its own action as
\* the comment of Actuator.Rollback says.
NodeRestores ==
  \A s \in Service :
    nodeJob[s] # NoCall /\ nodeJob'[s] = NoCall /\ pool' # pool /\ pool = nodeJob[s].read =>
      IF nodeJob[s].op = "rollback" THEN actor = s /\ before # NoReqs => pool'.reqs = before
      ELSE pool'.reqs.zone = pool.reqs.zone
=============================================================================
