------------------------------ MODULE AppTuner ------------------------------
(***************************************************************************)
(* internal/actuator/app_tuner.go: writes the tuning parameters of an      *)
(* action into the service's ConfigMap within the bounds its annotations   *)
(* give, and takes them back from the snapshot in its previous-state       *)
(* annotation.  Read and patch are two requests, between which the owner   *)
(* may edit the ConfigMap; a patch carries what differs from the read one. *)
(***************************************************************************)
EXTENDS Integers, Functions

CONSTANTS
  Key,           \* keys of the ConfigMap
  Setting,       \* the values proposed or edited of each key: integers and Text
  Lower, Upper,  \* the bounds of each key, Unbounded without an annotation
  RestartOnTuning,
  Text, Unbounded, Absent, NoSnapshot, NoJob

ASSUME TunerAssumption ==
  \A k \in Key : /\ Setting[k] \subseteq Int \cup {Text}
                 /\ Lower[k] \in Int \cup {Unbounded}
                 /\ Upper[k] \in Int \cup {Unbounded}

VARIABLES
  data,      \* the ConfigMap's data: Absent for a missing key
  previous,  \* the previous-state annotation
  tunerJob,  \* the Apply or Rollback under way
  restarted, \* the pods were restarted since the tuner last changed the data
  origin     \* history: the data before the last Apply that took effect,
             \* NoSnapshot if an edit fell between its read and its patch

tunerVars == <<data, previous, tunerJob, restarted, origin>>

TunerInit ==
  /\ data \in {d \in [Key -> {Absent} \cup UNION Range(Setting)] :
                 \A k \in Key : d[k] \in {Absent} \cup Setting[k]}
  /\ previous = NoSnapshot
  /\ tunerJob = NoJob
  /\ restarted = TRUE
  /\ origin = NoSnapshot

\* Text passes; the upper bound is applied last, so it wins over the lower one.
clampStringValue(v, k) ==
  IF v = Text THEN v
  ELSE LET low == IF Lower[k] # Unbounded /\ v < Lower[k] THEN Lower[k] ELSE v
       IN  IF Upper[k] # Unbounded /\ low > Upper[k] THEN Upper[k] ELSE low

\* The read of Apply; params is empty or the ConfigMap missing: nothing to do.
\* A dry run stops here.
StartTuning(params) ==
  /\ tunerJob = NoJob
  /\ DOMAIN params # {}
  /\ tunerJob' = [op |-> "apply", read |-> data,
                  new |-> [k \in Key |-> IF k \in DOMAIN params THEN clampStringValue(params[k], k)
                                         ELSE data[k]]]
  /\ UNCHANGED <<data, previous, restarted, origin>>

\* Mutant: the snapshot is restored key by key, those added stay.
StartTunerRollbackKeepsAdded ==
  /\ tunerJob = NoJob
  /\ previous # NoSnapshot
  /\ tunerJob' = [op |-> "rollback", read |-> data,
                  new |-> [k \in Key |-> IF previous[k] = Absent THEN data[k] ELSE previous[k]]]
  /\ UNCHANGED <<data, previous, restarted, origin>>

\* The read of Rollback; without a snapshot there is nothing to do.
StartTunerRollback ==
  /\ tunerJob = NoJob
  /\ previous # NoSnapshot
  /\ tunerJob' = [op |-> "rollback", read |-> data, new |-> previous]
  /\ UNCHANGED <<data, previous, restarted, origin>>

\* client.MergeFrom: only the keys that the job changes are sent.
Merged == [k \in Key |-> IF tunerJob.new[k] = tunerJob.read[k] THEN data[k] ELSE tunerJob.new[k]]

\* Apply stores the data it read and goes on to the restart.
PatchTuning ==
  /\ tunerJob # NoJob
  /\ tunerJob.op = "apply"
  /\ data' = Merged
  /\ previous' = tunerJob.read
  /\ origin' = IF data = tunerJob.read THEN data ELSE NoSnapshot
  /\ tunerJob' = [op |-> "restart"]
  /\ restarted' = FALSE

\* The Deployment carries the annotation, or the restart is left out.
RestartPods ==
  /\ tunerJob # NoJob
  /\ tunerJob.op = "restart"
  /\ restarted' = RestartOnTuning
  /\ tunerJob' = NoJob
  /\ UNCHANGED <<data, previous, origin>>

\* Rollback takes the annotation away and restarts nothing.
PatchTunerRollback ==
  /\ tunerJob # NoJob
  /\ tunerJob.op = "rollback"
  /\ data' = Merged
  /\ previous' = NoSnapshot
  /\ restarted' = FALSE
  /\ tunerJob' = NoJob
  /\ UNCHANGED origin

\* A patch fails, or a dry run ends: nothing is written.  A failed restart
\* leaves the patched ConfigMap behind and is reported as "not applied".
TunerJobFails ==
  /\ tunerJob # NoJob
  /\ tunerJob' = NoJob
  /\ UNCHANGED <<data, previous, restarted, origin>>

\* The owner of the ConfigMap changes a value.
EditConfigMap(k, v) ==
  /\ data[k] # v
  /\ data' = [data EXCEPT ![k] = v]
  /\ UNCHANGED <<previous, tunerJob, restarted, origin>>

TunerNext ==
  \/ \E ks \in SUBSET Key : \E params \in {f \in [ks -> UNION Range(Setting)] : \A k \in ks : f[k] \in Setting[k]} :
       StartTuning(params)
  \/ StartTunerRollback
  \/ PatchTuning
  \/ RestartPods
  \/ PatchTunerRollback
  \/ TunerJobFails
  \/ \E k \in Key : \E v \in {Absent} \cup Setting[k] : EditConfigMap(k, v)

\* A rollback brings back the data from before the last Apply that patched the
\* ConfigMap, keys it had added included, if no edit fell between a read and its
\* patch.  An Apply keeps edits made meanwhile to keys it does not change, and
\* what it writes is within the bounds (Apply, Rollback, clampStringValue).
TunerRestores ==
  /\ PatchTunerRollback /\ origin # NoSnapshot /\ data = tunerJob.read => data' = origin
  /\ PatchTuning => \A k \in Key : data'[k] # data[k] =>
       /\ tunerJob.new[k] # tunerJob.read[k]
       /\ data'[k] # Text =>
            /\ Upper[k] # Unbounded => data'[k] <= Upper[k]
            /\ Lower[k] # Unbounded /\ (Upper[k] = Unbounded \/ Lower[k] <= Upper[k])
                 => data'[k] >= Lower[k]
=============================================================================
