-------------------------- MODULE BackgroundProofs ---------------------------
(***************************************************************************)
(* Proofs about the parts that work beside the optimizer loop, for any     *)
(* number of tenants, callers, keys, services and parameters and any       *)
(* durations and bounds.                                                   *)
(***************************************************************************)
EXTENDS Background, WorkerProofs, FairShareProofs

-----------------------------------------------------------------------------
(* The cache. *)

LEMMA MaxZero ==
  ASSUME NEW x \in Int
  PROVE  Max({0, x}) = IF x <= 0 THEN 0 ELSE x
<1>1. \E z \in {0, x} : \A t \in {0, x} : z >= t
  OBVIOUS
<1>2. Max({0, x}) \in {0, x} /\ Max({0, x}) >= 0 /\ Max({0, x}) >= x
  BY <1>1, Zenon DEF Max
<1>3. QED  BY <1>2

LEMMA AgeingNat ==
  ASSUME NEW x \in 0 .. Oldest
  PROVE  Ageing(x) = IF x < Oldest THEN x + 1 ELSE Oldest
<1>1. Oldest \in Nat /\ x \in Nat /\ x # NoAnswer
  BY CacheAssumption DEF Oldest
<1>2. Min({x + 1, Oldest}) = IF x + 1 <= Oldest THEN x + 1 ELSE Oldest
  BY <1>1, MinPair, SMTT(30)
<1>3. QED  BY <1>1, <1>2, SMTT(30) DEF Ageing

\* A request in flight is no older than the timeout, nor is its answer.
RequestInv ==
  /\ request = [a \in Asker |-> request[a]]
  /\ \A a \in Asker : request[a] # Idle =>
       /\ request[a].sent \in 0 .. Timeout
       /\ request[a].age # NoAnswer => request[a].age \in 0 .. request[a].sent

\* An entry that still counts has aged with the time it has left.
EntryInv ==
  /\ youngest \in 0 .. Oldest
  /\ cached # NoAnswer => cached.age \in 0 .. Oldest /\ cached.left \in 0 .. TTL
  /\ Hit => cached.age + cached.left <= TTL + Timeout

\* Unless the last request crossed another one, it is alone, there is no entry to
\* use while it is under way, and its answer is younger than all given before.
AloneInv ==
  ~crossed => /\ \A a, b \in Asker : request[a] # Idle /\ request[b] # Idle => a = b
              /\ \A a \in Asker : request[a] # Idle =>
                   ~Hit /\ (request[a].age # NoAnswer => request[a].age <= youngest)
              /\ Hit => cached.age <= youngest

CacheInv == RequestInv /\ EntryInv /\ AloneInv

LEMMA CacheStart == CacheInit => CacheInv
  BY CacheAssumption DEF CacheInit, CacheInv, RequestInv, EntryInv, AloneInv, Hit, Oldest

LEMMA UseCachedKeeps == CacheInv /\ UseCached => CacheInv'
<1> SUFFICES ASSUME CacheInv, UseCached PROVE CacheInv'
  BY Zenon
<1>1. youngest' = (IF youngest <= cached.age THEN youngest ELSE cached.age)
  BY CacheAssumption, MinPair, SMTT(30) DEF UseCached, CacheInv, EntryInv, Hit, Oldest
<1>2. UNCHANGED <<cached, request, crossed>> /\ Hit /\ Hit'
  BY Zenon DEF UseCached, Hit
<1>3. RequestInv'
  BY <1>2, Zenon DEF CacheInv, RequestInv
<1>4. EntryInv'
  BY <1>1, <1>2, CacheAssumption, ZenonT(30)  DEF CacheInv, EntryInv, Hit, Oldest
<1>5. AloneInv'
  BY <1>1, <1>2, CacheAssumption, SMTT(30) DEF CacheInv, EntryInv, AloneInv, Hit, Oldest
<1>6. QED  BY <1>3, <1>4, <1>5, Zenon DEF CacheInv

LEMMA RequestKeeps ==
  ASSUME NEW a \in Asker, CacheInv, Ask(a) \/ Answer(a) \/ QueryFails(a)
  PROVE  CacheInv'
<1>1. UNCHANGED <<cached, youngest>> /\ Hit' = Hit
  BY Zenon DEF Ask, Answer, QueryFails, Hit
<1>2. EntryInv'
  BY <1>1, Zenon DEF CacheInv, EntryInv
<1>3. CASE Ask(a)
  <2>1. ~Hit /\ crossed' = (\E b \in Asker : request[b] # Idle)
        /\ request' = [request EXCEPT ![a] = [sent |-> 0, age |-> NoAnswer]]
    BY <1>3, Zenon DEF Ask
  <2>2. RequestInv'
    BY <2>1, CacheAssumption, SMTT(30) DEF CacheInv, RequestInv
  <2>3. AloneInv'
    BY <1>1, <2>1, ZenonT(30)  DEF CacheInv, RequestInv, AloneInv
  <2>4. QED  BY <1>2, <2>2, <2>3, ZenonT(30)  DEF CacheInv
<1>4. CASE Answer(a)
  <2>1. /\ request[a] # Idle /\ UNCHANGED crossed
        /\ request' = [request EXCEPT ![a] = [request[a] EXCEPT !.age = 0]]
    BY <1>4, Zenon DEF Answer
  <2>2. RequestInv'
    BY <2>1, CacheAssumption, SMTT(30) DEF CacheInv, RequestInv
  <2>3. AloneInv'
    BY <1>1, <2>1, CacheAssumption, SMTT(30) DEF CacheInv, RequestInv, EntryInv, AloneInv, Oldest
  <2>4. QED  BY <1>2, <2>2, <2>3, Zenon DEF CacheInv
<1>5. CASE QueryFails(a)
  <2>1. request' = [request EXCEPT ![a] = Idle] /\ UNCHANGED crossed
    BY <1>5, Zenon DEF QueryFails
  <2>2. RequestInv'
    BY <2>1, Zenon DEF CacheInv, RequestInv
  <2>3. AloneInv'
    BY <1>1, <2>1, ZenonT(30) DEF CacheInv, RequestInv, AloneInv
  <2>4. QED  BY <1>2, <2>2, <2>3, Zenon DEF CacheInv
<1>6. QED
  BY <1>3, <1>4, <1>5, ZenonT(30)

LEMMA StoreKeeps ==
  ASSUME NEW a \in Asker, CacheInv, Store(a)
  PROVE  CacheInv'
<1> DEFINE age == request[a].age
<1>1. /\ request[a] # Idle /\ age # NoAnswer /\ UNCHANGED crossed
      /\ request' = [request EXCEPT ![a] = Idle]
      /\ cached' = [age |-> age, left |-> TTL]
  BY Zenon DEF Store
<1>2. age \in 0 .. Timeout
  BY <1>1, CacheAssumption, SMTT(30) DEF CacheInv, RequestInv
<1>3. youngest' = (IF youngest <= age THEN youngest ELSE age)
  BY <1>2, CacheAssumption, MinPair, SMTT(30) DEF Store, CacheInv, EntryInv, Oldest
<1>4. RequestInv'
  BY <1>1, ZenonT(30)  DEF CacheInv, RequestInv
<1>5. EntryInv'
  BY <1>1, <1>2, <1>3, CacheAssumption, SMTT(30) DEF CacheInv, EntryInv, Hit, Oldest
<1>6. AloneInv'
  <2> SUFFICES ASSUME ~crossed PROVE AloneInv'
    BY <1>1, Zenon DEF AloneInv
  <2>1. age <= youngest /\ \A b \in Asker : request'[b] = Idle
    BY <1>1, ZenonT(30)  DEF CacheInv, RequestInv, AloneInv
  <2>2. youngest' = age
    BY <1>2, <1>3, <2>1, CacheAssumption, SMTT(30) DEF CacheInv, EntryInv, Oldest
  <2>3. QED  BY <1>1, <1>2, <2>1, <2>2, CacheAssumption, SMTT(30) DEF AloneInv, Hit
<1>7. QED
  BY <1>4, <1>5, <1>6, ZenonT(30) DEF CacheInv

LEMMA TickKeeps ==
  ASSUME CacheInv, CacheTick
  PROVE  CacheInv'
<1>0. Oldest \in Nat /\ Timeout < Oldest /\ TTL \in Nat /\ Timeout \in Nat
  BY CacheAssumption DEF Oldest
<1>1. youngest' = (IF youngest < Oldest THEN youngest + 1 ELSE Oldest) /\ crossed' = crossed
  BY AgeingNat, Zenon DEF CacheTick, CacheInv, EntryInv
<1>2. \A a \in Asker : /\ request[a] = Idle => request'[a] = Idle
                       /\ request[a] # Idle =>
                            /\ request[a].sent < Timeout
                            /\ request'[a].sent = request[a].sent + 1
                            /\ request'[a].age = Ageing(request[a].age)
  BY Zenon DEF CacheTick
<1>3. ASSUME NEW a \in Asker, request[a] # Idle
      PROVE  \/ request[a].age = NoAnswer /\ request'[a].age = NoAnswer
             \/ request[a].age \in 0 .. request[a].sent /\ request'[a].age = request[a].age + 1
  <2>1. CASE request[a].age = NoAnswer
    BY <1>2, <1>3, <2>1, ZenonT(30)  DEF Ageing
  <2>2. CASE request[a].age # NoAnswer
    <3>1. request[a].age \in 0 .. request[a].sent /\ request[a].sent \in 0 .. Timeout
      BY <1>3, <2>2, ZenonT(30)  DEF CacheInv, RequestInv
    <3>2. request[a].age \in 0 .. Oldest /\ request[a].age < Oldest
      BY <1>0, <3>1, SMTT(30)
    <3>3. QED  BY <1>2, <1>3, <3>1, <3>2, AgeingNat, ZenonT(30)
  <2>3. QED  BY <2>1, <2>2, ZenonT(30)
<1>4. RequestInv'
  <2>1. request' = [a \in Asker |-> request'[a]]
    BY Zenon DEF CacheTick
  <2>2. ASSUME NEW a \in Asker, request'[a] # Idle
        PROVE  /\ request'[a].sent \in 0 .. Timeout
               /\ request'[a].age # NoAnswer => request'[a].age \in 0 .. request'[a].sent
    <3>1. request[a] # Idle /\ request[a].sent \in 0 .. Timeout /\ request[a].sent < Timeout
          /\ request'[a].sent = request[a].sent + 1
      BY <1>2, <2>2, ZenonT(30)  DEF CacheInv, RequestInv
    <3>2. QED  BY <1>0, <1>3, <3>1, SMTT(30)
  <2>3. QED  BY <2>1, <2>2, ZenonT(30)  DEF RequestInv
<1>5. cached # NoAnswer =>
        /\ cached'.age = IF cached.age < Oldest THEN cached.age + 1 ELSE Oldest
        /\ cached'.left = IF cached.left <= 1 THEN 0 ELSE cached.left - 1
  <2> SUFFICES ASSUME cached # NoAnswer
               PROVE  /\ cached'.age = IF cached.age < Oldest THEN cached.age + 1 ELSE Oldest
                      /\ cached'.left = IF cached.left <= 1 THEN 0 ELSE cached.left - 1
    BY Zenon
  <2>1. cached' = [age |-> Ageing(cached.age), left |-> Max({0, cached.left - 1})]
    BY Zenon DEF CacheTick
  <2>2. cached.age \in 0 .. Oldest /\ cached.left \in Nat /\ cached.left - 1 \in Int
    BY <1>0 DEF CacheInv, EntryInv
  <2>3. Max({0, cached.left - 1}) = IF cached.left - 1 <= 0 THEN 0 ELSE cached.left - 1
    BY <2>2, MaxZero, ZenonT(30)
  <2>4. QED  BY <2>1, <2>2, <2>3, AgeingNat, SMTT(30)
<1>6. cached = NoAnswer => cached' = NoAnswer
  BY Zenon DEF CacheTick
<1>7. Hit' => Hit /\ cached'.age <= cached.age + 1 /\ cached'.left = cached.left - 1
  BY <1>0, <1>5, <1>6, SMTT(30) DEF CacheInv, EntryInv, Hit
<1>8. EntryInv'
  BY <1>0, <1>1, <1>5, <1>6, <1>7, SMTT(30) DEF CacheInv, EntryInv, Hit
<1>9. AloneInv'
  <2> SUFFICES ASSUME ~crossed PROVE AloneInv'
    BY <1>1, Zenon DEF AloneInv
  <2>1. \A a \in Asker : request'[a] # Idle => request[a] # Idle
    BY <1>2, Zenon
  <2>2. ASSUME NEW a \in Asker, request'[a] # Idle, request'[a].age # NoAnswer
        PROVE  request'[a].age <= youngest'
    <3>1. request[a] # Idle /\ request[a].age \in 0 .. Timeout /\ request'[a].age = request[a].age + 1
      BY <1>0, <1>3, <2>1, <2>2, SMTT(30) DEF CacheInv, RequestInv
    <3>2. request[a].age <= youngest
      BY <3>1, CacheAssumption, SMTT(30) DEF CacheInv, AloneInv
    <3>3. QED  BY <1>0, <1>1, <3>1, <3>2, SMTT(30) DEF CacheInv, EntryInv
  <2>3. Hit' => cached'.age <= youngest'
    BY <1>0, <1>1, <1>5, <1>7, SMTT(30) DEF CacheInv, EntryInv, AloneInv, Hit
  <2>4. QED  BY <1>7, <2>1, <2>2, <2>3, ZenonT(30)  DEF CacheInv, AloneInv
<1>10. QED
  BY <1>4, <1>8, <1>9, Zenon DEF CacheInv

(* What the cache hands out is at most a time-to-live and a timeout old, and *)
(* no older than what was handed out before unless requests crossed, for any *)
(* number of callers of Query.                                               *)
THEOREM CacheFreshHolds == Spec => []CacheFresh
<1>1. Init => CacheInv
  BY CacheStart, Zenon DEF Init
<1>2. CacheInv /\ [Next]_bgVars => CacheInv'
  <2> SUFFICES ASSUME CacheInv, [Next]_bgVars PROVE CacheInv'
    BY Zenon
  <2>1. CASE UNCHANGED cacheVars
    BY <2>1, Zenon DEF cacheVars, CacheInv, RequestInv, EntryInv, AloneInv, Hit
  <2>2. CASE CacheNext
    BY <2>2, UseCachedKeeps, RequestKeeps, StoreKeeps, TickKeeps, ZenonT(30)  DEF CacheNext
  <2>3. QED
    BY <2>1, <2>2, ZenonT(30) DEF Next, bgVars, Manages, Detects, Shares, Tunes, Configures, Forecasts, Caches, Provisions
<1>3. CacheInv => CacheFresh
  BY ZenonT(30)  DEF CacheInv, EntryInv, AloneInv, CacheFresh
<1>4. QED
  BY <1>1, <1>2, <1>3, PTL DEF Spec
-----------------------------------------------------------------------------
(* The ConfigMap tuner. *)

\* A value that Apply may write: within the bounds of its key.
InBounds(v, k) ==
  v # Text =>
    /\ Upper[k] # Unbounded => v <= Upper[k]
    /\ Lower[k] # Unbounded /\ (Upper[k] = Unbounded \/ Lower[k] <= Upper[k]) => v >= Lower[k]

LEMMA ClampWithin ==
  ASSUME NEW k \in Key, NEW v \in Setting[k]
  PROVE  InBounds(clampStringValue(v, k), k)
  BY TunerAssumption DEF InBounds, clampStringValue

\* The snapshot, while there is one, is what the last Apply replaced; a rollback
\* under way writes it; an Apply under way changes values to ones within bounds.
TunerInv ==
  /\ data = [k \in Key |-> data[k]]
  /\ origin # NoSnapshot => /\ origin = [k \in Key |-> origin[k]]
                            /\ previous \in {origin, NoSnapshot}
  /\ tunerJob # NoJob =>
       /\ tunerJob.op = "rollback" /\ origin # NoSnapshot => tunerJob.new = origin
       /\ tunerJob.op = "apply" => \A k \in Key : \/ tunerJob.new[k] = tunerJob.read[k]
                                                 \/ InBounds(tunerJob.new[k], k)

LEMMA TunerStart == TunerInit => TunerInv
  BY Zenon DEF TunerInit, TunerInv

LEMMA TunerStep == TunerInv /\ TunerNext => TunerInv'
<1> SUFFICES ASSUME TunerInv, TunerNext PROVE TunerInv'
  BY Zenon
<1>1. ASSUME NEW params, \A k \in DOMAIN params : k \in Key /\ params[k] \in Setting[k], StartTuning(params)
      PROVE  TunerInv'
  <2>1. UNCHANGED <<data, previous, origin>> /\ tunerJob'.op = "apply" /\ tunerJob'.read = data
    BY <1>1, Zenon DEF StartTuning
  <2>2. \A k \in Key : tunerJob'.new[k] = IF k \in DOMAIN params THEN clampStringValue(params[k], k) ELSE data[k]
    BY <1>1, Zenon DEF StartTuning
  <2>3. \A k \in Key : tunerJob'.new[k] = tunerJob'.read[k] \/ InBounds(tunerJob'.new[k], k)
    BY <1>1, <2>1, <2>2, ClampWithin, ZenonT(30)
  <2>4. QED  BY <2>1, <2>3, ZenonT(30)  DEF TunerInv
<1>2. CASE StartTunerRollback
  BY <1>2, Zenon DEF TunerInv, StartTunerRollback
<1>3. CASE PatchTuning
  BY <1>3, Zenon DEF TunerInv, PatchTuning, Merged
<1>4. CASE RestartPods \/ TunerJobFails
  BY <1>4, Zenon DEF TunerInv, RestartPods, TunerJobFails
<1>5. CASE PatchTunerRollback
  BY <1>5, Zenon DEF TunerInv, PatchTunerRollback, Merged
<1>6. ASSUME NEW k \in Key, NEW v, EditConfigMap(k, v) PROVE TunerInv'
  BY <1>6, Zenon DEF TunerInv, EditConfigMap
<1>7. QED
  BY <1>1, <1>2, <1>3, <1>4, <1>5, <1>6, ZenonT(30)  DEF TunerNext

LEMMA TunerUndoes == TunerInv => TunerRestores
<1> SUFFICES ASSUME TunerInv PROVE TunerRestores
  BY Zenon
<1>1. PatchTunerRollback /\ origin # NoSnapshot /\ data = tunerJob.read => data' = origin
  BY Zenon DEF TunerInv, PatchTunerRollback, Merged
<1>2. ASSUME PatchTuning, NEW k \in Key, data'[k] # data[k]
      PROVE  tunerJob.new[k] # tunerJob.read[k] /\ InBounds(data'[k], k)
  BY <1>2, Zenon DEF TunerInv, PatchTuning, Merged
<1>3. QED
  BY <1>1, <1>2, ZenonT(30)  DEF TunerRestores, InBounds

-----------------------------------------------------------------------------
(* The NodePool actuator. *)

Reqs == [zone : BOOLEAN, instance : BOOLEAN, capacity : {"any", "mixed", "on-demand"}]
Pools == [reqs : Reqs, disruption : Ratio \cup {OwnBudget}, previous : Reqs \cup {NoReqs}]

\* The annotation is what the last Apply replaced.
NodeInv ==
  /\ nodeJob = [s \in Service |-> nodeJob[s]]
  /\ pool = NoPool \/ pool \in Pools
  /\ \A s \in Service : nodeJob[s] # NoCall =>
       /\ pool \in Pools /\ nodeJob[s].read \in Pools
       /\ nodeJob[s].op = "apply" => nodeJob[s].ratio \in Ratio
       /\ nodeJob[s].op = "rollback" => nodeJob[s].read.previous \in Reqs
  /\ before # NoReqs => pool \in Pools /\ pool.previous = before

LEMMA NodeStart == NodeInit => NodeInv
<1> SUFFICES ASSUME NodeInit PROVE NodeInv
  BY Zenon
<1> DEFINE own == [zone |-> TRUE, instance |-> TRUE, capacity |-> "any"]
<1>1. own \in Reqs
  BY Zenon DEF Reqs
<1> HIDE DEF own
<1>2. [reqs |-> own, disruption |-> OwnBudget, previous |-> NoReqs] \in Pools
  BY <1>1, Zenon DEF Pools
<1>3. pool = NoPool \/ pool = [reqs |-> own, disruption |-> OwnBudget, previous |-> NoReqs]
  BY Zenon DEF NodeInit, own
<1>4. QED
  BY <1>2, <1>3, ZenonT(30)  DEF NodeInit, NodeInv

LEMMA NodeStep == NodeInv /\ NodeNext => NodeInv'
<1> SUFFICES ASSUME NodeInv, NodeNext PROVE NodeInv'
  BY Zenon
<1>1. ASSUME NEW s \in Service, NEW r \in Ratio, StartNodeApply(s, r) PROVE NodeInv'
  <2>1. pool \in Pools /\ UNCHANGED <<pool, before>>
    BY <1>1, Zenon DEF NodeInv, StartNodeApply, findNodePool
  <2>2. nodeJob' = [nodeJob EXCEPT ![s] = [op |-> "apply", ratio |-> r, read |-> pool]]
    BY <1>1, ZenonT(30)  DEF StartNodeApply
  <2>3. QED  BY <2>1, <2>2, ZenonT(30)  DEF NodeInv
<1>2. ASSUME NEW s \in Service, StartNodeRollback(s) PROVE NodeInv'
  <2>1. pool \in Pools /\ pool.previous \in Reqs /\ UNCHANGED <<pool, before>>
    BY <1>2, Zenon DEF NodeInv, StartNodeRollback, findNodePool, Pools
  <2>2. nodeJob' = [nodeJob EXCEPT ![s] = [op |-> "rollback", ratio |-> 0, read |-> pool]]
    BY <1>2, Zenon DEF StartNodeRollback
  <2>3. QED  BY <2>1, <2>2, ZenonT(30)  DEF NodeInv
<1>3. ASSUME NEW s \in Service, NEW r \in Ratio, applyHint(s, r) PROVE NodeInv'
  BY <1>3, Zenon DEF NodeInv, applyHint
<1>4. ASSUME NEW s \in Service, applyNodePool(s) PROVE NodeInv'
  <2> DEFINE old   == nodeJob[s].read
             ratio == nodeJob[s].ratio
  <2>1. old \in Pools /\ pool \in Pools /\ ratio \in Ratio
    BY <1>4, Zenon DEF NodeInv, applyNodePool
  <2>2. PICK reqs \in Patched(buildRequirements(ratio, old.reqs), old.reqs, pool.reqs),
             prev \in Patched(old.reqs, old.previous, pool.previous) :
               pool' = [reqs |-> reqs, previous |-> prev,
                        disruption |-> IF ratio = 0 \/ old.disruption = ratio THEN pool.disruption ELSE ratio]
    BY <1>4, Zenon DEF applyNodePool
  <2>3. before' = (IF pool = old THEN pool.reqs ELSE NoReqs) /\ nodeJob' = [nodeJob EXCEPT ![s] = NoCall]
    BY <1>4, Zenon DEF applyNodePool
  <2>4. reqs \in Reqs
    <3>1. old.reqs \in Reqs /\ pool.reqs \in Reqs
      BY <2>1, Zenon DEF Pools
    <3>2. buildRequirements(ratio, old.reqs) \in Reqs
      BY <3>1, Zenon DEF buildRequirements, Reqs
    <3>3. QED  BY <2>2, <3>1, <3>2, ZenonT(30)  DEF Patched
  <2>5. prev \in Reqs \cup {NoReqs}
    BY <2>1, <2>2, ZenonT(30)  DEF Patched, Pools
  <2>6. pool' \in Pools /\ pool'.previous = prev
    BY <2>1, <2>2, <2>4, <2>5, ZenonT(30)  DEF Pools
  <2>7. pool = old => prev = pool.reqs
    BY <2>2, Zenon DEF Patched
  <2>8. QED  BY <2>3, <2>6, <2>7, ZenonT(30)  DEF NodeInv
<1>5. ASSUME NEW s \in Service, PatchNodeRollback(s) PROVE NodeInv'
  <2>1. pool \in Pools /\ nodeJob[s].read \in Pools /\ nodeJob[s].read.previous \in Reqs
    BY <1>5, ZenonT(30) DEF NodeInv, PatchNodeRollback
  <2>2. PICK reqs \in Patched(nodeJob[s].read.previous, nodeJob[s].read.reqs, pool.reqs) :
               pool' = [pool EXCEPT !.reqs = reqs]
    BY <1>5, ZenonT(30) DEF PatchNodeRollback
  <2>3. reqs \in Reqs
    BY <2>1, <2>2, ZenonT(30)  DEF Patched, Pools
  <2>4. pool' \in Pools /\ pool'.previous = pool.previous
    BY <2>1, <2>2, <2>3, ZenonT(30)  DEF Pools
  <2>5. before' = before /\ nodeJob' = [nodeJob EXCEPT ![s] = NoCall]
    BY <1>5, Zenon DEF PatchNodeRollback
  <2>6. QED  BY <2>4, <2>5, ZenonT(30) DEF NodeInv
<1>6. ASSUME NEW s \in Service, NodeCallFails(s) PROVE NodeInv'
  BY <1>6, Zenon DEF NodeInv, NodeCallFails
<1>7. CASE EditNodePool
  <2>1. pool \in Pools /\ UNCHANGED <<nodeJob, before>> /\ pool' = [pool EXCEPT !.reqs = [pool.reqs EXCEPT !.zone = ~@]]
    BY <1>7, ZenonT(30) DEF NodeInv, EditNodePool
  <2>2. pool' \in Pools /\ pool'.previous = pool.previous
    BY <2>1, Zenon DEF Pools, Reqs
  <2>3. QED  BY <2>1, <2>2, ZenonT(30)  DEF NodeInv
<1>8. QED
  BY <1>1, <1>2, <1>3, <1>4, <1>5, <1>6, <1>7, ZenonT(30)  DEF NodeNext

LEMMA NodeUndoes == NodeInv /\ NodeNext => NodeRestores
<1> SUFFICES ASSUME NodeInv, NodeNext, NEW s \in Service,
                    nodeJob[s] # NoCall, nodeJob'[s] = NoCall, pool' # pool, pool = nodeJob[s].read
             PROVE  IF nodeJob[s].op = "rollback" THEN actor = s /\ before # NoReqs => pool'.reqs = before
                    ELSE pool'.reqs.zone = pool.reqs.zone
  BY Zenon DEF NodeRestores
<1>1. PICK t \in Service : applyNodePool(t) \/ PatchNodeRollback(t)
  BY Zenon DEF NodeNext, StartNodeApply, StartNodeRollback, applyHint, NodeCallFails, EditNodePool
<1>2. t = s
  BY <1>1, Zenon DEF NodeInv, applyNodePool, PatchNodeRollback
<1>3. CASE applyNodePool(t)
  <2>0. applyNodePool(s)
    BY <1>2, <1>3, ZenonT(30)
  <2> DEFINE old   == nodeJob[s].read
             ratio == nodeJob[s].ratio
  <2>1. PICK reqs \in Patched(buildRequirements(ratio, old.reqs), old.reqs, pool.reqs),
             prev \in Patched(old.reqs, old.previous, pool.previous) :
               pool' = [reqs |-> reqs, previous |-> prev,
                        disruption |-> IF ratio = 0 \/ old.disruption = ratio THEN pool.disruption ELSE ratio]
    BY <2>0, Zenon DEF applyNodePool
  <2>2. pool'.reqs = buildRequirements(nodeJob[s].ratio, pool.reqs)
    BY <2>1, Zenon DEF Patched
  <2>3. nodeJob[s].op = "apply"
    BY <2>0, ZenonT(30)  DEF applyNodePool
  <2>4. pool'.reqs.zone = pool.reqs.zone
    BY <2>2 DEF buildRequirements
  <2>5. QED  BY <2>3, <2>4, ZenonT(30)
<1>4. CASE PatchNodeRollback(t)
  <2>1. PICK reqs \in Patched(pool.previous, pool.reqs, pool.reqs) : pool' = [pool EXCEPT !.reqs = reqs]
    BY <1>2, <1>4, ZenonT(30)  DEF PatchNodeRollback
  <2>2. reqs = pool.previous /\ pool \in Pools
    BY <2>1, Zenon DEF Patched, NodeInv
  <2>3. pool'.reqs = pool.previous
    BY <2>1, <2>2, Zenon DEF Pools
  <2>4. QED  BY <1>2, <1>4, <2>3, ZenonT(30)  DEF NodeInv, PatchNodeRollback
<1>5. QED
  BY <1>1, <1>3, <1>4, ZenonT(30)

-----------------------------------------------------------------------------
(* Rollback of the ConfigMap tuner, and that of the NodePool actuator for    *)
(* the service that acted last, brings back what was there before the last   *)
(* Apply; the tuner writes within bounds, and the NodePool keeps the owner's *)
(* requirement; for any keys, values, bounds and services.                   *)
THEOREM PatchesUndoneHolds == Spec => PatchesUndone
<1>1. Init => TunerInv /\ NodeInv
  BY TunerStart, NodeStart, ZenonT(30)  DEF Init
<1>2. TunerInv /\ [Next]_bgVars => TunerInv'
  <2>1. TunerInv /\ UNCHANGED tunerVars => TunerInv'
    BY Zenon DEF TunerInv, tunerVars
  <2>2. QED
    BY <2>1, TunerStep, ZenonT(30)  DEF Next, bgVars, Manages, Detects, Shares, Tunes, Configures, Forecasts, Caches, Provisions
<1>3. NodeInv /\ [Next]_bgVars => NodeInv'
  <2>1. NodeInv /\ UNCHANGED nodeVars => NodeInv'
    BY Zenon DEF NodeInv, nodeVars
  <2>2. QED
    BY <2>1, NodeStep, ZenonT(30)  DEF Next, bgVars, Manages, Detects, Shares, Tunes, Configures, Forecasts, Caches, Provisions
<1>4. NodeInv /\ [Next]_bgVars => [NodeRestores]_bgVars
  <2>1. UNCHANGED nodeVars => NodeRestores
    BY Zenon DEF nodeVars, NodeRestores
  <2>2. QED
    BY <2>1, NodeUndoes, Zenon DEF Next, Manages, Detects, Shares, Tunes, Configures, Forecasts, Caches, Provisions
<1>5. TunerInv /\ NodeInv /\ [Next]_bgVars => [TunerRestores /\ NodeRestores]_bgVars
  BY <1>4, TunerUndoes, ZenonT(30)
<1>6. QED
  BY <1>1, <1>2, <1>3, <1>5, PTL DEF Spec, PatchesUndone

-----------------------------------------------------------------------------
(* The tenant manager, the detector, the fair shares, the forecast client and *)
(* the parameter tuner, from the invariants of WorkerProofs and               *)
(* FairShareProofs.                                                           *)

(* A settled tenant's usage is that of the namespaces of its profile, a      *)
(* complete Refresh settles every tenant whose profile stays, and CheckQuota *)
(* refuses only what exceeds a budget and keeps the memory budget and, hours *)
(* taken for months, the cost budget, in whatever order UpdateProfiles and   *)
(* the steps of Refresh come.                                                *)
THEOREM QuotaSoundHolds == Spec => []QuotaSound
<1>1. Init => QuotaInv
  BY QuotaStart, Zenon DEF Init
<1>2. QuotaInv /\ [Next]_bgVars => QuotaInv'
  <2> SUFFICES ASSUME QuotaInv, [Next]_bgVars PROVE QuotaInv'
    BY Zenon
  <2>1. CASE UNCHANGED managerVars
    BY <2>1, ManagerStutters, Zenon
  <2>2. CASE ManagerNext
    BY <2>2, EditKeeps, ReconcileKeeps, StartRefreshKeeps, QueryKeeps, StoreUsageKeeps, ZenonT(30)  DEF ManagerNext
  <2>3. QED
    BY <2>1, <2>2, ZenonT(30)  DEF Next, bgVars, Manages, Detects, Shares, Tunes, Configures, Forecasts, Caches, Provisions
<1>3. QED
  BY <1>1, <1>2, QuotaAnswers, PTL DEF Spec

(* A tenant is flagged as noisy only after a growth by more than half that a *)
(* Detect within the last two windows saw, and while there is a victim       *)
(* another tenant is flagged as noisy, though the two flags expire apart     *)
(* (Detect, IsNoisy, IsVictim).                                              *)
THEOREM FlagsFollowGrowthHolds == Spec => []FlagsFollowGrowth
<1>1. Init => FlagInv
  BY FlagStart, Zenon DEF Init
<1>2. FlagInv /\ [Next]_bgVars => FlagInv'
  <2> SUFFICES ASSUME FlagInv, [Next]_bgVars PROVE FlagInv'
    BY Zenon
  <2>1. CASE UNCHANGED detectorVars
    BY <2>1, Zenon DEF detectorVars, FlagInv, FlagTypes, Flagged
  <2>2. CASE DetectorNext
    BY <2>2, RecordKeeps, DetectKeeps, ReadKeeps, ClockKeeps, ZenonT(30)  DEF DetectorNext
  <2>3. QED
    BY <2>1, <2>2, ZenonT(30)  DEF Next, bgVars, Manages, Detects, Shares, Tunes, Configures, Forecasts, Caches, Provisions
<1>3. FlagInv => FlagsFollowGrowth
  <2> SUFFICES ASSUME FlagInv, NEW t \in Watched, Flagged(victims[t])
               PROVE  \E a \in Watched \ {t} : Flagged(noisy[a])
    BY Zenon DEF FlagInv, FlagsFollowGrowth
  <2>1. PICK a \in Watched \ {t} : noisy[a] # NoFlag /\ noisy[a] <= victims[t]
    BY Zenon DEF FlagInv
  <2>2. victims[t] # NoFlag /\ victims[t] <= 2 * Window
    BY Zenon DEF Flagged
  <2>3. noisy[a] \in FlagAge /\ victims[t] \in FlagAge
    BY <2>1, Zenon DEF FlagInv, FlagTypes
  <2>4. noisy[a] \in 0 .. Expired /\ victims[t] \in 0 .. Expired
    BY <2>1, <2>2, <2>3, ZenonT(30)  DEF FlagAge
  <2>5. noisy[a] <= 2 * Window
    BY <2>1, <2>2, <2>4, DetectorAssumption, SMTT(30)  DEF Expired
  <2>6. QED  BY <2>1, <2>5, Zenon DEF Flagged
<1>4. QED
  BY <1>1, <1>2, <1>3, PTL DEF Spec

(* Whatever the tenants' weights, guarantees and caps: the shares that           *)
(* ComputeFairShares hands out keep the guarantees and the caps, fit into the    *)
(* cluster if the inputs are sane, and with fewer tenants than rounds of the     *)
(* reclaim loop leave nothing that a tenant could still use.                     *)
THEOREM SharesSoundHolds == Spec => []SharesSound
<1>1. Init => ShareInv
  BY ShareInitInv, Zenon DEF Init
<1>2. ShareInv /\ [Next]_bgVars => ShareInv'
  <2> SUFFICES ASSUME ShareInv, [Next]_bgVars PROVE ShareInv'
    BY Zenon
  <2>1. capAndReclaim \/ UNCHANGED shareVars
    BY Zenon DEF Next, bgVars, Manages, Detects, Shares, Tunes, Configures, Forecasts, Caches, Provisions
  <2>2. QED  BY <2>1, ShareStepInv, ShareSameInv, ZenonT(30)
<1>3. QED
  BY <1>1, <1>2, ShareInvSound, PTL DEF Spec

(* Until a call succeeds at most MaxErrors calls fail in a pause, beside those *)
(* under way when the breaker opened, for any number of callers and any        *)
(* window that is no shorter than the pause; and the tracker falls back only   *)
(* after a sustained time (recordError, isOpen, recompute).                    *)
THEOREM MLGuardedHolds == Spec => []MLGuarded
<1>1. Init => BreakerInv /\ TrackerInv
  BY ForecastStart, Zenon DEF Init
<1>2. BreakerInv /\ TrackerInv /\ [Next]_bgVars => (BreakerInv /\ TrackerInv)'
  <2>1. CASE UNCHANGED forecastVars
    BY <2>1, ZenonT(30) DEF forecastVars, breakerVars, trackerVars, BreakerInv, TrackerInv, Busy
  <2>2. CASE ForecastNext
    BY <2>2, BreakerStep, TrackerStep, ZenonT(30)
  <2>3. QED
    BY <2>1, <2>2, ZenonT(30)  DEF Next, bgVars, Manages, Detects, Shares, Tunes, Configures, Forecasts, Caches, Provisions
<1>3. BreakerInv /\ TrackerInv => MLGuarded
  <2> SUFFICES ASSUME BreakerInv, TrackerInv PROVE MLGuarded
    BY Zenon
  <2>1. Busy \in SUBSET Caller
    BY Zenon DEF Busy
  <2>2. Cardinality(Busy) \in Nat /\ Cardinality(Caller) \in Nat /\ Len(failures) \in Nat /\ Len(errors) \in Nat
    BY <2>1, BusyCount, SMTT(30) DEF BreakerInv, BreakerOK
  <2>3. openFor = 0 \/ openFor > 0
    BY ForecastAssumption DEF BreakerInv, BreakerOK
  <2>4. CASE openFor = 0
    <3>1. Len(failures) <= Len(errors)
      BY <2>4, ClosedListed, ZenonT(30)  DEF BreakerInv
    <3>2. Len(failures) <= MaxErrors + Cardinality(Caller) - 1
      BY <2>2, <3>1, ForecastAssumption, SMTT(30) DEF BreakerInv
    <3>3. QED  BY <3>2, Zenon DEF MLGuarded, TrackerInv
  <2>5. CASE openFor > 0
    <3>1. Len(failures) <= MaxErrors + Cardinality(Caller) - 1
      BY <2>2, <2>5, ForecastAssumption, SMTT(30) DEF BreakerInv
    <3>2. QED  BY <3>1, Zenon DEF MLGuarded, TrackerInv
  <2>6. QED  BY <2>3, <2>4, <2>5, ZenonT(30)
<1>4. QED
  BY <1>1, <1>2, <1>3, PTL DEF Spec

(* As long as every change is reported and persisted, RunCycle takes a         *)
(* parameter no farther out of its bounds than its default put it, and not     *)
(* out of them once it is inside; by at most MaxChange percent (rounded),      *)
(* unless the value is 0 or unknown; and no earlier than a cooldown after the  *)
(* last change.  No default is assumed, nor one in range.                      *)
THEOREM TuningBoundedHolds == Spec => TuningBounded
<1> DEFINE Bounded ==
       ~unsaved =>
         \A p \in Param : live'[p] # live[p] =>
           /\ values[p] = live[p]
           /\ live'[p] \in Reach(Params[p], live[p])
           /\ sinceChange >= Cooldown
           /\ \/ Params[p].type = "string"
              \/ live[p] \in {0, NoDefault}
              \/ 200 * Magnitude(live'[p] - live[p]) <= 2 * Limit * live[p] + 100
<1>1. Init => ValueInv /\ SavedInv
  BY TuningStart, Zenon DEF Init
<1>2. [Next]_bgVars => TuningNext \/ UNCHANGED tuningVars
  BY Zenon DEF Next, bgVars, Manages, Detects, Shares, Tunes, Configures, Forecasts, Caches, Provisions
<1>3. ValueInv /\ SavedInv /\ [Next]_bgVars => (ValueInv /\ SavedInv)'
  <2>1. CASE UNCHANGED tuningVars
    BY <2>1, ZenonT(30)  DEF tuningVars, ValueInv, SavedInv, Pending, IsObservation
  <2>2. QED  BY <1>2, <2>1, TuningStep, ZenonT(30)
<1>4. ValueInv /\ SavedInv /\ [Next]_bgVars => [Bounded]_tuningVars
  <2> SUFFICES ASSUME ValueInv, SavedInv, TuningNext PROVE Bounded
    BY <1>2, Zenon
  <2>1. ASSUME NEW slo \in SLOs, NEW applies \in {"ok", "fails", "late"}, RunCycle(slo, applies) PROVE Bounded
    BY <2>1, CycleKeeps, ZenonT(30)
  <2>2. CASE live' = live
    BY <2>2, ZenonT(30)
  <2>3. QED  BY <2>1, <2>2, PersistKeeps, OtherTuningKeeps, ZenonT(30) DEF TuningNext
<1>5. QED
  BY <1>1, <1>3, <1>4, PTL DEF Spec, TuningBounded

-----------------------------------------------------------------------------
(* Types and bounds of all parts. *)

LEMMA CacheTypes == CacheInv => CacheTypeOK
  BY Zenon DEF CacheInv, RequestInv, EntryInv, CacheTypeOK

(* Every part keeps to its types and bounds: among them, the detector and the *)
(* tracker trim what they keep, the breaker's list stays below its limit, and *)
(* a tenant is tracked exactly while its profile is known.                    *)
THEOREM TypeOKHolds == Spec => []TypeOK
<1> DEFINE Inv == /\ QuotaInv /\ ChangeInv
                  /\ FlagInv /\ HistoryInv
                  /\ ValueInv /\ SavedInv
                  /\ BreakerInv /\ TrackerInv
                  /\ CacheInv
<1>1. Init => Inv
  BY QuotaStart, ChangeStart, FlagStart, HistoryStart, TuningStart, ForecastStart, CacheStart, ZenonT(30)  DEF Init
<1>2. Inv /\ [Next]_bgVars => Inv'
  <2> SUFFICES ASSUME Inv, [Next]_bgVars PROVE Inv'
    BY Zenon
  <2>1. (QuotaInv /\ ChangeInv)'
    <3>1. CASE UNCHANGED managerVars
      BY <3>1, ManagerStutters, Zenon DEF managerVars, ChangeInv
    <3>2. CASE ManagerNext
      BY <3>2, ChangeStep, EditKeeps, ReconcileKeeps, StartRefreshKeeps, QueryKeeps, StoreUsageKeeps, ZenonT(30)  DEF ManagerNext
    <3>3. ManagerNext \/ UNCHANGED managerVars
      BY Zenon DEF Next, bgVars, Manages, Detects, Shares, Tunes, Configures, Forecasts, Caches, Provisions
    <3>4. QED  BY <3>1, <3>2, <3>3, ZenonT(30)
  <2>2. (FlagInv /\ HistoryInv)'
    <3>1. CASE UNCHANGED detectorVars
      BY <3>1, Zenon DEF detectorVars, FlagInv, FlagTypes, HistoryInv
    <3>2. CASE DetectorNext
      BY <3>2, HistoryStep, RecordKeeps, DetectKeeps, ReadKeeps, ClockKeeps, ZenonT(30)  DEF DetectorNext
    <3>3. DetectorNext \/ UNCHANGED detectorVars
      BY Zenon DEF Next, bgVars, Manages, Detects, Shares, Tunes, Configures, Forecasts, Caches, Provisions
    <3>4. QED  BY <3>1, <3>2, <3>3, ZenonT(30)
  <2>3. (ValueInv /\ SavedInv)'
    <3>1. CASE UNCHANGED tuningVars
      BY <3>1, ZenonT(30) DEF tuningVars, ValueInv, SavedInv, Pending, IsObservation
    <3>2. CASE TuningNext
      BY <3>2, TuningStep, Zenon
    <3>3. TuningNext \/ UNCHANGED tuningVars
      BY Zenon DEF Next, bgVars, Manages, Detects, Shares, Tunes, Configures, Forecasts, Caches, Provisions
    <3>4. QED  BY <3>1, <3>2, <3>3, ZenonT(30)
  <2>4. (BreakerInv /\ TrackerInv)'
    <3>1. CASE UNCHANGED forecastVars
      BY <3>1, ZenonT(30) DEF forecastVars, breakerVars, trackerVars, BreakerInv, TrackerInv, Busy
    <3>2. CASE ForecastNext
      BY <3>2, BreakerStep, TrackerStep, ZenonT(30)
    <3>3. ForecastNext \/ UNCHANGED forecastVars
      BY Zenon DEF Next, bgVars, Manages, Detects, Shares, Tunes, Configures, Forecasts, Caches, Provisions
    <3>4. QED  BY <3>1, <3>2, <3>3, ZenonT(30)
  <2>5. CacheInv'
    <3>1. CASE UNCHANGED cacheVars
      BY <3>1, ZenonT(30) DEF cacheVars, CacheInv, RequestInv, EntryInv, AloneInv, Hit
    <3>2. CASE CacheNext
      BY <3>2, UseCachedKeeps, RequestKeeps, StoreKeeps, TickKeeps, ZenonT(30)  DEF CacheNext
    <3>3. CacheNext \/ UNCHANGED cacheVars
      BY Zenon DEF Next, bgVars, Manages, Detects, Shares, Tunes, Configures, Forecasts, Caches, Provisions
    <3>4. QED  BY <3>1, <3>2, <3>3, ZenonT(30)
  <2>6. QED  BY <2>1, <2>2, <2>3, <2>4, <2>5, ZenonT(30)
<1>3. Inv => TypeOK
  BY ManagerTypes, DetectorTypes, TuningTypes, ForecastTypes, CacheTypes, ZenonT(30)  DEF TypeOK
<1>4. QED
  BY <1>1, <1>2, <1>3, PTL DEF Spec
=============================================================================
