---------------------------- MODULE WorkerProofs -----------------------------
(***************************************************************************)
(* The inductive invariants of the tenant manager, whichever way the       *)
(* reconciler and the refresh loop interleave, of the noisy-neighbour      *)
(* detector, of the forecast client's breaker and accuracy tracker and of  *)
(* the parameter tuner, each for the part by itself, for any number of     *)
(* tenants, callers and parameters.  BackgroundProofs draws the theorems   *)
(* from them.                                                              *)
(*                                                                         *)
(* An induction is stated with the set of the cases in which a claim       *)
(* fails: if there were any, there would be a least one (LeastCase).       *)
(***************************************************************************)
EXTENDS TenantManager, NoisyNeighbor, ForecastClient, Tuning, FiniteSetTheorems, TLAPS

-----------------------------------------------------------------------------
(* The tenant manager. *)

\* A tenant's state agrees with the profile it was made from: same namespaces,
\* and the limits that the profile gives as numbers.
Agrees(state, p) ==
  /\ state # NoProfile
  /\ state.namespaces = p.namespaces
  /\ state = [namespaces |-> state.namespaces, limit |-> state.limit, usage |-> state.usage]
  /\ state.limit \in [Resource -> Nat]
  /\ state.usage \in [Resource -> Nat]
  /\ \A r \in Resource : /\ p.budgets = NoBudget => state.limit[r] = 0
                         /\ p.budgets # NoBudget /\ p.budgets[r] # NoNumber =>
                              state.limit[r] = p.budgets[r]

\* The tenants follow the profiles handed over last.
SyncInv ==
  /\ crs = [t \in Tenant |-> crs[t]]
  /\ \A t \in Tenant : crs[t] = NoProfile \/ crs[t] \in TenantProfiles[t]
  /\ tenants = [t \in Tenant |-> tenants[t]]
  /\ \A t \in Tenant : /\ synced[t] = NoProfile => tenants[t] = NoProfile
                       /\ synced[t] # NoProfile => /\ synced[t] \in TenantProfiles[t]
                                                   /\ Agrees(tenants[t], synced[t])

\* What a Refresh under way has copied is still true of the tenants whose
\* profile did not change since it began.
Current(e) ==
  /\ e.name \in Tenant
  /\ \E p \in TenantProfiles[e.name] : e.namespaces = p.namespaces
  /\ e.name \notin replaced => /\ synced[e.name] # NoProfile
                               /\ e.namespaces = synced[e.name].namespaces

RefreshInv ==
  /\ refresh = [todo |-> refresh.todo, hand |-> refresh.hand]
  /\ \A e \in refresh.todo : Current(e)
  /\ refresh.hand # NoProfile => Current(refresh.hand) /\ refresh.hand.used \in [Resource -> Nat]

\* The usage of a settled tenant is what the queries for its namespaces answered.
SettledInv ==
  /\ sampled = [t \in Tenant |-> sampled[t]]
  /\ settled \subseteq Tenant \ replaced
  /\ UsageBelongs
  /\ \A t \in settled : /\ sampled[t].used \in [Resource -> Nat]
                        /\ tenants[t].usage = Answered(sampled[t])

\* Who is not settled was replaced, or is still to be queried or stored.
InHand(t) == refresh.hand # NoProfile /\ refresh.hand.name = t

DueInv ==
  \A t \in Tenant \ replaced : tenants[t] # NoProfile /\ tenants[t].namespaces # {} =>
    t \in settled \/ InHand(t) \/ \E e \in refresh.todo : e.name = t

QuotaInv == SyncInv /\ RefreshInv /\ SettledInv /\ DueInv

LEMMA NoUsageNat == NoUsage \in [Resource -> Nat]
  BY Zenon DEF NoUsage

LEMMA AnsweredNat ==
  ASSUME NEW h, h.used \in [Resource -> Nat]
  PROVE  Answered(h) \in [Resource -> Nat]
  BY Zenon DEF Answered

LEMMA QuotaStart == ManagerInit => QuotaInv
<1> SUFFICES ASSUME ManagerInit PROVE QuotaInv
  BY Zenon
<1>1. SyncInv
  BY Zenon DEF ManagerInit, SyncInv
<1>2. RefreshInv
  BY Zenon DEF ManagerInit, RefreshInv, Idling
<1>3. SettledInv
  BY Zenon DEF ManagerInit, SettledInv, UsageBelongs
<1>4. DueInv
  BY Zenon DEF ManagerInit, DueInv
<1>5. QED  BY <1>1, <1>2, <1>3, <1>4, Zenon DEF QuotaInv

\* UpdateProfiles makes a state that agrees with the profile.
LEMMA UpdateAgrees ==
  ASSUME NEW t \in Tenant, SyncInv, UpdateProfiles(crs), crs[t] # NoProfile
  PROVE  Agrees(tenants'[t], crs[t])
<1> DEFINE p   == crs[t]
           old == IF tenants[t] = NoProfile
                  THEN [namespaces |-> {}, limit |-> NoUsage, usage |-> NoUsage] ELSE tenants[t]
           new == [namespaces |-> p.namespaces, limit |-> NewLimit(p.budgets, old.limit),
                   usage |-> old.usage]
<1>1. p \in TenantProfiles[t] /\ tenants'[t] = new
  BY Zenon DEF SyncInv, UpdateProfiles
<1>2. old.limit \in [Resource -> Nat] /\ old.usage \in [Resource -> Nat]
  <2>1. CASE tenants[t] = NoProfile
    BY <2>1, NoUsageNat, Zenon
  <2>2. CASE tenants[t] # NoProfile
    BY <2>2, Zenon DEF SyncInv, Agrees
  <2>3. QED  BY <2>1, <2>2, Zenon
<1> HIDE DEF old, p
<1>3. p.budgets # NoBudget =>
        \A r \in Resource : p.budgets[r] \in Nat \/ (r = "cost" /\ p.budgets[r] = NoNumber)
  BY <1>1, TenantAssumption, Zenon
<1>4. NewLimit(p.budgets, old.limit) \in [Resource -> Nat]
  BY <1>2, <1>3, Zenon DEF NewLimit
<1>5. \A r \in Resource : /\ p.budgets = NoBudget => NewLimit(p.budgets, old.limit)[r] = 0
                          /\ p.budgets # NoBudget /\ p.budgets[r] # NoNumber =>
                               NewLimit(p.budgets, old.limit)[r] = p.budgets[r]
  BY Zenon DEF NewLimit
<1> DEFINE limit == NewLimit(p.budgets, old.limit)
           usage == old.usage
<1>6. [namespaces |-> p.namespaces, limit |-> limit, usage |-> usage] # NoProfile
  <2>1. limit \in [Resource -> Nat] /\ usage \in [Resource -> Nat]
    BY <1>2, <1>4, Zenon
  <2>2. NoProfile \notin [namespaces : {p.namespaces}, limit : [Resource -> Nat], usage : [Resource -> Nat]]
    BY <1>1, TenantAssumption, Zenon
  <2> HIDE DEF limit, usage
  <2>3. QED  BY <2>1, <2>2
<1>7. QED
  BY <1>1, <1>2, <1>4, <1>5, <1>6 DEF Agrees, p

LEMMA ReconcileKeeps == QuotaInv /\ ReconcileProfiles => QuotaInv'
<1> SUFFICES ASSUME QuotaInv, ReconcileProfiles PROVE QuotaInv'
  BY Zenon
<1> DEFINE changed == {t \in Tenant : crs[t] # synced[t]}
<1>1. /\ synced' = crs /\ crs' = crs /\ refresh' = refresh /\ UpdateProfiles(crs)
      /\ replaced' = replaced \cup changed
      /\ settled' = settled \ changed
      /\ sampled' = [t \in Tenant |-> IF t \in changed THEN NoProfile ELSE sampled[t]]
  BY Zenon DEF ReconcileProfiles
<1>2. SyncInv'
  <2>1. tenants' = [t \in Tenant |-> tenants'[t]]
    BY <1>1, Zenon DEF UpdateProfiles
  <2>2. \A t \in Tenant : crs[t] = NoProfile => tenants'[t] = NoProfile
    BY <1>1, Zenon DEF UpdateProfiles
  <2>3. \A t \in Tenant : crs[t] # NoProfile => crs[t] \in TenantProfiles[t] /\ Agrees(tenants'[t], crs[t])
    BY <1>1, UpdateAgrees, Zenon DEF QuotaInv, SyncInv
  <2>4. QED  BY <1>1, <2>1, <2>2, <2>3, Zenon DEF QuotaInv, SyncInv
<1>3. \A e : Current(e) => Current(e)'
  BY <1>1, Zenon DEF Current
<1>4. RefreshInv'
  BY <1>1, <1>3, Zenon DEF QuotaInv, RefreshInv
<1>5. ASSUME NEW t \in Tenant, t \notin changed, crs[t] # NoProfile
      PROVE  /\ tenants[t] # NoProfile /\ tenants[t].namespaces = tenants'[t].namespaces
             /\ tenants'[t].usage = tenants[t].usage
  <2>1. synced[t] = crs[t] /\ Agrees(tenants[t], crs[t])
    BY <1>5, Zenon DEF QuotaInv, SyncInv
  <2>2. tenants[t] # NoProfile /\ tenants[t].namespaces = crs[t].namespaces
    BY <2>1, Zenon DEF Agrees
  <2>3. tenants'[t] = [namespaces |-> crs[t].namespaces, limit |-> NewLimit(crs[t].budgets, tenants[t].limit),
                       usage |-> tenants[t].usage]
    BY <1>1, <1>5, <2>2, Zenon DEF UpdateProfiles
  <2>4. QED  BY <2>2, <2>3
<1>6. ASSUME NEW t \in settled'
      PROVE  /\ t \in settled /\ t \in Tenant /\ t \notin changed /\ crs[t] = synced[t]
             /\ crs[t] # NoProfile /\ sampled'[t] = sampled[t]
  BY <1>1, <1>6, Zenon DEF QuotaInv, SettledInv, UsageBelongs
<1>7. SettledInv'
  <2>1. sampled' = [t \in Tenant |-> sampled'[t]] /\ settled' \subseteq Tenant \ replaced'
    BY <1>1, <1>6, Zenon DEF QuotaInv, SettledInv
  <2>2. UsageBelongs'
    BY <1>1, <1>6, Zenon DEF QuotaInv, SettledInv, UsageBelongs
  <2>3. \A t \in settled' : sampled'[t].used \in [Resource -> Nat] /\ tenants'[t].usage = Answered(sampled'[t])
    BY <1>5, <1>6, Zenon DEF QuotaInv, SettledInv
  <2>4. QED  BY <2>1, <2>2, <2>3, Zenon DEF SettledInv, Answered
<1>8. DueInv'
  <2> SUFFICES ASSUME NEW t \in Tenant, t \notin replaced', tenants'[t] # NoProfile, tenants'[t].namespaces # {}
               PROVE  t \in settled' \/ InHand(t)' \/ \E e \in refresh' .todo : e.name = t
    BY Zenon DEF DueInv
  <2>1. t \notin changed /\ t \notin replaced /\ crs[t] # NoProfile
    BY <1>1, <1>2, Zenon DEF SyncInv
  <2>2. t \in settled \/ InHand(t) \/ \E e \in refresh.todo : e.name = t
    BY <1>5, <2>1, Zenon DEF QuotaInv, DueInv
  <2>3. QED  BY <1>1, <2>1, <2>2, Zenon DEF InHand
<1>9. QED
  BY <1>2, <1>4, <1>7, <1>8, Zenon DEF QuotaInv

LEMMA StartRefreshKeeps == QuotaInv /\ StartRefresh => QuotaInv'
<1> SUFFICES ASSUME QuotaInv, StartRefresh PROVE QuotaInv'
  BY Zenon
<1> DEFINE names == {t \in Tenant : tenants[t] # NoProfile /\ tenants[t].namespaces # {}}
           todo  == {[name |-> t, namespaces |-> tenants[t].namespaces] : t \in names}
<1>1. /\ refresh' = [refresh EXCEPT !.todo = todo] /\ refresh.hand = NoProfile
      /\ replaced' = {} /\ UNCHANGED <<crs, tenants, synced, sampled, settled>>
  BY Zenon DEF StartRefresh, Idling
<1>2. refresh' = [todo |-> todo, hand |-> NoProfile]
  BY <1>1, Zenon DEF QuotaInv, RefreshInv
<1>3. ASSUME NEW e \in todo
      PROVE  Current(e)'
  <2>1. PICK t \in names : e = [name |-> t, namespaces |-> tenants[t].namespaces]
    BY <1>3, Zenon
  <2>2. /\ t \in Tenant /\ synced[t] # NoProfile /\ synced[t] \in TenantProfiles[t]
        /\ tenants[t].namespaces = synced[t].namespaces
    BY <2>1, Zenon DEF QuotaInv, SyncInv, Agrees
  <2>3. QED  BY <1>1, <2>1, <2>2, Zenon DEF Current
<1> HIDE DEF todo
<1>4. RefreshInv'
  BY <1>2, <1>3, Zenon DEF RefreshInv
<1>5. SyncInv' /\ SettledInv'
  <2>1. SyncInv'
    BY <1>1, Zenon DEF QuotaInv, SyncInv
  <2>2. SettledInv'
    BY <1>1, Zenon DEF QuotaInv, SettledInv, UsageBelongs
  <2>3. QED  BY <2>1, <2>2, Zenon
<1>6. DueInv'
  <2>1. ASSUME NEW t \in names
        PROVE  \E e \in todo : e.name = t
    <3> DEFINE e == [name |-> t, namespaces |-> tenants[t].namespaces]
    <3>1. e \in todo
      BY <2>1, Zenon DEF todo
    <3>2. e.name = t
      BY Zenon
    <3>3. QED  BY <3>1, <3>2, Zenon
  <2>2. refresh' .todo = todo
    BY <1>2, Zenon
  <2>3. QED  BY <1>1, <2>1, <2>2, Zenon DEF DueInv
<1>7. QED
  BY <1>4, <1>5, <1>6, Zenon DEF QuotaInv

LEMMA QueryKeeps ==
  ASSUME QuotaInv, NEW e \in refresh.todo, NEW u \in Usage, NEW bad \in SUBSET Resource,
         QueryUsage(e, u, bad)
  PROVE  QuotaInv'
<1> DEFINE hand == [name |-> e.name, namespaces |-> e.namespaces, used |-> u, bad |-> bad]
<1>1. /\ refresh.hand = NoProfile
      /\ refresh' = [todo |-> refresh.todo \ {e}, hand |-> hand]
      /\ UNCHANGED <<crs, tenants, synced, sampled, replaced, settled>>
  BY Zenon DEF QueryUsage
<1>2. hand.used \in [Resource -> Nat] /\ hand.name = e.name
  BY TenantAssumption, Zenon
<1>3. Current(hand) /\ \A f \in refresh.todo : Current(f)
  BY Zenon DEF QuotaInv, RefreshInv, Current
<1>4. hand # NoProfile
  <2>1. PICK p \in TenantProfiles[e.name] : e.namespaces = p.namespaces
    BY <1>3, Zenon DEF QuotaInv, RefreshInv, Current
  <2>2. NoProfile \notin [name : {e.name}, namespaces : {p.namespaces}, used : Usage, bad : SUBSET Resource]
    BY <1>3, <2>1, TenantAssumption, Zenon DEF Current
  <2>3. QED  BY <2>1, <2>2
<1> HIDE DEF hand
<1>5. \A f : Current(f)' = Current(f)
  BY <1>1, Zenon DEF Current
<1>6. RefreshInv'
  BY <1>1, <1>2, <1>3, <1>5, Zenon DEF RefreshInv
<1>7. SyncInv' /\ SettledInv'
  <2>1. SyncInv'
    BY <1>1, Zenon DEF QuotaInv, SyncInv
  <2>2. SettledInv'
    BY <1>1, Zenon DEF QuotaInv, SettledInv, UsageBelongs
  <2>3. QED  BY <2>1, <2>2, Zenon
<1>8. DueInv'
  BY <1>1, <1>2, <1>4, Zenon DEF QuotaInv, DueInv, InHand
<1>9. QED
  BY <1>6, <1>7, <1>8, Zenon DEF QuotaInv

LEMMA StoreUsageKeeps == QuotaInv /\ StoreUsage => QuotaInv'
<1> SUFFICES ASSUME QuotaInv, StoreUsage PROVE QuotaInv'
  BY Zenon
<1> DEFINE h == refresh.hand
           n == h.name
           usage == Answered(h)
<1>1. /\ h # NoProfile
      /\ tenants' = IF tenants[n] = NoProfile THEN tenants ELSE [tenants EXCEPT ![n].usage = usage]
      /\ settled' = IF n \in replaced THEN settled ELSE settled \cup {n}
      /\ sampled' = IF n \in replaced THEN sampled ELSE [sampled EXCEPT ![n] = h]
      /\ refresh' = [refresh EXCEPT !.hand = NoProfile]
      /\ UNCHANGED <<crs, synced, replaced>>
  BY Zenon DEF StoreUsage
<1>2. Current(h) /\ h.used \in [Resource -> Nat] /\ n \in Tenant
  BY <1>1, Zenon DEF QuotaInv, RefreshInv, Current
<1>3. usage \in [Resource -> Nat]
  BY <1>2, AnsweredNat, Zenon
<1>4. RefreshInv' /\ refresh' .todo = refresh.todo
  <2>1. refresh' = [todo |-> refresh.todo, hand |-> NoProfile]
    BY <1>1, Zenon DEF QuotaInv, RefreshInv
  <2>2. \A e \in refresh.todo : Current(e)'
    BY <1>1, Zenon DEF QuotaInv, RefreshInv, Current
  <2>3. QED  BY <2>1, <2>2, Zenon DEF RefreshInv
<1>5. DueInv'
  <2>1. ASSUME NEW t \in Tenant, tenants'[t] # NoProfile
        PROVE  tenants[t] # NoProfile /\ tenants'[t].namespaces = tenants[t].namespaces
    <3>1. CASE t = n /\ tenants[n] # NoProfile
      <4>1. tenants'[n] = [tenants[n] EXCEPT !.usage = usage]
        BY <1>1, <1>2, <3>1, Zenon DEF QuotaInv, SyncInv
      <4>2. tenants[n] = [namespaces |-> tenants[n].namespaces, limit |-> tenants[n].limit, usage |-> tenants[n].usage]
        BY <1>2, <3>1, Zenon DEF QuotaInv, SyncInv, Agrees
      <4> HIDE DEF n, usage
      <4>3. QED  BY <3>1, <4>1, <4>2
    <3>2. CASE ~(t = n /\ tenants[n] # NoProfile)
      BY <1>1, <1>2, <2>1, <3>2, Zenon DEF QuotaInv, SyncInv
    <3>3. QED  BY <3>1, <3>2, Zenon
  <2>2. QED  BY <1>1, <1>4, <2>1, Zenon DEF QuotaInv, DueInv, InHand
<1> HIDE DEF h, n, usage
<1>6. SyncInv' /\ \A t \in Tenant : tenants[t] # NoProfile =>
                    tenants'[t].usage = IF t = n THEN usage ELSE tenants[t].usage
  <2>1. CASE tenants[n] = NoProfile
    BY <1>1, <2>1, Zenon DEF QuotaInv, SyncInv
  <2>2. CASE tenants[n] # NoProfile
    <3>1. synced[n] # NoProfile /\ synced[n] \in TenantProfiles[n] /\ Agrees(tenants[n], synced[n])
      BY <1>2, <2>2, Zenon DEF QuotaInv, SyncInv
    <3> DEFINE s == tenants[n]
               w == [namespaces |-> s.namespaces, limit |-> s.limit, usage |-> usage]
    <3>2. [s EXCEPT !.usage = usage] = w
      BY <3>1 DEF Agrees
    <3>3. tenants' = [tenants EXCEPT ![n] = w]
      BY <1>1, <2>2, <3>2, Zenon
    <3>4. NoProfile \notin [namespaces : {synced[n].namespaces}, limit : [Resource -> Nat], usage : [Resource -> Nat]]
      BY <1>2, <3>1, TenantAssumption, Zenon
    <3>5. w # NoProfile
      BY <1>3, <3>1, <3>4 DEF Agrees
    <3>6. Agrees(w, synced[n]) /\ w.usage = usage
      BY <1>3, <3>1, <3>5, Zenon DEF Agrees
    <3> HIDE DEF w
    <3>7. QED  BY <1>1, <1>2, <3>1, <3>3, <3>6, Zenon DEF QuotaInv, SyncInv
  <2>3. QED  BY <2>1, <2>2, Zenon
<1>7. SettledInv'
  <2>1. sampled' = [t \in Tenant |-> sampled'[t]] /\ settled' \subseteq Tenant \ replaced'
    BY <1>1, <1>2, Zenon DEF QuotaInv, SettledInv
  <2>2. ASSUME NEW t \in settled'
        PROVE  /\ synced[t] # NoProfile /\ sampled'[t].namespaces = synced[t].namespaces
               /\ sampled'[t].used \in [Resource -> Nat]
               /\ tenants'[t].usage = Answered(sampled'[t])
    <3>1. CASE n \notin replaced /\ t = n
      <4>1. sampled'[n] = h /\ synced[n] # NoProfile /\ h.namespaces = synced[n].namespaces
        BY <1>1, <1>2, <3>1, Zenon DEF QuotaInv, SettledInv, Current, n
      <4>2. tenants'[n].usage = usage
        BY <1>2, <1>6, <4>1, Zenon DEF QuotaInv, SyncInv, Agrees
      <4>3. QED  BY <1>2, <3>1, <4>1, <4>2, Zenon DEF usage
    <3>2. CASE t # n
      <4>1. t \in settled /\ sampled'[t] = sampled[t] /\ t \in Tenant /\ synced[t] # NoProfile
        BY <1>1, <2>2, <3>2, Zenon DEF QuotaInv, SettledInv, UsageBelongs
      <4>2. tenants'[t].usage = tenants[t].usage
        BY <1>6, <3>2, <4>1, Zenon DEF QuotaInv, SyncInv, Agrees
      <4>3. QED  BY <4>1, <4>2, Zenon DEF QuotaInv, SettledInv, UsageBelongs
    <3>3. CASE n \in replaced /\ t = n
      BY <1>1, <2>2, <3>3, Zenon DEF QuotaInv, SettledInv
    <3>4. QED  BY <3>1, <3>2, <3>3, Zenon
  <2>3. QED  BY <1>1, <2>1, <2>2, Zenon DEF SettledInv, UsageBelongs, Answered
<1>8. QED
  BY <1>4, <1>5, <1>6, <1>7, Zenon DEF QuotaInv

LEMMA EditKeeps ==
  ASSUME QuotaInv, NEW t \in Tenant, NEW p \in TenantProfiles[t] \cup {NoProfile}, EditProfile(t, p)
  PROVE  QuotaInv'
<1>1. crs' = [crs EXCEPT ![t] = p] /\ UNCHANGED <<tenants, synced, refresh, replaced, settled, sampled>>
  BY Zenon DEF EditProfile
<1>2. SyncInv'
  BY <1>1, Zenon DEF QuotaInv, SyncInv
<1>3. RefreshInv'
  BY <1>1, Zenon DEF QuotaInv, RefreshInv, Current
<1>4. SettledInv'
  BY <1>1, Zenon DEF QuotaInv, SettledInv, UsageBelongs
<1>5. DueInv'
  BY <1>1, Zenon DEF QuotaInv, DueInv, InHand
<1>6. QED  BY <1>2, <1>3, <1>4, <1>5, Zenon DEF QuotaInv

LEMMA ManagerStutters == QuotaInv /\ UNCHANGED managerVars => QuotaInv'
<1> SUFFICES ASSUME QuotaInv, UNCHANGED managerVars PROVE QuotaInv'
  BY Zenon
<1>1. UNCHANGED <<crs, tenants, synced, refresh, replaced, settled, sampled>>
  BY Zenon DEF managerVars
<1>2. SyncInv'
  BY <1>1, Zenon DEF QuotaInv, SyncInv
<1>3. RefreshInv'
  BY <1>1, Zenon DEF QuotaInv, RefreshInv, Current
<1>4. SettledInv'
  BY <1>1, Zenon DEF QuotaInv, SettledInv, UsageBelongs
<1>5. DueInv'
  BY <1>1, Zenon DEF QuotaInv, DueInv, InHand
<1>6. QED  BY <1>2, <1>3, <1>4, <1>5, Zenon DEF QuotaInv

\* What CheckQuota compares for one tenant and one resource, against the budget.
LEMMA QuotaOfOne ==
  ASSUME NEW r \in Resource, NEW used \in Nat, NEW bad, NEW d \in Nat, NEW b \in Nat,
         NEW usage, usage = IF r \in bad THEN 0 ELSE used
  PROVE  /\ b > 0 /\ usage + d > b => Unit(r) * used + d > b
         /\ b > 0 /\ r \notin bad /\ usage + d <= b => Unit(r) * used + d <= Unit(r) * b
<1>1. CASE r = "cost"
  <2>1. Unit(r) = 730
    BY <1>1, Zenon DEF Unit, HoursPerMonth
  <2>2. QED  BY <2>1
<1>2. CASE r # "cost"
  <2>1. Unit(r) = 1
    BY <1>2, Zenon DEF Unit
  <2>2. QED  BY <2>1
<1>3. QED  BY <1>1, <1>2, Zenon

\* What the invariant says of one tenant is enough for the answers of CheckQuota.
LEMMA QuotaAnswers == QuotaInv => QuotaSound
<1> SUFFICES ASSUME QuotaInv PROVE QuotaSound
  BY Zenon
<1>1. UsageBelongs
  BY Zenon DEF QuotaInv, SettledInv
<1>2. StaleForOneRefresh
  <2>1. refresh = Idling => refresh.hand = NoProfile /\ refresh.todo = {}
    BY DEF Idling
  <2>2. QED  BY <2>1, Zenon DEF QuotaInv, DueInv, InHand, StaleForOneRefresh
<1>3. ASSUME NEW t \in settled, NEW d \in Deltas
      PROVE  LET budget(r) == IF synced[t].budgets = NoBudget THEN 0 ELSE synced[t].budgets[r]
                 capped    == {r \in Resource : budget(r) \notin {0, NoNumber}}
                 spent(r)  == Unit(r) * sampled[t].used[r] + d[r]
             IN  IF CheckQuota(tenants[t], d)
                 THEN \A r \in capped \ sampled[t].bad : spent(r) <= Unit(r) * budget(r)
                 ELSE (\E r \in capped : spent(r) > budget(r)) \/ budget("cost") = NoNumber
  <2> DEFINE b == synced[t].budgets
             s == tenants[t]
             h == sampled[t]
             budget(r) == IF b = NoBudget THEN 0 ELSE b[r]
             spent(r)  == Unit(r) * h.used[r] + d[r]
             fits(r)   == s.limit[r] > 0 => s.usage[r] + d[r] <= s.limit[r]
             capped    == {r \in Resource : budget(r) \notin {0, NoNumber}}
  <2>1. /\ t \in Tenant /\ synced[t] \in TenantProfiles[t] /\ Agrees(s, synced[t])
        /\ h.used \in [Resource -> Nat] /\ s.usage = Answered(h)
    BY <1>3, Zenon DEF QuotaInv, SettledInv, UsageBelongs, SyncInv
  <2>2. CheckQuota(s, d) = \A r \in Resource : fits(r)
    BY <2>1, Zenon DEF CheckQuota, Agrees
  <2>3. \A r \in Resource : budget(r) \in Nat \/ (r = "cost" /\ budget(r) = NoNumber)
    BY <2>1, TenantAssumption, Zenon
  <2>4. \A r \in Resource : budget(r) # NoNumber => s.limit[r] = budget(r)
    BY <2>1, <2>3, TenantAssumption, Zenon DEF Agrees
  <2>5. \A r \in Resource : d[r] \in Nat /\ h.used[r] \in Nat
    BY <1>3, <2>1, TenantAssumption, Zenon
  <2>6. \A r \in Resource : s.usage[r] = IF r \in h.bad THEN 0 ELSE h.used[r]
    BY <2>1, Zenon DEF Answered
  <2> HIDE DEF b, s, h, budget
  <2>7. ASSUME NEW r \in Resource, budget(r) # NoNumber
        PROVE  /\ ~fits(r) => budget(r) # 0 /\ spent(r) > budget(r)
               /\ fits(r) /\ budget(r) # 0 /\ r \notin h.bad => spent(r) <= Unit(r) * budget(r)
    <3>1. budget(r) \in Nat /\ s.limit[r] = budget(r) /\ d[r] \in Nat /\ h.used[r] \in Nat
      BY <2>3, <2>4, <2>5, <2>7, Zenon
    <3>2. /\ budget(r) > 0 /\ s.usage[r] + d[r] > budget(r) => spent(r) > budget(r)
          /\ budget(r) > 0 /\ r \notin h.bad /\ s.usage[r] + d[r] <= budget(r) => spent(r) <= Unit(r) * budget(r)
      BY <2>6, <3>1, QuotaOfOne, Zenon
    <3>3. s.usage[r] \in Nat
      BY <2>6, <3>1
    <3> HIDE DEF spent
    <3>4. QED  BY <3>1, <3>2, <3>3
  <2> HIDE DEF fits, spent
  <2>8. (\A r \in Resource : fits(r)) => \A r \in capped \ h.bad : spent(r) <= Unit(r) * budget(r)
    BY <2>7, Zenon
  <2>9. ~(\A r \in Resource : fits(r)) => (\E r \in capped : spent(r) > budget(r)) \/ budget("cost") = NoNumber
    <3> SUFFICES ASSUME NEW r \in Resource, ~fits(r), budget("cost") # NoNumber
                 PROVE  \E x \in capped : spent(x) > budget(x)
      BY Zenon
    <3>1. budget(r) # NoNumber
      <4>1. CASE r = "cost"
        BY <4>1
      <4>2. CASE r # "cost"
        BY <2>3, <4>2, TenantAssumption, Zenon
      <4>3. QED  BY <4>1, <4>2, Zenon
    <3>2. budget(r) # 0 /\ spent(r) > budget(r)
      BY <2>7, <3>1, Zenon
    <3>3. QED  BY <3>1, <3>2, Zenon
  <2>10. QED  BY <2>2, <2>8, <2>9, Zenon DEF budget, spent, b, s, h
<1>4. QED  BY <1>1, <1>2, <1>3, Zenon DEF QuotaSound

\* The rest of the type invariant.
ChangeInv ==
  /\ dirty \in BOOLEAN
  /\ replaced \subseteq Tenant

LEMMA ChangeStart == ManagerInit => ChangeInv
  BY Zenon DEF ManagerInit, ChangeInv

LEMMA ChangeStep == ChangeInv /\ ManagerNext => ChangeInv'
  BY Zenon DEF ChangeInv, ManagerNext, EditProfile, ReconcileProfiles, StartRefresh, QueryUsage, StoreUsage

LEMMA ManagerTypes == QuotaInv /\ ChangeInv => ManagerTypeOK
<1> SUFFICES ASSUME QuotaInv, ChangeInv PROVE ManagerTypeOK
  BY Zenon
<1>1. \A t \in Tenant : crs[t] \in TenantProfiles[t] \cup {NoProfile}
  BY Zenon DEF QuotaInv, SyncInv
<1>2. dirty \in BOOLEAN /\ settled \cup replaced \subseteq Tenant
  BY Zenon DEF ChangeInv, QuotaInv, SettledInv
<1>3. ASSUME NEW t \in Tenant
      PROVE  /\ (tenants[t] = NoProfile) = (synced[t] = NoProfile)
             /\ tenants[t] # NoProfile => /\ tenants[t].usage \in [Resource -> Nat]
                                          /\ tenants[t].limit \in [Resource -> Nat]
  BY Zenon DEF QuotaInv, SyncInv, Agrees
<1>4. QED  BY <1>1, <1>2, <1>3, Zenon DEF ManagerTypeOK

-----------------------------------------------------------------------------
(* The noisy-neighbour detector. *)

Sample == [cores : Int, age : 0 .. Window + 1]
Samples == Seq(Sample)
FlagAge == 0 .. Expired \cup {NoFlag}

LEMMA MinOfNat ==
  ASSUME NEW S \in SUBSET Nat, S # {}
  PROVE  Min(S) \in S
<1>1. \E x \in S : \A y \in S : ~(<<y, x>> \in OpToRel(<, Nat))
  BY WFMin, NatLessThanWellFounded, Zenon
<1>2. \A x, y \in Nat : y < x => <<y, x>> \in OpToRel(<, Nat)
  BY Zenon DEF OpToRel
<1>3. \E x \in S : \A y \in S : x <= y
  <2>1. PICK x \in S : \A y \in S : ~(<<y, x>> \in OpToRel(<, Nat))
    BY <1>1, Zenon
  <2>2. \A y \in S : ~(y < x)
    BY <1>2, <2>1, Zenon
  <2>3. QED  BY <2>2
<1>4. QED  BY <1>3, Zenon DEF Min

LEMMA LaterAge ==
  ASSUME NEW max \in Nat, NEW x \in 0 .. max \cup {NoFlag}
  PROVE  /\ x = NoFlag => Later(x, max) = NoFlag
         /\ x # NoFlag => Later(x, max) = IF x < max THEN x + 1 ELSE max
<1>1. CASE x = NoFlag
  BY <1>1, Zenon DEF Later
<1>2. CASE x # NoFlag
  <2>1. x \in Nat /\ x + 1 \in Int
    BY <1>2
  <2>2. \E z \in {x + 1, max} : \A t \in {x + 1, max} : z <= t
    BY <2>1
  <2>3. Min({x + 1, max}) \in {x + 1, max} /\ Min({x + 1, max}) <= x + 1 /\ Min({x + 1, max}) <= max
    BY <2>2, Zenon DEF Min
  <2>4. QED  BY <1>2, <2>1, <2>3 DEF Later
<1>3. QED  BY <1>1, <1>2, Zenon

LEMMA LastNType ==
  ASSUME NEW S, NEW s \in Seq(S), NEW n \in Nat
  PROVE  LastN(s, n) \in Seq(S)
<1>1. CASE Len(s) > n
  <2>1. Len(s) \in Nat /\ Len(s) - n + 1 \in Int
    OBVIOUS
  <2>2. \A i \in Len(s) - n + 1 .. Len(s) : s[i] \in S
    BY <1>1, <2>1
  <2>3. SubSeq(s, Len(s) - n + 1, Len(s)) \in Seq(S)
    BY <2>1, <2>2
  <2>4. QED  BY <1>1, <2>3, Zenon DEF LastN
<1>2. CASE ~(Len(s) > n)
  BY <1>2, Zenon DEF LastN
<1>3. QED  BY <1>1, <1>2, Zenon

\* A usage that grew by the detector's measure exceeds a sample of the window
\* by more than half.
LEMMA GrewIsGrowth ==
  ASSUME NEW h \in Samples, Grew(h)
  PROVE  \E i \in Recent(h) : 2 * h[Len(h)].cores > 3 * h[i].cores
<1> DEFINE i == Min(Recent(h))
<1>1. Len(h) \in Nat /\ Len(h) >= 2 /\ \A j \in 1 .. Len(h) : h[j].cores \in Int
  <2>1. h \in Seq(Sample)
    BY Zenon DEF Samples
  <2>2. Len(h) \in Nat /\ \A j \in 1 .. Len(h) : h[j] \in Sample
    BY <2>1
  <2>3. Len(h) >= 2
    BY Zenon DEF Grew
  <2>4. QED  BY <2>2, <2>3, Zenon DEF Sample
<1>2. i \in Recent(h) /\ i \in 1 .. Len(h)
  <2>1. Recent(h) \subseteq 1 .. Len(h) /\ Recent(h) # {}
    BY Zenon DEF Recent, Grew
  <2>2. Recent(h) \in SUBSET Nat
    BY <1>1, <2>1
  <2>3. QED  BY <2>1, <2>2, MinOfNat, Zenon
<1>3. 2 * (h[Len(h)].cores - h[i].cores) > h[i].cores
  BY Zenon DEF Grew
<1> HIDE DEF i
<1>4. h[Len(h)].cores \in Int /\ h[i].cores \in Int
  BY <1>1, <1>2
<1>5. 2 * h[Len(h)].cores > 3 * h[i].cores
  BY <1>3, <1>4, SMTT(30)
<1>6. QED  BY <1>2, <1>5, Zenon

FlagTypes ==
  /\ history \in [Watched -> Samples]
  /\ noisy \in [Watched -> FlagAge]
  /\ victims \in [Watched -> FlagAge]
  /\ rose \in [Watched -> 0 .. Expired]

\* Growth was seen when a flag was set or later, and a victim's flag is no
\* younger than the flag of some other tenant.
FlagInv ==
  /\ FlagTypes
  /\ \A t \in Watched : Flagged(noisy[t]) => rose[t] <= noisy[t]
  /\ \A t \in Watched : Flagged(victims[t]) =>
       \E a \in Watched \ {t} : noisy[a] # NoFlag /\ noisy[a] <= victims[t]

LEMMA FlagStart == DetectorInit => FlagInv
<1> SUFFICES ASSUME DetectorInit PROVE FlagInv
  BY Zenon
<1>1. Expired \in Nat /\ <<>> \in Samples
  BY DetectorAssumption DEF Expired, Samples
<1>2. QED
  BY <1>1 DEF DetectorInit, FlagInv, FlagTypes, FlagAge, Flagged

LEMMA RecordKeeps ==
  ASSUME FlagInv, NEW t \in Watched, NEW c \in Cores[t], RecordUsage(t, c)
  PROVE  FlagInv'
<1>1. UNCHANGED <<noisy, victims, rose>>
  BY Zenon DEF RecordUsage
<1>2. history' \in [Watched -> Samples]
  <2>1. [cores |-> c, age |-> 0] \in Sample
    BY DetectorAssumption DEF Sample
  <2>2. history[t] \in Seq(Sample)
    BY Zenon DEF FlagInv, FlagTypes, Samples
  <2>3. Append(history[t], [cores |-> c, age |-> 0]) \in Seq(Sample)
    BY <2>1, <2>2
  <2>4. LastN(Append(history[t], [cores |-> c, age |-> 0]), MaxHist) \in Samples
    BY <2>3, LastNType, DetectorAssumption, Zenon DEF Samples
  <2>5. QED  BY <2>4, Zenon DEF RecordUsage, FlagInv, FlagTypes
<1>3. QED
  BY <1>1, <1>2, Zenon DEF FlagInv, FlagTypes, Flagged

LEMMA DetectKeeps == FlagInv /\ Detect => FlagInv'
<1> SUFFICES ASSUME FlagInv, Detect PROVE FlagInv'
  BY Zenon
<1> DEFINE relevant(a) == Starved \ {a}
           aggressors  == {a \in Watched : Grew(history[a]) /\ relevant(a) # {}}
           grown       == {a \in Watched : \E i \in Recent(history[a]) :
                             2 * history[a][Len(history[a])].cores > 3 * history[a][i].cores}
<1>1. /\ noisy' = [t \in Watched |-> IF t \in aggressors THEN 0 ELSE noisy[t]]
      /\ victims' = [t \in Watched |-> IF \E a \in aggressors : t \in relevant(a) THEN 0 ELSE victims[t]]
      /\ rose' = [t \in Watched |-> IF t \in grown /\ relevant(t) # {} THEN 0 ELSE rose[t]]
      /\ history' = history
  BY ZenonT(30) DEF Detect
<1>2. \A a \in aggressors : a \in grown /\ relevant(a) # {}
  BY GrewIsGrowth, Zenon DEF FlagInv, FlagTypes
<1>3. aggressors \subseteq Watched /\ \A a : a \notin relevant(a)
  BY Zenon
<1> HIDE DEF relevant, aggressors, grown
<1>4. Expired \in Nat
  BY DetectorAssumption DEF Expired
<1>5. FlagTypes'
  BY <1>1, <1>4 DEF FlagInv, FlagTypes, FlagAge
<1>6. ASSUME NEW t \in Watched, Flagged(noisy'[t])
      PROVE  rose'[t] <= noisy'[t]
  <2>1. CASE t \in aggressors
    BY <1>1, <1>2, <2>1
  <2>2. CASE t \notin aggressors
    <3>1. noisy'[t] = noisy[t] /\ noisy[t] \in Nat /\ rose[t] <= noisy[t]
      BY <1>1, <1>4, <1>6, <2>2 DEF FlagInv, FlagTypes, FlagAge, Flagged
    <3>2. QED  BY <1>1, <3>1
  <2>3. QED  BY <2>1, <2>2, Zenon
<1>7. ASSUME NEW t \in Watched, Flagged(victims'[t])
      PROVE  \E a \in Watched \ {t} : noisy'[a] # NoFlag /\ noisy'[a] <= victims'[t]
  <2>1. CASE \E a \in aggressors : t \in relevant(a)
    <3>1. PICK a \in aggressors : t \in relevant(a)
      BY <2>1, Zenon
    <3>2. a \in Watched \ {t} /\ noisy'[a] = 0 /\ victims'[t] = 0
      BY <1>1, <1>3, <3>1, Zenon
    <3>3. QED  BY <3>2, DetectorAssumption
  <2>2. CASE ~\E a \in aggressors : t \in relevant(a)
    <3>1. victims'[t] = victims[t] /\ Flagged(victims[t])
      BY <1>1, <1>7, <2>2, Zenon DEF Flagged
    <3>2. PICK a \in Watched \ {t} : noisy[a] # NoFlag /\ noisy[a] <= victims[t]
      BY <3>1, Zenon DEF FlagInv
    <3>3. victims[t] \in Nat
      BY <1>4, <3>1 DEF FlagInv, FlagTypes, FlagAge, Flagged
    <3>4. noisy'[a] # NoFlag /\ noisy'[a] <= victims[t]
      BY <1>1, <3>2, <3>3, DetectorAssumption
    <3>5. QED  BY <3>1, <3>4, Zenon
  <2>3. QED  BY <2>1, <2>2, Zenon
<1>8. QED
  BY <1>5, <1>6, <1>7, Zenon DEF FlagInv

LEMMA ReadKeeps ==
  ASSUME FlagInv, NEW t \in Watched, IsNoisy(t) \/ IsVictim(t)
  PROVE  FlagInv'
<1>0. Expired \in Nat /\ 2 * Window \in Nat
  BY DetectorAssumption DEF Expired
<1>1. CASE IsNoisy(t)
  <2>1. /\ noisy' = [noisy EXCEPT ![t] = IF Flagged(noisy[t]) THEN noisy[t] ELSE NoFlag]
        /\ UNCHANGED <<history, victims, rose>>
    BY <1>1, Zenon DEF IsNoisy
  <2>2. FlagTypes'
    BY <2>1, Zenon DEF FlagInv, FlagTypes, FlagAge
  <2>3. \A u \in Watched : /\ Flagged(noisy[u]) => noisy'[u] = noisy[u]
                           /\ noisy'[u] = noisy[u] \/ noisy'[u] = NoFlag
    BY <2>1, Zenon DEF FlagInv, FlagTypes
  <2>4. ASSUME NEW u \in Watched, Flagged(noisy'[u])
        PROVE  rose'[u] <= noisy'[u]
    BY <2>1, <2>3, <2>4, Zenon DEF FlagInv, Flagged
  <2>5. ASSUME NEW u \in Watched, Flagged(victims[u])
        PROVE  \E a \in Watched \ {u} : noisy'[a] # NoFlag /\ noisy'[a] <= victims[u]
    <3>1. PICK a \in Watched \ {u} : noisy[a] # NoFlag /\ noisy[a] <= victims[u]
      BY <2>5, Zenon DEF FlagInv
    <3>2. noisy[a] \in Nat /\ victims[u] \in Nat /\ victims[u] <= 2 * Window
      BY <1>0, <2>5, <3>1 DEF FlagInv, FlagTypes, FlagAge, Flagged
    <3>3. Flagged(noisy[a])
      BY <1>0, <3>1, <3>2 DEF Flagged
    <3>4. QED  BY <2>3, <3>1, <3>3, Zenon
  <2>6. QED  BY <2>1, <2>2, <2>4, <2>5, Zenon DEF FlagInv
<1>2. CASE IsVictim(t)
  <2>1. /\ victims' = [victims EXCEPT ![t] = IF Flagged(victims[t]) THEN victims[t] ELSE NoFlag]
        /\ UNCHANGED <<history, noisy, rose>>
    BY <1>2, Zenon DEF IsVictim
  <2>2. FlagTypes'
    BY <2>1, Zenon DEF FlagInv, FlagTypes, FlagAge
  <2>3. \A u \in Watched : Flagged(victims'[u]) => victims'[u] = victims[u]
    BY <2>1, Zenon DEF FlagInv, FlagTypes, Flagged
  <2>4. QED  BY <2>1, <2>2, <2>3, Zenon DEF FlagInv
<1>3. QED  BY <1>1, <1>2, Zenon

LEMMA ClockKeeps == FlagInv /\ ClockTick => FlagInv'
<1> SUFFICES ASSUME FlagInv, ClockTick PROVE FlagInv'
  BY Zenon
<1>0. Expired \in Nat /\ Expired = 2 * Window + 1 /\ Window \in Nat /\ Window + 1 \in Nat
  BY DetectorAssumption DEF Expired
<1>1. \A x \in FlagAge : \/ x = NoFlag /\ Later(x, Expired) = NoFlag
                         \/ /\ x \in 0 .. Expired /\ x # NoFlag
                            /\ Later(x, Expired) = IF x < Expired THEN x + 1 ELSE Expired
  BY <1>0, LaterAge, Zenon DEF FlagAge
<1>2. \A t \in Watched : /\ noisy'[t] = Later(noisy[t], Expired) /\ noisy[t] \in FlagAge
                         /\ victims'[t] = Later(victims[t], Expired) /\ victims[t] \in FlagAge
                         /\ rose'[t] = Later(rose[t], Expired) /\ rose[t] \in FlagAge
                         /\ rose[t] \in 0 .. Expired /\ rose[t] # NoFlag
  BY DetectorAssumption DEF ClockTick, FlagInv, FlagTypes, FlagAge
<1>3. history' \in [Watched -> Samples]
  <2>1. ASSUME NEW x \in Sample
        PROVE  [x EXCEPT !.age = Later(@, Window + 1)] \in Sample
    <3>1. Later(x.age, Window + 1) \in 0 .. Window + 1
      BY <1>0, LaterAge, DetectorAssumption DEF Sample
    <3>2. QED  BY <3>1, Zenon DEF Sample
  <2>2. ASSUME NEW h \in Samples
        PROVE  [i \in DOMAIN h |-> [h[i] EXCEPT !.age = Later(@, Window + 1)]] \in Samples
    <3> DEFINE aged(x) == [x EXCEPT !.age = Later(@, Window + 1)]
    <3>1. Len(h) \in Nat /\ DOMAIN h = 1 .. Len(h) /\ \A i \in DOMAIN h : aged(h[i]) \in Sample
      BY <2>1 DEF Samples
    <3> HIDE DEF aged
    <3>2. [i \in 1 .. Len(h) |-> aged(h[i])] \in Seq(Sample)
      BY <3>1
    <3>3. QED  BY <3>1, <3>2, Zenon DEF Samples, aged
  <2>3. QED  BY <2>2, Zenon DEF ClockTick, FlagInv, FlagTypes
<1>4. FlagTypes'
  <2>1. \A t \in Watched : noisy'[t] \in FlagAge /\ victims'[t] \in FlagAge /\ rose'[t] \in 0 .. Expired
    <3>1. \A x \in FlagAge : Later(x, Expired) \in FlagAge /\ (x # NoFlag => Later(x, Expired) \in 0 .. Expired)
      BY <1>0, <1>1 DEF FlagAge
    <3>2. QED  BY <1>2, <3>1, Zenon
  <2>2. QED  BY <1>3, <2>1, Zenon DEF ClockTick, FlagTypes
<1>5. ASSUME NEW t \in Watched, Flagged(noisy'[t])
      PROVE  rose'[t] <= noisy'[t]
  <2>0. noisy'[t] # NoFlag /\ noisy'[t] <= 2 * Window
    BY <1>5, Zenon DEF Flagged
  <2>1. noisy[t] \in 0 .. Expired /\ noisy[t] # NoFlag /\ noisy[t] < Expired /\ noisy'[t] = noisy[t] + 1
    <3>1. /\ noisy[t] \in 0 .. Expired /\ noisy[t] # NoFlag
          /\ noisy'[t] = IF noisy[t] < Expired THEN noisy[t] + 1 ELSE Expired
      BY <1>1, <1>2, <2>0, Zenon
    <3>2. QED  BY <1>0, <2>0, <3>1
  <2>2. Flagged(noisy[t])
    BY <1>0, <2>1 DEF Flagged
  <2>3. rose[t] <= noisy[t]
    BY <2>2, Zenon DEF FlagInv
  <2>4. rose[t] \in 0 .. Expired /\ rose'[t] = IF rose[t] < Expired THEN rose[t] + 1 ELSE Expired
    BY <1>1, <1>2, Zenon
  <2>5. QED  BY <1>0, <2>1, <2>3, <2>4
<1>6. ASSUME NEW t \in Watched, Flagged(victims'[t])
      PROVE  \E a \in Watched \ {t} : noisy'[a] # NoFlag /\ noisy'[a] <= victims'[t]
  <2>0. victims'[t] # NoFlag /\ victims'[t] <= 2 * Window
    BY <1>6, Zenon DEF Flagged
  <2>1. /\ victims[t] \in 0 .. Expired /\ victims[t] # NoFlag /\ victims[t] < Expired
        /\ victims'[t] = victims[t] + 1
    <3>1. /\ victims[t] \in 0 .. Expired /\ victims[t] # NoFlag
          /\ victims'[t] = IF victims[t] < Expired THEN victims[t] + 1 ELSE Expired
      BY <1>1, <1>2, <2>0, Zenon
    <3>2. QED  BY <1>0, <2>0, <3>1
  <2>2. PICK a \in Watched \ {t} : noisy[a] # NoFlag /\ noisy[a] <= victims[t]
    <3>1. Flagged(victims[t])
      BY <1>0, <2>1 DEF Flagged
    <3>2. QED  BY <3>1, Zenon DEF FlagInv
  <2>3. noisy[a] \in 0 .. Expired /\ noisy'[a] = IF noisy[a] < Expired THEN noisy[a] + 1 ELSE Expired
    BY <1>1, <1>2, <2>2, Zenon
  <2>4. QED  BY <1>0, <2>1, <2>2, <2>3, DetectorAssumption, SMTT(30)
<1>7. QED
  BY <1>4, <1>5, <1>6, Zenon DEF FlagInv

\* The last n entries of a sequence.
LEMMA LastNEntries ==
  ASSUME NEW S, NEW s \in Seq(S), NEW n \in Nat
  PROVE  /\ LastN(s, n) \in Seq(S) /\ Len(LastN(s, n)) <= n
         /\ Len(LastN(s, n)) <= Len(s) /\ Len(LastN(s, n)) \in Nat
         /\ \A i \in 1 .. Len(LastN(s, n)) : LastN(s, n)[i] = s[i + Len(s) - Len(LastN(s, n))]
<1>0. Len(s) \in Nat
  OBVIOUS
<1>1. CASE Len(s) > n
  <2>1. LastN(s, n) = SubSeq(s, Len(s) - n + 1, Len(s))
    BY <1>1, Zenon DEF LastN
  <2>2. /\ Len(SubSeq(s, Len(s) - n + 1, Len(s))) = n
        /\ \A i \in 1 .. n : SubSeq(s, Len(s) - n + 1, Len(s))[i] = s[i + Len(s) - n]
    BY <1>0, <1>1
  <2>3. LastN(s, n) \in Seq(S)
    BY LastNType, Zenon
  <2>4. Len(LastN(s, n)) = n /\ \A i \in 1 .. n : LastN(s, n)[i] = s[i + Len(s) - n]
    BY <2>1, <2>2, Zenon
  <2>5. QED  BY <1>0, <1>1, <2>3, <2>4
<1>2. CASE ~(Len(s) > n)
  BY <1>0, <1>2 DEF LastN
<1>3. QED  BY <1>1, <1>2, Zenon

\* A tenant's samples are in the order of time, and there are at most MaxHist.
Ordered(h) == \A i \in 1 .. Len(h) - 1 : h[i].age >= h[i + 1].age

Alert == [aggressor : Watched, victims : SUBSET Watched]

HistoryInv ==
  /\ \A t \in Watched : Ordered(history[t]) /\ Len(history[t]) <= MaxHist
  /\ alerts \in Seq(Alert) /\ Len(alerts) <= MaxAlert

LEMMA HistoryStart == DetectorInit => HistoryInv
  BY DetectorAssumption DEF DetectorInit, HistoryInv, Ordered

LEMMA HistoryStep == FlagInv /\ HistoryInv /\ DetectorNext => HistoryInv'
<1> SUFFICES ASSUME FlagInv, HistoryInv, DetectorNext PROVE HistoryInv'
  BY Zenon
<1>1. ASSUME NEW t \in Watched, NEW c \in Cores[t], RecordUsage(t, c) PROVE HistoryInv'
  <2> DEFINE h == history[t]
             x == [cores |-> c, age |-> 0]
             a == Append(h, x)
             l == LastN(a, MaxHist)
  <2>1. h \in Seq(Sample) /\ x \in Sample
    <3>1. h \in Seq(Sample)
      BY Zenon DEF FlagInv, FlagTypes, Samples
    <3>2. c \in Int /\ 0 \in 0 .. Window + 1
      BY DetectorAssumption
    <3>3. QED  BY <3>1, <3>2, Zenon DEF Sample
  <2>2. /\ a \in Seq(Sample) /\ Len(a) = Len(h) + 1 /\ a[Len(h) + 1] = x
        /\ Len(h) \in Nat /\ \A i \in 1 .. Len(h) : a[i] = h[i] /\ h[i].age \in Nat
    <3>1. \A i \in 1 .. Len(h) : h[i] \in Sample
      BY <2>1
    <3>2. \A y \in Sample : y.age \in Nat
      BY DetectorAssumption DEF Sample
    <3> HIDE DEF h, x
    <3>3. QED  BY <2>1, <3>1, <3>2
  <2>3. Ordered(a)
    <3>1. x.age = 0 /\ Ordered(h)
      BY Zenon DEF HistoryInv
    <3> HIDE DEF a, h, x
    <3>2. QED  BY <2>2, <3>1, SMTT(30) DEF Ordered
  <2> HIDE DEF a
  <2>4. Ordered(l) /\ Len(l) <= MaxHist
    <3>1. /\ Len(l) <= MaxHist /\ Len(l) <= Len(a) /\ Len(l) \in Nat /\ Len(a) \in Nat
          /\ \A i \in 1 .. Len(l) : l[i] = a[i + Len(a) - Len(l)]
      <4>1. a \in Seq(Sample) /\ MaxHist \in Nat
        BY <2>2, DetectorAssumption, Zenon
      <4>2. QED  BY <4>1, LastNEntries
    <3> HIDE DEF l
    <3>2. ASSUME NEW i \in 1 .. Len(l) - 1
          PROVE  l[i].age >= l[i + 1].age
      <4> DEFINE j == i + Len(a) - Len(l)
      <4>1. j \in 1 .. Len(a) - 1 /\ l[i] = a[j] /\ i + 1 \in 1 .. Len(l) /\ (i + 1) + Len(a) - Len(l) = j + 1
        BY <3>1
      <4>2. l[i + 1] = a[j + 1]
        BY <3>1, <4>1
      <4>3. QED  BY <2>3, <4>1, <4>2, Zenon DEF Ordered
    <3>3. QED  BY <3>1, <3>2, Zenon DEF Ordered
  <2>5. history' = [history EXCEPT ![t] = l] /\ alerts' = alerts
    BY <1>1, Zenon DEF RecordUsage, a
  <2> HIDE DEF l
  <2>6. QED  BY <2>4, <2>5, Zenon DEF HistoryInv, FlagInv, FlagTypes
<1>2. CASE Detect
  <2> DEFINE relevant(a) == Starved \ {a}
             aggressors  == {a \in Watched : Grew(history[a]) /\ relevant(a) # {}}
  <2>1. history' = history
    BY <1>2, Zenon DEF Detect
  <2>2. PICK order \in [1 .. Cardinality(aggressors) -> aggressors] :
          alerts' = LastN(alerts \o [i \in DOMAIN order |->
                            [aggressor |-> order[i], victims |-> relevant(order[i])]], MaxAlert)
    BY <1>2, Zenon DEF Detect
  <2>3. Cardinality(aggressors) \in Nat /\ aggressors \subseteq Watched
    <3>1. aggressors \subseteq Watched
      BY Zenon
    <3> HIDE DEF aggressors
    <3>2. QED  BY <3>1, DetectorAssumption, FS_Subset, FS_CardinalityType, Zenon
  <2> HIDE DEF aggressors
  <2> DEFINE new == [i \in 1 .. Cardinality(aggressors) |->
                       [aggressor |-> order[i], victims |-> relevant(order[i])]]
  <2>4. new \in Seq(Alert)
    <3>1. \A i \in 1 .. Cardinality(aggressors) :
            [aggressor |-> order[i], victims |-> relevant(order[i])] \in Alert
      BY <2>3, Zenon DEF Alert, Starved
    <3>2. QED  BY <2>3, <3>1
  <2>5. alerts' = LastN(alerts \o new, MaxAlert)
    BY <2>2, Zenon
  <2> HIDE DEF new
  <2>6. alerts \o new \in Seq(Alert)
    BY <2>4 DEF HistoryInv
  <2>7. alerts' \in Seq(Alert) /\ Len(alerts') <= MaxAlert
    BY <2>5, <2>6, LastNEntries, DetectorAssumption, Zenon
  <2>8. QED  BY <2>1, <2>7, Zenon DEF HistoryInv
<1>3. ASSUME NEW t \in Watched, IsNoisy(t) \/ IsVictim(t) PROVE HistoryInv'
  BY <1>3, Zenon DEF IsNoisy, IsVictim, HistoryInv
<1>4. CASE ClockTick
  <2>1. ASSUME NEW t \in Watched
        PROVE  Ordered(history'[t]) /\ Len(history'[t]) <= MaxHist
    <3> DEFINE h == history[t]
               g == [i \in DOMAIN h |-> [h[i] EXCEPT !.age = Later(@, Window + 1)]]
    <3>1. history'[t] = g /\ h \in Seq(Sample) /\ Ordered(h) /\ Len(h) <= MaxHist
      BY <1>4, Zenon DEF ClockTick, HistoryInv, FlagInv, FlagTypes, Samples
    <3> HIDE DEF h
    <3>2. DOMAIN h = 1 .. Len(h) /\ Len(h) \in Nat
      BY <3>1
    <3>3. Len(g) = Len(h)
      BY <3>2
    <3>4. \A i \in 1 .. Len(h) :
            h[i].age \in 0 .. Window + 1 /\ g[i].age = IF h[i].age < Window + 1 THEN h[i].age + 1 ELSE Window + 1
      <4>1. ASSUME NEW i \in 1 .. Len(h)
            PROVE  h[i].age \in 0 .. Window + 1 /\ g[i].age = Later(h[i].age, Window + 1)
        <5>1. h[i] \in Sample /\ g[i] = [h[i] EXCEPT !.age = Later(@, Window + 1)]
          BY <3>1, <3>2
        <5> HIDE DEF g
        <5>2. QED  BY <5>1, Zenon DEF Sample
      <4>2. \A x \in 0 .. Window + 1 : Later(x, Window + 1) = IF x < Window + 1 THEN x + 1 ELSE Window + 1
        BY LaterAge, DetectorAssumption
      <4> HIDE DEF g
      <4>3. QED  BY <4>1, <4>2, Zenon
    <3> HIDE DEF g
    <3>5. Ordered(g)
      <4>1. ASSUME NEW i \in 1 .. Len(g) - 1
            PROVE  g[i].age >= g[i + 1].age
        <5>1. i \in 1 .. Len(h) /\ i + 1 \in 1 .. Len(h) /\ h[i].age >= h[i + 1].age
          BY <3>1, <3>2, <3>3, <4>1 DEF Ordered
        <5>2. \A x, y \in 0 .. Window + 1 :
                x >= y => (IF x < Window + 1 THEN x + 1 ELSE Window + 1)
                            >= (IF y < Window + 1 THEN y + 1 ELSE Window + 1)
          BY DetectorAssumption
        <5>3. QED  BY <3>4, <5>1, <5>2, Zenon
      <4>2. QED  BY <4>1, Zenon DEF Ordered
    <3>6. QED  BY <3>1, <3>3, <3>5, Zenon
  <2>2. alerts' = alerts
    BY <1>4, Zenon DEF ClockTick
  <2>3. QED  BY <2>1, <2>2, Zenon DEF HistoryInv
<1>5. QED
  BY <1>1, <1>2, <1>3, <1>4, Zenon DEF DetectorNext

LEMMA DetectorTypes == FlagInv /\ HistoryInv => DetectorTypeOK
  BY Zenon DEF FlagInv, FlagTypes, FlagAge, HistoryInv, Ordered, DetectorTypeOK

-----------------------------------------------------------------------------
(* The forecast client. *)

\* A set of natural numbers that is not empty has a least element.
LEMMA LeastCase ==
  ASSUME NEW N \in SUBSET Nat, N # {}
  PROVE  \E x \in N : \A y \in N : x <= y
<1>1. PICK x \in N : \A y \in N : ~(<<y, x>> \in OpToRel(<, Nat))
  BY WFMin, NatLessThanWellFounded, Zenon
<1>2. \A a, b \in Nat : b < a => <<b, a>> \in OpToRel(<, Nat)
  BY Zenon DEF OpToRel
<1>3. \A y \in N : ~(y < x)
  BY <1>1, <1>2, Zenon
<1>4. QED  BY <1>3

LEMMA MinPair ==
  ASSUME NEW x \in Int, NEW y \in Int
  PROVE  Min({x, y}) = IF x <= y THEN x ELSE y
<1>1. \E z \in {x, y} : \A t \in {x, y} : z <= t
  OBVIOUS
<1>2. Min({x, y}) \in {x, y} /\ Min({x, y}) <= x /\ Min({x, y}) <= y
  BY <1>1, Zenon DEF Min
<1>3. QED  BY <1>2

\* The lists that the loop of Within builds up over the first n ages.
KeptUpTo(f, ages, limit, n) ==
  /\ f \in [0 .. n -> Seq(Int)]
  /\ f[0] = <<>>
  /\ \A i \in 1 .. n : f[i] = IF ages[i] < limit THEN Append(f[i - 1], ages[i]) ELSE f[i - 1]

\* The loop of Within computes such lists (recordError); by the least number of
\* ages for which there would be none.
LEMMA KeptExists ==
  ASSUME NEW ages \in Seq(Int), NEW limit \in Int, NEW n \in 0 .. Len(ages)
  PROVE  \E f : KeptUpTo(f, ages, limit, n)
<1> DEFINE Fails == {k \in 0 .. Len(ages) : ~\E f : KeptUpTo(f, ages, limit, k)}
<1> SUFFICES ASSUME Fails # {} PROVE FALSE
  BY Zenon
<1>1. Fails \in SUBSET Nat
  OBVIOUS
<1> HIDE DEF Fails
<1>2. PICK k \in Fails : \A j \in Fails : k <= j
  BY <1>1, LeastCase, Zenon
<1>3. k \in 0 .. Len(ages) /\ ~\E f : KeptUpTo(f, ages, limit, k)
  BY Zenon DEF Fails
<1>4. CASE k = 0
  <2> DEFINE f == [i \in 0 .. 0 |-> <<>>]
  <2>1. f \in [0 .. 0 -> Seq(Int)] /\ f[0] = <<>>
    OBVIOUS
  <2> HIDE DEF f
  <2>2. KeptUpTo(f, ages, limit, 0)
    BY <2>1 DEF KeptUpTo
  <2>3. QED  BY <1>3, <1>4, <2>2, Zenon
<1>5. CASE k # 0
  <2>1. k - 1 \in 0 .. Len(ages) /\ k - 1 \notin Fails /\ k \in Nat
    BY <1>2, <1>3, <1>5, <1>1
  <2>2. PICK f : KeptUpTo(f, ages, limit, k - 1)
    BY <2>1, Zenon DEF Fails
  <2> DEFINE last == IF ages[k] < limit THEN Append(f[k - 1], ages[k]) ELSE f[k - 1]
             g == [i \in 0 .. k |-> IF i = k THEN last ELSE f[i]]
  <2>3. ages[k] \in Int /\ f[k - 1] \in Seq(Int) /\ last \in Seq(Int)
    BY <1>3, <1>5, <2>1, <2>2, SMTT(30) DEF KeptUpTo
  <2>4. g \in [0 .. k -> Seq(Int)] /\ g[0] = <<>>
    BY <1>5, <2>1, <2>2, <2>3 DEF KeptUpTo
  <2>5. ASSUME NEW i \in 1 .. k
        PROVE  g[i] = IF ages[i] < limit THEN Append(g[i - 1], ages[i]) ELSE g[i - 1]
    <3>1. i \in 0 .. k /\ i - 1 \in 0 .. k /\ i - 1 # k
      BY <2>1
    <3>2. g[i] = (IF i = k THEN last ELSE f[i]) /\ g[i - 1] = f[i - 1]
      BY <3>1, Zenon
    <3>3. CASE i = k
      BY <3>2, <3>3, Zenon
    <3>4. CASE i # k
      <4>1. i \in 1 .. k - 1
        BY <2>1, <3>4
      <4>2. f[i] = IF ages[i] < limit THEN Append(f[i - 1], ages[i]) ELSE f[i - 1]
        BY <2>2, <4>1, Zenon DEF KeptUpTo
      <4>3. QED  BY <3>2, <3>4, <4>2, Zenon
    <3>5. QED  BY <3>3, <3>4, Zenon
  <2> HIDE DEF g
  <2>6. KeptUpTo(g, ages, limit, k)
    BY <2>4, <2>5, Zenon DEF KeptUpTo
  <2>7. QED  BY <1>3, <2>6, Zenon
<1>6. QED  BY <1>4, <1>5, Zenon

\* Within is the last of them.
LEMMA WithinIsKept ==
  ASSUME NEW ages \in Seq(Int), NEW limit \in Int
  PROVE  \E f : KeptUpTo(f, ages, limit, Len(ages)) /\ Within(ages, limit) = f[Len(ages)]
<1> DEFINE L == Len(ages)
           Rec(f) == f = [n \in 0 .. L |-> IF n = 0 THEN <<>>
                            ELSE IF ages[n] < limit THEN Append(f[n - 1], ages[n]) ELSE f[n - 1]]
           kept == CHOOSE f : Rec(f)
<1>0. L \in Nat
  OBVIOUS
<1>1. \E f : Rec(f)
  <2>1. PICK f : KeptUpTo(f, ages, limit, L)
    BY <1>0, KeptExists
  <2>2. \A n \in 0 .. L : f[n] = IF n = 0 THEN <<>>
                               ELSE IF ages[n] < limit THEN Append(f[n - 1], ages[n]) ELSE f[n - 1]
    <3> TAKE n \in 0 .. L
    <3>1. n = 0 \/ n \in 1 .. L
      BY <1>0
    <3>2. QED  BY <2>1, <3>1, Zenon DEF KeptUpTo
  <2>2a. f = [n \in 0 .. L |-> f[n]]
    BY <2>1, Zenon DEF KeptUpTo
  <2>2b. Rec(f)
    BY <2>2, <2>2a, Zenon
  <2>3. QED  BY <2>2b, Zenon
<1>2. Rec(kept)
  BY <1>1, Zenon
<1>3. Within(ages, limit) = kept[L]
  BY Zenon DEF Within
<1> HIDE DEF kept
<1>4. PICK f : KeptUpTo(f, ages, limit, L)
  BY <1>0, KeptExists
<1> DEFINE Fails == {i \in 0 .. L : kept[i] # f[i]}
<1>5. Fails = {}
  <2> SUFFICES ASSUME Fails # {} PROVE FALSE
    BY Zenon
  <2>1. PICK i \in Fails : \A j \in Fails : i <= j
    <3>1. Fails \in SUBSET Nat
      BY <1>0
    <3> HIDE DEF Fails
    <3>2. QED  BY <3>1, LeastCase, Zenon
  <2>2. i \in 0 .. L /\ kept[i] # f[i] /\ \A j \in 0 .. L : j < i => kept[j] = f[j]
    BY <2>1, <1>0
  <2>3. CASE i = 0
    BY <1>0, <1>2, <1>4, <2>2, <2>3, Zenon DEF KeptUpTo
  <2>4. CASE i # 0
    <3>1. kept[i - 1] = f[i - 1] /\ i \in 1 .. L
      BY <1>0, <2>2, <2>4, SMTT(30)
    <3>2. kept[i] = IF ages[i] < limit THEN Append(kept[i - 1], ages[i]) ELSE kept[i - 1]
      BY <1>0, <1>2, <2>2, <2>4, Zenon
    <3>3. QED  BY <1>4, <2>2, <3>1, <3>2, Zenon DEF KeptUpTo
  <2>5. QED  BY <2>3, <2>4, Zenon
<1>6. kept[L] = f[L]
  BY <1>0, <1>5
<1>7. QED  BY <1>3, <1>4, <1>6, Zenon

\* Oldest first.
Falling(ages) == \A i, j \in 1 .. Len(ages) : i <= j => ages[j] <= ages[i]

\* s is what is left of ages without the oldest ones, those that are not below
\* the limit.
IsRecent(s, ages, limit) ==
  /\ s \in Seq(Int)
  /\ Len(s) <= Len(ages)
  /\ \A i \in 1 .. Len(s) : s[i] = ages[Len(ages) - Len(s) + i] /\ s[i] < limit
  /\ \A i \in 1 .. Len(ages) - Len(s) : ages[i] >= limit

\* The loop drops the oldest of a list in the order of time.
LEMMA WithinRecent ==
  ASSUME NEW ages \in Seq(Int), NEW limit \in Int, Falling(ages)
  PROVE  IsRecent(Within(ages, limit), ages, limit)
<1> DEFINE L == Len(ages)
<1>0. L \in Nat
  OBVIOUS
<1>1. PICK f : KeptUpTo(f, ages, limit, L) /\ Within(ages, limit) = f[L]
  BY WithinIsKept, Zenon
<1> DEFINE Good(n) == /\ Len(f[n]) <= n
                      /\ \A i \in 1 .. Len(f[n]) : f[n][i] = ages[n - Len(f[n]) + i] /\ f[n][i] < limit
                      /\ \A i \in 1 .. n - Len(f[n]) : ages[i] >= limit
           Fails   == {n \in 0 .. L : ~Good(n)}
<1>2. \A n \in 0 .. L : f[n] \in Seq(Int) /\ Len(f[n]) \in Nat
  <2>1. f \in [0 .. L -> Seq(Int)]
    BY <1>1, Zenon DEF KeptUpTo
  <2>2. \A n \in 0 .. L : f[n] \in Seq(Int)
    BY <2>1, Zenon
  <2>3. QED  BY <2>2
<1>3. Good(0)
  <2>1. f[0] = <<>> /\ Len(f[0]) = 0
    BY <1>1, Zenon DEF KeptUpTo
  <2>2. QED  BY <2>1
<1>4. ASSUME NEW n \in 1 .. L, Good(n - 1) PROVE Good(n)
  <2> DEFINE s == f[n - 1]
             k == Len(s)
  <2>1. n - 1 \in 0 .. L /\ s \in Seq(Int) /\ k \in Nat /\ n \in Nat /\ ages[n] \in Int
    BY <1>0, <1>2
  <2>2. /\ k <= n - 1
        /\ \A i \in 1 .. k : s[i] = ages[(n - 1) - k + i] /\ s[i] < limit
        /\ \A i \in 1 .. (n - 1) - k : ages[i] >= limit
    BY <1>4, Zenon
  <2>3. f[n] = IF ages[n] < limit THEN Append(s, ages[n]) ELSE s
    BY <1>1, Zenon DEF KeptUpTo
  <2> HIDE DEF s
  <2>4. CASE ages[n] < limit
    <3>1. /\ f[n] = Append(s, ages[n]) /\ Len(f[n]) = k + 1
          /\ \A i \in 1 .. k : f[n][i] = s[i]
          /\ f[n][k + 1] = ages[n]
      BY <2>1, <2>3, <2>4
    <3>2. \A i \in 1 .. k + 1 : f[n][i] = ages[n - (k + 1) + i] /\ f[n][i] < limit
      <4> SUFFICES ASSUME NEW i \in 1 .. k + 1
                   PROVE  f[n][i] = ages[n - (k + 1) + i] /\ f[n][i] < limit
        BY Zenon
      <4>1. CASE i = k + 1
        <5>1. n - (k + 1) + i = n
          BY <2>1, <4>1, SMTT(30)
        <5>2. QED  BY <2>4, <3>1, <4>1, <5>1, Zenon
      <4>2. CASE i \in 1 .. k
        BY <2>1, <2>2, <3>1, <4>2
      <4>3. i = k + 1 \/ i \in 1 .. k
        BY <2>1, SMTT(30)
      <4>4. QED  BY <4>1, <4>2, <4>3, Zenon
    <3>3. \A i \in 1 .. n - (k + 1) : ages[i] >= limit
      BY <2>1, <2>2
    <3>4. QED  BY <2>1, <2>2, <3>1, <3>2, <3>3, SMTT(30)
  <2>5. CASE ~(ages[n] < limit)
    <3>1. k = 0
      <4> SUFFICES ASSUME k > 0 PROVE FALSE
        BY <2>1
      <4>0. k \in 1 .. k /\ n - 1 \in 1 .. L /\ (n - 1) - k + k = n - 1
        BY <2>1, <2>2, <1>0
      <4>1. s[k] = ages[n - 1] /\ s[k] < limit /\ n - 1 \in 1 .. L
        BY <2>2, <4>0, Zenon
      <4>2. ages[n] <= ages[n - 1] /\ ages[n - 1] \in Int
        <5>1. n - 1 \in 1 .. Len(ages) /\ n \in 1 .. Len(ages) /\ n - 1 <= n
          BY <1>0, <2>1, <4>1
        <5>2. QED  BY <5>1, SMTT(30) DEF Falling
      <4>3. QED  BY <2>1, <2>5, <4>1, <4>2, SMTT(30)
    <3>2. Len(f[n]) = 0
      BY <2>3, <2>5, <3>1, Zenon
    <3>3. \A i \in 1 .. n : ages[i] >= limit
      BY <2>1, <2>2, <2>5, <3>1
    <3>4. QED  BY <2>1, <3>2, <3>3
  <2>6. QED  BY <2>4, <2>5, Zenon
<1>5. Fails = {}
  <2> HIDE DEF Good
  <2> SUFFICES ASSUME Fails # {} PROVE FALSE
    BY Zenon
  <2>1. PICK n \in Fails : \A j \in Fails : n <= j
    <3>1. Fails \in SUBSET Nat
      BY <1>0
    <3> HIDE DEF Fails
    <3>2. QED  BY <3>1, LeastCase, Zenon
  <2>2. n \in 0 .. L /\ ~Good(n) /\ n # 0
    BY <1>3, <2>1, Zenon
  <2>3. n - 1 \in 0 .. L /\ n - 1 \notin Fails /\ n \in 1 .. L
    BY <1>0, <2>1, <2>2
  <2>4. Good(n - 1)
    BY <2>3, Zenon
  <2>5. QED  BY <1>4, <2>2, <2>3, <2>4, Zenon
<1>6. Good(L)
  <2> HIDE DEF Good
  <2> QED  BY <1>0, <1>5
<1>7. f[L] \in Seq(Int)
  BY <1>0, <1>2
<1>8. QED  BY <1>1, <1>6, <1>7, Zenon DEF IsRecent

\* The i-th failure of f is among the errors e, which end with the same ones.
Listed(e, f, i) == Len(e) - Len(f) + i >= 1 /\ e[Len(e) - Len(f) + i] = f[i]

\* The breaker forgets a failure before its pause is over only when it opens:
\* one that is not among the errors is at least as old as the opening.
BreakerOK(e, f, open) ==
  /\ e \in Seq(Int) /\ (\A i \in 1 .. Len(e) : e[i] \in 0 .. ErrorWindow) /\ Falling(e)
  /\ f \in Seq(Int) /\ (\A i \in 1 .. Len(f) : f[i] \in 0 .. Pause - 1) /\ Falling(f)
  /\ open \in 0 .. Pause
  /\ \A i \in 1 .. Len(f) : Listed(e, f, i) \/ f[i] + open >= Pause

\* While it is closed no failure is missing.
LEMMA ClosedListed ==
  ASSUME NEW e, NEW f, BreakerOK(e, f, 0)
  PROVE  Len(f) <= Len(e) /\ \A i \in 1 .. Len(f) : Listed(e, f, i)
<1>1. ASSUME NEW i \in 1 .. Len(f) PROVE Listed(e, f, i)
  <2>1. f[i] \in 0 .. Pause - 1 /\ (Listed(e, f, i) \/ f[i] + 0 >= Pause)
    BY Zenon DEF BreakerOK
  <2>2. ASSUME f[i] \in 0 .. Pause - 1 PROVE ~(f[i] + 0 >= Pause)
    BY <2>2, ForecastAssumption
  <2>3. QED  BY <2>1, <2>2, Zenon
<1>2. Len(f) \in Nat /\ Len(e) \in Nat
  BY DEF BreakerOK
<1>3. CASE Len(f) = 0
  BY <1>1, <1>2, <1>3, SMTT(30)
<1>4. CASE Len(f) # 0
  <2>1. Listed(e, f, 1)
    BY <1>1, <1>2, <1>4
  <2>2. QED  BY <1>1, <1>2, <2>1 DEF Listed
<1>5. QED  BY <1>3, <1>4, Zenon

\* What the loop keeps is in the order of time.
LEMMA RecentFalling ==
  ASSUME NEW ages \in Seq(Int), Falling(ages), NEW limit, NEW s, IsRecent(s, ages, limit)
  PROVE  Falling(s)
<1> SUFFICES ASSUME NEW i \in 1 .. Len(s), NEW j \in 1 .. Len(s), i <= j
             PROVE  s[j] <= s[i]
  BY Zenon DEF Falling
<1> DEFINE d == Len(ages) - Len(s)
<1>1. Len(s) \in Nat /\ Len(ages) \in Nat /\ Len(s) <= Len(ages)
  <2>1. s \in Seq(Int) /\ Len(s) <= Len(ages)
    BY Zenon DEF IsRecent
  <2>2. QED  BY <2>1
<1>2. s[i] = ages[d + i] /\ s[j] = ages[d + j]
  BY Zenon DEF IsRecent
<1>3. d + i \in 1 .. Len(ages) /\ d + j \in 1 .. Len(ages) /\ d + i <= d + j
  BY <1>1, SMTT(30)
<1> HIDE DEF d
<1>4. QED  BY <1>2, <1>3, Zenon DEF Falling

\* What the loop drops is no failure of the last pause.
LEMMA RecentListed ==
  ASSUME NEW e, NEW f, NEW open, BreakerOK(e, f, open), NEW s, IsRecent(s, e, ErrorWindow),
         NEW i \in 1 .. Len(f), Listed(e, f, i)
  PROVE  Listed(s, f, i)
<1> DEFINE j == Len(e) - Len(f) + i
<1>1. Len(s) \in Nat /\ Len(e) \in Nat /\ Len(s) <= Len(e) /\ Len(f) \in Nat /\ i \in Nat /\ i <= Len(f)
  BY DEF IsRecent, BreakerOK
<1>2. j >= 1 /\ j \in Int /\ j <= Len(e) /\ e[j] = f[i] /\ e[j] < ErrorWindow /\ e[j] \in Int
  <2>1. j >= 1 /\ e[j] = f[i]
    BY Zenon DEF Listed
  <2>2. f[i] \in 0 .. Pause - 1
    BY Zenon DEF BreakerOK
  <2>3. f[i] < ErrorWindow /\ f[i] \in Int
    BY <2>2, ForecastAssumption
  <2>4. j \in Int /\ j <= Len(e)
    BY <1>1
  <2>5. QED  BY <2>1, <2>3, <2>4, Zenon
<1>3. j > Len(e) - Len(s)
  <2> SUFFICES ASSUME ~(j > Len(e) - Len(s)) PROVE FALSE
    BY Zenon
  <2>1. j \in 1 .. Len(e) - Len(s)
    BY <1>1, <1>2
  <2> HIDE DEF j
  <2>2. e[j] >= ErrorWindow
    BY <2>1, Zenon DEF IsRecent
  <2>3. QED  BY <1>2, <2>2, ForecastAssumption
<1> DEFINE k == Len(s) - Len(f) + i
<1>4. k \in 1 .. Len(s) /\ Len(e) - Len(s) + k = j
  BY <1>1, <1>3
<1>5. s[k] = e[Len(e) - Len(s) + k]
  <2> HIDE DEF k
  <2> QED  BY <1>4, Zenon DEF IsRecent
<1>6. s[k] = f[i]
  BY <1>2, <1>4, <1>5, Zenon
<1>7. QED  BY <1>4, <1>6 DEF Listed

\* A failure that happens now comes last.
LEMMA AppendZero ==
  ASSUME NEW s \in Seq(Int), NEW n \in Nat, \A i \in 1 .. Len(s) : s[i] \in 0 .. n, Falling(s)
  PROVE  LET t == Append(s, 0)
         IN  /\ t \in Seq(Int) /\ Len(t) = Len(s) + 1
             /\ \A i \in 1 .. Len(t) : t[i] \in 0 .. n
             /\ Falling(t)
             /\ t[Len(t)] = 0 /\ \A i \in 1 .. Len(s) : t[i] = s[i]
<1> DEFINE t == Append(s, 0)
<1>1. t \in Seq(Int) /\ Len(t) = Len(s) + 1 /\ t[Len(t)] = 0 /\ (\A i \in 1 .. Len(s) : t[i] = s[i]) /\ Len(s) \in Nat
  OBVIOUS
<1> HIDE DEF t
<1>2. \A i \in 1 .. Len(t) : t[i] \in 0 .. n /\ (i \in 1 .. Len(s) \/ i = Len(t))
  <2>1. \A k \in Nat : \A i \in 1 .. k + 1 : i \in 1 .. k \/ i = k + 1
    OBVIOUS
  <2>2. 0 \in 0 .. n
    OBVIOUS
  <2>3. QED  BY <1>1, <2>1, <2>2, Zenon
<1>3. Falling(t)
  <2> SUFFICES ASSUME NEW i \in 1 .. Len(t), NEW j \in 1 .. Len(t), i <= j PROVE t[j] <= t[i]
    BY Zenon DEF Falling
  <2>1. t[i] \in 0 .. n
    BY <1>2, Zenon
  <2>2. CASE j = Len(t)
    BY <1>1, <2>1, <2>2
  <2>3. CASE j # Len(t)
    <3>1. i \in 1 .. Len(s) /\ j \in 1 .. Len(s)
      BY <1>1, <2>3, SMTT(30)
    <3>2. QED  BY <1>1, <3>1, Zenon DEF Falling
  <2>4. QED  BY <2>2, <2>3, Zenon
<1>4. QED  BY <1>1, <1>2, <1>3, Zenon DEF t

\* A failure that does not open the breaker.
LEMMA FailureKept ==
  ASSUME NEW e, NEW f, NEW open, BreakerOK(e, f, open)
  PROVE  BreakerOK(Append(Within(e, ErrorWindow), 0), Append(f, 0), open)
<1> DEFINE s == Within(e, ErrorWindow)
           t == Append(s, 0)
           g == Append(f, 0)
<1>1. IsRecent(s, e, ErrorWindow)
  BY WithinRecent, ForecastAssumption DEF BreakerOK
<1> HIDE DEF s
<1>2. s \in Seq(Int) /\ Falling(s) /\ Len(s) \in Nat /\ Len(f) \in Nat
  <2>1. e \in Seq(Int) /\ Falling(e) /\ f \in Seq(Int) /\ s \in Seq(Int)
    BY <1>1, Zenon DEF BreakerOK, IsRecent
  <2>2. Falling(s)
    BY <1>1, <2>1, RecentFalling, Zenon
  <2>3. QED  BY <2>1, <2>2
<1>3. \A i \in 1 .. Len(s) : s[i] \in 0 .. ErrorWindow
  <2> TAKE i \in 1 .. Len(s)
  <2>1. Len(e) \in Nat /\ Len(s) <= Len(e) /\ Len(s) \in Nat
    BY <1>1 DEF IsRecent, BreakerOK
  <2>2. Len(e) - Len(s) + i \in 1 .. Len(e)
    BY <2>1
  <2>3. s[i] = e[Len(e) - Len(s) + i]
    BY <1>1, Zenon DEF IsRecent
  <2>4. QED  BY <2>2, <2>3, Zenon DEF BreakerOK
<1>4. /\ t \in Seq(Int) /\ Len(t) = Len(s) + 1 /\ t[Len(t)] = 0 /\ Falling(t)
      /\ (\A i \in 1 .. Len(t) : t[i] \in 0 .. ErrorWindow) /\ \A i \in 1 .. Len(s) : t[i] = s[i]
  BY <1>2, <1>3, AppendZero, ForecastAssumption, Zenon
<1>5. /\ g \in Seq(Int) /\ Len(g) = Len(f) + 1 /\ g[Len(g)] = 0 /\ Falling(g)
      /\ (\A i \in 1 .. Len(g) : g[i] \in 0 .. Pause - 1) /\ \A i \in 1 .. Len(f) : g[i] = f[i]
  <2>1. Pause - 1 \in Nat
    BY ForecastAssumption
  <2>2. QED  BY <2>1, AppendZero, Zenon DEF BreakerOK
<1> HIDE DEF t, g
<1>6. ASSUME NEW i \in 1 .. Len(g) PROVE Listed(t, g, i) \/ g[i] + open >= Pause
  <2>1. CASE i = Len(g)
    <3>1. Len(t) - Len(g) + i = Len(t) /\ Len(t) >= 1
      BY <1>2, <1>4, <1>5, <2>1
    <3>2. QED  BY <1>4, <1>5, <2>1, <3>1, Zenon DEF Listed
  <2>2. CASE i # Len(g)
    <3>1. i \in 1 .. Len(f) /\ g[i] = f[i]
      BY <1>2, <1>5, <2>2
    <3>2. CASE f[i] + open >= Pause
      BY <3>1, <3>2, Zenon
    <3>3. CASE Listed(e, f, i)
      <4>1. Listed(s, f, i)
        BY <1>1, <3>1, <3>3, RecentListed, Zenon
      <4>2. /\ Len(t) - Len(g) + i = Len(s) - Len(f) + i
            /\ Len(s) - Len(f) + i \in 1 .. Len(s)
        BY <1>2, <1>4, <1>5, <3>1, <4>1, SMTT(30) DEF Listed
      <4>3. QED  BY <1>4, <3>1, <4>1, <4>2, Zenon DEF Listed
    <3>4. QED  BY <3>1, <3>2, <3>3, Zenon DEF BreakerOK
  <2>3. QED  BY <2>1, <2>2, Zenon
<1>7. QED  BY <1>4, <1>5, <1>6, Zenon DEF BreakerOK, s, t, g

\* A failure that opens it.
LEMMA FailureOpens ==
  ASSUME NEW e, NEW f, NEW open, BreakerOK(e, f, open)
  PROVE  BreakerOK(<<>>, Append(f, 0), Pause)
<1> DEFINE g == Append(f, 0)
<1>1. g \in Seq(Int) /\ Falling(g) /\ (\A i \in 1 .. Len(g) : g[i] \in 0 .. Pause - 1)
  <2>1. Pause - 1 \in Nat
    BY ForecastAssumption
  <2>2. QED  BY <2>1, AppendZero, Zenon DEF BreakerOK
<1> HIDE DEF g
<1>2. \A i \in 1 .. Len(g) : g[i] + Pause >= Pause
  BY <1>1, ForecastAssumption
<1>3. Falling(<<>>)
  BY DEF Falling
<1>4. QED  BY <1>1, <1>2, <1>3, ForecastAssumption DEF BreakerOK, g

\* When it opens, no more than MaxErrors failures are younger than the pause.
LEMMA OpeningCount ==
  ASSUME NEW e, NEW f, BreakerOK(e, f, 0)
  PROVE  Len(f) <= Len(Within(e, ErrorWindow)) /\ Len(Within(e, ErrorWindow)) <= Len(e)
<1> DEFINE s == Within(e, ErrorWindow)
<1>1. IsRecent(s, e, ErrorWindow)
  BY WithinRecent, ForecastAssumption DEF BreakerOK
<1> HIDE DEF s
<1>2. Len(s) \in Nat /\ Len(f) \in Nat /\ Len(s) <= Len(e)
  BY <1>1 DEF BreakerOK, IsRecent
<1>3. CASE Len(f) = 0
  BY <1>2, <1>3 DEF s
<1>4. CASE Len(f) # 0
  <2>1. 1 \in 1 .. Len(f)
    BY <1>2, <1>4
  <2>2. Listed(e, f, 1)
    BY <2>1, ClosedListed, Zenon
  <2>3. Listed(s, f, 1)
    BY <1>1, <2>1, <2>2, RecentListed, Zenon
  <2>4. QED  BY <1>2, <2>3 DEF Listed, s
<1>5. QED  BY <1>3, <1>4, Zenon

\* Time passes: errors age up to the window, failures as old as the pause no
\* longer count.
LEMMA TickListed ==
  ASSUME NEW e, NEW f, NEW open, BreakerOK(e, f, open)
  PROVE  /\ BreakerOK([i \in DOMAIN e |-> Min({e[i] + 1, ErrorWindow})], Aged(f, Pause),
                      IF open > 0 THEN open - 1 ELSE 0)
         /\ Len(Aged(f, Pause)) <= Len(f)
<1> DEFINE e1 == [i \in DOMAIN e |-> Min({e[i] + 1, ErrorWindow})]
           f1 == [i \in DOMAIN f |-> f[i] + 1]
           g  == Within(f1, Pause)
           o1 == IF open > 0 THEN open - 1 ELSE 0
<1>0. ErrorWindow \in Nat /\ Pause \in Nat /\ Pause >= 1 /\ Pause <= ErrorWindow /\ open \in Nat /\ open <= Pause
  BY ForecastAssumption DEF BreakerOK
<1>1. e \in Seq(Int) /\ f \in Seq(Int) /\ Len(e) \in Nat /\ Len(f) \in Nat /\ DOMAIN e = 1 .. Len(e) /\ DOMAIN f = 1 .. Len(f)
  BY DEF BreakerOK
<1>2. ASSUME NEW i \in 1 .. Len(e)
      PROVE  /\ e1[i] = IF e[i] + 1 <= ErrorWindow THEN e[i] + 1 ELSE ErrorWindow
             /\ e1[i] \in 0 .. ErrorWindow
  <2>1. e[i] \in 0 .. ErrorWindow /\ e[i] + 1 \in Int
    BY DEF BreakerOK
  <2>2. Min({e[i] + 1, ErrorWindow}) = IF e[i] + 1 <= ErrorWindow THEN e[i] + 1 ELSE ErrorWindow
    BY <1>0, <2>1, MinPair
  <2>3. QED  BY <1>0, <1>1, <2>1, <2>2, SMTT(30)
<1>3. e1 \in Seq(Int) /\ Len(e1) = Len(e)
  <2>1. e1 = [i \in 1 .. Len(e) |-> Min({e[i] + 1, ErrorWindow})]
    BY <1>1, Zenon
  <2>2. \A i \in 1 .. Len(e) : Min({e[i] + 1, ErrorWindow}) \in Int
    BY <1>2, <2>1
  <2>3. QED  BY <1>1, <2>1, <2>2
<1>4. f1 \in Seq(Int) /\ Len(f1) = Len(f) /\ \A i \in 1 .. Len(f) : f1[i] = f[i] + 1
  <2>1. f1 = [i \in 1 .. Len(f) |-> f[i] + 1]
    BY <1>1, Zenon
  <2>2. \A i \in 1 .. Len(f) : f[i] + 1 \in Int
    BY <1>1
  <2>3. QED  BY <1>1, <2>1, <2>2
<1> HIDE DEF e1, f1
<1>5. Falling(e1) /\ Falling(f1)
  <2>1. Falling(e1)
    <3> SUFFICES ASSUME NEW i \in 1 .. Len(e), NEW j \in 1 .. Len(e), i <= j PROVE e1[j] <= e1[i]
      BY <1>3, Zenon DEF Falling
    <3>1. e[j] <= e[i] /\ e[i] \in Int /\ e[j] \in Int
      BY DEF BreakerOK, Falling
    <3>2. /\ e1[i] = IF e[i] + 1 <= ErrorWindow THEN e[i] + 1 ELSE ErrorWindow
          /\ e1[j] = IF e[j] + 1 <= ErrorWindow THEN e[j] + 1 ELSE ErrorWindow
      BY <1>2, Zenon
    <3>3. QED  BY <1>0, <3>1, <3>2
  <2>2. Falling(f1)
    <3> SUFFICES ASSUME NEW i \in 1 .. Len(f), NEW j \in 1 .. Len(f), i <= j PROVE f1[j] <= f1[i]
      BY <1>4, Zenon DEF Falling
    <3>1. f[j] <= f[i] /\ f[i] \in Int /\ f[j] \in Int
      BY DEF BreakerOK, Falling
    <3>2. QED  BY <1>4, <3>1
  <2>3. QED  BY <2>1, <2>2, Zenon
<1>6. IsRecent(g, f1, Pause) /\ Falling(g)
  BY <1>0, <1>4, <1>5, WithinRecent, RecentFalling, SMTT(30)
<1> HIDE DEF g
<1>7. g \in Seq(Int) /\ Len(g) \in Nat /\ Len(g) <= Len(f)
  BY <1>4, <1>6 DEF IsRecent
<1>8. ASSUME NEW i \in 1 .. Len(g)
      PROVE  g[i] \in 0 .. Pause - 1 /\ (Listed(e1, g, i) \/ g[i] + o1 >= Pause)
  <2> DEFINE k == Len(f) - Len(g) + i
  <2>1. k \in 1 .. Len(f)
    BY <1>1, <1>7
  <2>2. g[i] = f1[k] /\ g[i] < Pause
    BY <1>4, <1>6, Zenon DEF IsRecent
  <2>3. g[i] = f[k] + 1 /\ f[k] \in 0 .. Pause - 1
    BY <1>4, <2>1, <2>2, Zenon DEF BreakerOK
  <2>a. ASSUME NEW y \in 0 .. Pause - 1, g[i] = y + 1, g[i] < Pause
        PROVE  /\ g[i] \in 0 .. Pause - 1 /\ g[i] <= ErrorWindow
               /\ y + open >= Pause => g[i] + o1 >= Pause
    BY <1>0, <2>a
  <2>b. /\ g[i] \in 0 .. Pause - 1 /\ g[i] <= ErrorWindow
        /\ f[k] + open >= Pause => g[i] + o1 >= Pause
    BY <2>2, <2>3, <2>a, Zenon
  <2>4. CASE f[k] + open >= Pause
    BY <2>4, <2>b, Zenon
  <2>5. CASE Listed(e, f, k)
    <3> DEFINE j == Len(e) - Len(f) + k
    <3>1. j = Len(e1) - Len(g) + i /\ j \in 1 .. Len(e)
      BY <1>1, <1>3, <1>7, <2>1, <2>5 DEF Listed
    <3>2. e[j] = f[k]
      BY <2>5, Zenon DEF Listed
    <3> HIDE DEF j, k
    <3>3. e1[j] = g[i]
      <4>1. e1[j] = IF e[j] + 1 <= ErrorWindow THEN e[j] + 1 ELSE ErrorWindow
        BY <1>2, <3>1, Zenon
      <4>2. e[j] + 1 = g[i] /\ g[i] <= ErrorWindow
        BY <2>3, <2>b, <3>2, Zenon
      <4>3. QED  BY <4>1, <4>2, Zenon
    <3>4. j >= 1
      BY <3>1
    <3>5. QED  BY <2>b, <3>1, <3>3, <3>4, Zenon DEF Listed
  <2>6. QED  BY <2>1, <2>4, <2>5, Zenon DEF BreakerOK
<1>9. o1 \in 0 .. Pause
  BY <1>0
<1> HIDE DEF o1
<1>10. BreakerOK(e1, g, o1)
  BY <1>2, <1>3, <1>5, <1>6, <1>7, <1>8, <1>9, Zenon DEF BreakerOK
<1>11. Aged(f, Pause) = g
  BY Zenon DEF Aged, g, f1
<1>12. QED  BY <1>7, <1>10, <1>11, Zenon DEF e1, o1

Busy == {c \in Caller : call[c] # "idle"}

\* While the breaker is open only the calls under way can fail.
BreakerInv ==
  /\ BreakerOK(errors, failures, openFor)
  /\ Len(errors) < MaxErrors
  /\ call \in [Caller -> {"idle", "first", "second"}]
  /\ openFor > 0 => Len(failures) + Cardinality(Busy) <= MaxErrors + Cardinality(Caller) - 1

\* The mean error is above the threshold since highFor at most.
TrackerInv ==
  /\ records \in Seq(Deviation \cup {ZeroActual}) /\ Len(records) <= WindowMax
  /\ highFor \in 0 .. Sustain \cup {NoTime}
  /\ lastGood \in 0 .. Sustain
  /\ highFor # NoTime => highFor <= lastGood
  /\ fallback => lastGood >= Sustain

LEMMA ForecastStart == ForecastInit => BreakerInv /\ TrackerInv
<1> SUFFICES ASSUME ForecastInit PROVE BreakerInv /\ TrackerInv
  BY Zenon
<1>1. BreakerOK(<<>>, <<>>, 0)
  BY ForecastAssumption DEF BreakerOK, Falling
<1>2. BreakerInv
  BY <1>1, ForecastAssumption DEF ForecastInit, BreakerInv
<1>3. TrackerInv
  BY ForecastAssumption DEF ForecastInit, TrackerInv
<1>4. QED  BY <1>2, <1>3, Zenon

\* Counting the callers at work.
LEMMA BusyCount ==
  ASSUME NEW S \in SUBSET Caller
  PROVE  /\ IsFiniteSet(S) /\ Cardinality(S) \in Nat /\ Cardinality(Caller) \in Nat
         /\ Cardinality(S) <= Cardinality(Caller)
         /\ \A c \in S : Cardinality(S \ {c}) = Cardinality(S) - 1
<1>1. IsFiniteSet(S)
  BY ForecastAssumption, FS_Subset, Zenon
<1>2. QED
  BY <1>1, ForecastAssumption, FS_Subset, FS_CardinalityType, FS_RemoveElement, Zenon

\* recordError, whether or not it opens the breaker.
LEMMA FailKeeps ==
  ASSUME BreakerInv, NEW c \in Caller, RequestFails(c)
  PROVE  BreakerInv'
<1> DEFINE s    == Within(errors, ErrorWindow)
           kept == Append(s, 0)
<1>1. /\ c \in Busy /\ failures' = Append(failures, 0) /\ call' = [call EXCEPT ![c] = "idle"]
      /\ errors' = IF Len(kept) >= MaxErrors THEN <<>> ELSE kept
      /\ openFor' = IF Len(kept) >= MaxErrors THEN Pause ELSE openFor
  BY Zenon DEF RequestFails, recordError, Busy
<1>2. call' \in [Caller -> {"idle", "first", "second"}] /\ Busy' = Busy \ {c}
  BY <1>1, Zenon DEF BreakerInv, Busy
<1>3. /\ Cardinality(Busy) \in Nat /\ Cardinality(Busy') = Cardinality(Busy) - 1
      /\ Cardinality(Caller) \in Nat /\ Cardinality(Busy) <= Cardinality(Caller)
  <2>1. Busy \in SUBSET Caller
    BY Zenon DEF Busy
  <2> HIDE DEF Busy
  <2>2. QED  BY <1>1, <1>2, <2>1, BusyCount, Zenon
<1>4. Len(failures) \in Nat /\ Len(failures') = Len(failures) + 1 /\ Len(errors) \in Nat /\ openFor \in Nat
  BY <1>1 DEF BreakerInv, BreakerOK
<1>5. BreakerOK(kept, Append(failures, 0), openFor) /\ BreakerOK(<<>>, Append(failures, 0), Pause)
  BY FailureKept, FailureOpens, Zenon DEF BreakerInv
<1>6. Len(kept) \in Nat /\ Len(kept) = Len(s) + 1 /\ Len(s) \in Nat
  <2>1. IsRecent(s, errors, ErrorWindow)
    BY WithinRecent, ForecastAssumption DEF BreakerInv, BreakerOK
  <2>2. s \in Seq(Int)
    BY <2>1, Zenon DEF IsRecent
  <2> HIDE DEF s
  <2>3. QED  BY <2>2
<1> HIDE DEF s, kept
<1>7. BreakerOK(errors', failures', openFor')
  BY <1>1, <1>5, Zenon
<1>8. Len(errors') < MaxErrors
  BY <1>1, <1>6, ForecastAssumption, SMTT(30)
<1>9. openFor' > 0 => Len(failures') + Cardinality(Busy') <= MaxErrors + Cardinality(Caller) - 1
  <2>1. CASE openFor > 0
    BY <1>3, <1>4, <2>1, ForecastAssumption, SMTT(30) DEF BreakerInv
  <2>2. CASE openFor = 0 /\ Len(kept) >= MaxErrors
    <3>1. BreakerOK(errors, failures, 0)
      BY <2>2, Zenon DEF BreakerInv
    <3>2. Len(failures) <= Len(s) /\ Len(s) <= Len(errors) /\ Len(errors) < MaxErrors
      BY <3>1, OpeningCount, Zenon DEF s, BreakerInv
    <3>3. QED  BY <1>3, <1>4, <1>6, <3>2, ForecastAssumption, SMTT(30)
  <2>3. CASE openFor = 0 /\ ~(Len(kept) >= MaxErrors)
    BY <1>1, <2>3
  <2>4. QED  BY <1>4, <2>1, <2>2, <2>3, SMTT(30)
<1>10. QED  BY <1>2, <1>7, <1>8, <1>9, Zenon DEF BreakerInv

LEMMA BreakerStep == BreakerInv /\ ForecastNext => BreakerInv'
<1> SUFFICES ASSUME BreakerInv, ForecastNext PROVE BreakerInv'
  BY Zenon
<1>1. ASSUME NEW c \in Caller, SendRequest(c) \/ RetryRequest(c) PROVE BreakerInv'
  <2>1. UNCHANGED <<errors, openFor, failures>> /\ call' \in [Caller -> {"idle", "first", "second"}]
    BY <1>1, Zenon DEF SendRequest, RetryRequest, BreakerInv
  <2>2. openFor' > 0 => Busy' = Busy
    BY <1>1, Zenon DEF SendRequest, RetryRequest, BreakerInv, isOpen, Busy
  <2>3. QED  BY <2>1, <2>2, Zenon DEF BreakerInv
<1>2. ASSUME NEW c \in Caller, RequestFails(c) PROVE BreakerInv'
  BY <1>2, FailKeeps, Zenon
<1>3. ASSUME NEW c \in Caller, RequestSucceeds(c) PROVE BreakerInv'
  <2>1. errors' = <<>> /\ failures' = <<>> /\ openFor' = 0 /\ call' \in [Caller -> {"idle", "first", "second"}]
    BY <1>3, Zenon DEF RequestSucceeds, recordSuccess, BreakerInv
  <2>2. BreakerOK(<<>>, <<>>, 0)
    BY ForecastAssumption, SMTT(30) DEF BreakerOK, Falling
  <2>3. QED  BY <2>1, <2>2, ForecastAssumption DEF BreakerInv
<1>4. CASE PassTime
  <2> DEFINE e1 == [i \in DOMAIN errors |-> Min({errors[i] + 1, ErrorWindow})]
  <2>1. /\ errors' = e1 /\ openFor' = (IF openFor > 0 THEN openFor - 1 ELSE 0)
        /\ failures' = Aged(failures, Pause) /\ call' = call
    BY <1>4, Zenon DEF PassTime
  <2>2. BreakerOK(errors', failures', openFor') /\ Len(failures') <= Len(failures)
    BY <2>1, TickListed, Zenon DEF BreakerInv
  <2>3. Len(errors') = Len(errors)
    BY <2>1, SMTT(30) DEF BreakerInv, BreakerOK
  <2>4. Len(failures) \in Nat /\ Len(failures') \in Nat /\ openFor \in Nat
    BY <2>2 DEF BreakerInv, BreakerOK
  <2>5. Busy' = Busy /\ Cardinality(Busy) \in Nat /\ Cardinality(Caller) \in Nat
    <3>1. Busy \in SUBSET Caller /\ Busy' = Busy
      BY <2>1, Zenon DEF Busy
    <3>2. QED  BY <3>1, BusyCount, Zenon
  <2>6. openFor' > 0 => openFor > 0
    BY <2>1, <2>4
  <2>7. QED  BY <2>1, <2>2, <2>3, <2>4, <2>5, <2>6, ForecastAssumption, SMTT(30) DEF BreakerInv
<1>5. CASE UNCHANGED breakerVars
  BY <1>5, Zenon DEF breakerVars, BreakerInv, Busy
<1>6. QED
  BY <1>1, <1>2, <1>3, <1>4, <1>5, Zenon DEF ForecastNext, Record, ResetTracker

\* A record moves highFor and lastGood together (recompute).
LEMMA TrackerStep == TrackerInv /\ ForecastNext => TrackerInv'
<1> SUFFICES ASSUME TrackerInv, ForecastNext PROVE TrackerInv'
  BY Zenon
<1> USE ForecastAssumption
<1>1. ASSUME NEW e \in Deviation \cup {ZeroActual}, Record(e) PROVE TrackerInv'
  <2> DEFINE all == Append(records, e)
  <2>1. records' = (IF Len(all) > WindowMax THEN Tail(all) ELSE all) /\ recompute(records')
        /\ lastGood' = IF Inaccurate(records') THEN lastGood ELSE 0
    BY <1>1, Zenon DEF Record
  <2>2. records' \in Seq(Deviation \cup {ZeroActual}) /\ Len(records') <= WindowMax
    BY <2>1 DEF TrackerInv
  <2>3. CASE Inaccurate(records')
    <3> DEFINE since == IF highFor = NoTime THEN 0 ELSE highFor
    <3>1. highFor' = since /\ lastGood' = lastGood
      BY <2>1, <2>3, Zenon DEF recompute
    <3>2. fallback' => fallback \/ since >= Sustain
      BY <2>1, <2>3, Zenon DEF recompute
    <3>3. since \in 0 .. Sustain /\ since <= lastGood
      BY SMTT(30) DEF TrackerInv
    <3>4. QED  BY <2>2, <3>1, <3>2, <3>3 DEF TrackerInv
  <2>4. CASE ~Inaccurate(records')
    BY <2>1, <2>2, <2>4, SMTT(30) DEF TrackerInv, recompute
  <2>5. QED  BY <2>3, <2>4, Zenon
<1>2. CASE ResetTracker
  BY <1>2 DEF ResetTracker, TrackerInv
<1>3. CASE PassTime
  <2>1. /\ highFor' = (IF highFor = NoTime THEN NoTime ELSE Min({highFor + 1, Sustain}))
        /\ lastGood' = Min({lastGood + 1, Sustain}) /\ UNCHANGED <<records, fallback>>
    BY <1>3, Zenon DEF PassTime
  <2>2. lastGood' = IF lastGood + 1 <= Sustain THEN lastGood + 1 ELSE Sustain
    BY <2>1, MinPair, SMTT(30) DEF TrackerInv
  <2>3. highFor # NoTime => highFor' = IF highFor + 1 <= Sustain THEN highFor + 1 ELSE Sustain
    BY <2>1, MinPair, SMTT(30) DEF TrackerInv
  <2>4. highFor' \in 0 .. Sustain \cup {NoTime} /\ (highFor' # NoTime => highFor' <= lastGood')
    BY <2>1, <2>2, <2>3, SMTT(30) DEF TrackerInv
  <2>5. lastGood' \in 0 .. Sustain /\ (lastGood >= Sustain => lastGood' >= Sustain)
    BY <2>2 DEF TrackerInv
  <2>6. QED  BY <2>1, <2>4, <2>5, Zenon DEF TrackerInv
<1>4. CASE UNCHANGED trackerVars
  BY <1>4, Zenon DEF trackerVars, TrackerInv
<1>5. QED
  BY <1>1, <1>2, <1>3, <1>4, Zenon DEF ForecastNext, SendRequest, RetryRequest, RequestFails, RequestSucceeds

LEMMA ForecastTypes == BreakerInv /\ TrackerInv => ForecastTypeOK
<1> SUFFICES ASSUME BreakerInv, TrackerInv PROVE ForecastTypeOK
  BY Zenon
<1>1. DOMAIN errors = 1 .. Len(errors)
  BY DEF BreakerInv, BreakerOK
<1>2. QED  BY <1>1, Zenon DEF BreakerInv, BreakerOK, TrackerInv, ForecastTypeOK

-----------------------------------------------------------------------------
(* The parameter tuner. *)

\* The values between a parameter's bounds, and those it may have on the way
\* there from its default.
Allowed(p) == Params[p].min .. Params[p].max
Hull(p) == Reach(Params[p], Params[p].default)

LEMMA LimitNat == Limit \in Nat
  BY TuningAssumption, Zenon DEF Limit

\* math.Round of a percentage is off by at most one half.
LEMMA RoundPercentNear ==
  ASSUME NEW n \in Int
  PROVE  /\ RoundPercent(n) \in Int
         /\ 100 * RoundPercent(n) <= n + 50
         /\ n - 50 < 100 * RoundPercent(n)
  BY DEF RoundPercent

\* A change beyond the limit is cut back to the limit, rounded: it stays between
\* the current and the proposed value (clampToMaxChange).
LEMMA ClampBetween ==
  ASSUME NEW par, NEW lo \in Nat, NEW hi \in Nat, NEW prop \in lo .. hi,
         NEW cur \in (lo .. hi) \cup {NoDefault}
  PROVE  LET new == IF WithinChangeBounds(par, cur, prop) THEN prop
                    ELSE clampToMaxChange(par, cur, prop)
         IN  /\ new \in lo .. hi
             /\ \/ par.type = "string"
                \/ cur \in {0, NoDefault}
                \/ 200 * Magnitude(new - cur) <= 2 * Limit * cur + 100
<1> DEFINE L   == Limit
           new == IF WithinChangeBounds(par, cur, prop) THEN prop ELSE clampToMaxChange(par, cur, prop)
<1>0. L \in Nat
  BY LimitNat, Zenon
<1> HIDE DEF L
<1>1. CASE par.type = "string" \/ cur \in {0, NoDefault}
  <2>1. new = prop
    BY <1>1, Zenon DEF WithinChangeBounds
  <2>2. QED  BY <1>1, <2>1, Zenon
<1>2. CASE ~(par.type = "string" \/ cur \in {0, NoDefault})
  <2>00. cur \in lo .. hi
    BY <1>2, Zenon
  <2>0. cur \in Nat /\ cur >= 1 /\ prop \in Nat /\ Magnitude(cur) = cur /\ L * cur \in Nat
    BY <1>0, <1>2, <2>00 DEF Magnitude
  <2> DEFINE up   == (100 + L) * cur
             down == (100 - L) * cur
  <2>1. up = 100 * cur + L * cur /\ down = 100 * cur - L * cur
    BY <1>0, <2>0
  <2>2. up \in Int /\ down \in Int
    BY <2>0, <2>1, SMTT(30)
  <2> DEFINE b == L * cur
  <2>3. b \in Nat /\ up = 100 * cur + b /\ down = 100 * cur - b /\ 2 * L * cur = 2 * b
    BY <1>0, <2>0, <2>1, SMTT(30)
  <2>4. CASE WithinChangeBounds(par, cur, prop)
    <3>1. new = prop /\ 100 * Magnitude(prop - cur) <= b
      BY <1>2, <2>0, <2>4, Zenon DEF WithinChangeBounds, L
    <3> HIDE DEF b
    <3>2. Magnitude(prop - cur) \in Int
      BY <2>0 DEF Magnitude
    <3>3. QED  BY <2>3, <3>1, <3>2 DEF L
  <2>5. CASE ~WithinChangeBounds(par, cur, prop)
    <3>1. new = IF 100 * prop > up THEN RoundPercent(up)
                ELSE IF 100 * prop < down THEN RoundPercent(down) ELSE prop
      BY <1>2, <2>5, Zenon DEF clampToMaxChange, L
    <3> HIDE DEF up, down, b
    <3>2. CASE 100 * prop > up
      <4> DEFINE r == RoundPercent(up)
      <4>1. r \in Int /\ 100 * r <= up + 50 /\ up - 50 < 100 * r
        BY <2>2, RoundPercentNear, Zenon
      <4>2. new = r
        BY <3>1, <3>2, Zenon
      <4> HIDE DEF r, new
      <4>3. r >= cur /\ r <= prop
        BY <2>0, <2>3, <3>2, <4>1, SMTT(30)
      <4>4. 200 * Magnitude(r - cur) <= 2 * b + 100
        BY <2>0, <2>3, <4>1, <4>3, SMTT(30) DEF Magnitude
      <4>5. r \in lo .. hi
        BY <2>00, <4>1, <4>3, SMTT(30)
      <4>6. QED  BY <2>3, <4>2, <4>4, <4>5, ZenonT(30) DEF new, L
    <3>3. CASE ~(100 * prop > up) /\ 100 * prop < down
      <4> DEFINE r == RoundPercent(down)
      <4>1. r \in Int /\ 100 * r <= down + 50 /\ down - 50 < 100 * r
        BY <2>2, RoundPercentNear, Zenon
      <4>2. new = r
        BY <3>1, <3>3, Zenon
      <4> HIDE DEF r, new
      <4>3. r <= cur /\ r >= prop
        BY <2>0, <2>3, <3>3, <4>1, SMTT(30)
      <4>4. 200 * Magnitude(r - cur) <= 2 * b + 100
        BY <2>0, <2>3, <4>1, <4>3, SMTT(30) DEF Magnitude
      <4>5. r \in lo .. hi
        BY <2>00, <4>1, <4>3
      <4>6. QED  BY <2>3, <4>2, <4>4, <4>5, Zenon DEF new, L
    <3>4. CASE ~(100 * prop > up) /\ ~(100 * prop < down)
      <4>1. new = prop
        BY <3>1, <3>4, Zenon
      <4>2. 200 * Magnitude(prop - cur) <= 2 * b + 100
        BY <2>0, <2>3, <3>4, SMTT(30) DEF Magnitude
      <4>3. QED  BY <2>3, <4>1, <4>2, Zenon DEF L
    <3>5. QED  BY <3>2, <3>3, <3>4, Zenon
  <2>6. QED  BY <2>4, <2>5, Zenon
<1>3. QED  BY <1>1, <1>2, Zenon

\* What has been observed at the values of a parameter.
IsSeen(seen) == seen \in [Param -> [Value -> Int \cup {NoSLO}]]

\* The values of a parameter are finitely many numbers.
LEMMA RangeValue ==
  ASSUME NEW p \in Param
  PROVE  /\ Hull(p) \subseteq Value /\ Allowed(p) \subseteq Hull(p) /\ Params[p].max \in Nat
         /\ Allowed(p) \subseteq 0 .. Params[p].max /\ Params[p].max \in Allowed(p)
<1> DEFINE lo == Params[p].min
           hi == Params[p].max
           d  == Params[p].default
<1>1. lo \in Nat /\ hi \in Nat /\ lo <= hi /\ d \in Nat \cup {NoDefault} /\ NoDefault \notin Nat
  BY TuningAssumption, Zenon
<1>2. Hull(p) \subseteq Value
  BY Zenon DEF Hull, Value
<1>3. Hull(p) = IF d = NoDefault THEN lo .. hi
                ELSE (IF d < lo THEN d ELSE lo) .. (IF d > hi THEN d ELSE hi)
  BY Zenon DEF Hull, Reach
<1>4. Allowed(p) = lo .. hi
  BY Zenon DEF Allowed
<1> HIDE DEF lo, hi, d
<1>5. lo .. hi \subseteq Hull(p) /\ lo .. hi \subseteq 0 .. hi /\ hi \in lo .. hi
  <2>1. CASE d = NoDefault
    BY <1>1, <1>3, <2>1
  <2>2. CASE d \in Nat
    BY <1>1, <1>3, <2>2
  <2>3. QED  BY <1>1, <2>1, <2>2, Zenon
<1>6. QED  BY <1>1, <1>2, <1>4, <1>5, Zenon DEF hi

\* A value that a parameter may have is a number; from it the way to the bounds
\* does not lead out of the values it may have.
LEMMA HullReach ==
  ASSUME NEW p \in Param, NEW v \in Hull(p) \cup {NoDefault}
  PROVE  /\ v \in Hull(p) => v \in Nat /\ v # NoDefault
         /\ v = NoDefault => Reach(Params[p], v) = Allowed(p)
         /\ Reach(Params[p], v) \subseteq Hull(p)
         /\ \E lo, hi \in Nat : /\ Reach(Params[p], v) = lo .. hi
                               /\ v \in (lo .. hi) \cup {NoDefault}
                               /\ Allowed(p) \subseteq lo .. hi
<1> DEFINE min == Params[p].min
           max == Params[p].max
           d   == Params[p].default
<1>1. min \in Nat /\ max \in Nat /\ min <= max /\ d \in Nat \cup {NoDefault} /\ NoDefault \notin Nat
  BY TuningAssumption, Zenon
<1>2. Hull(p) = IF d = NoDefault THEN min .. max
                ELSE (IF d < min THEN d ELSE min) .. (IF d > max THEN d ELSE max)
  BY Zenon DEF Hull, Reach
<1>3. Reach(Params[p], v) = IF v = NoDefault THEN min .. max
                            ELSE (IF v < min THEN v ELSE min) .. (IF v > max THEN v ELSE max)
  BY Zenon DEF Reach
<1>4. Allowed(p) = min .. max
  BY Zenon DEF Allowed
<1>5. Allowed(p) \subseteq Hull(p)
  BY RangeValue, Zenon
<1> HIDE DEF min, max, d
<1>6. ASSUME v \in Hull(p)  PROVE  v \in Nat /\ v # NoDefault
  <2>1. CASE d = NoDefault
    BY <1>1, <1>2, <1>6, <2>1
  <2>2. CASE d \in Nat
    BY <1>1, <1>2, <1>6, <2>2
  <2>3. QED  BY <1>1, <2>1, <2>2, Zenon
<1>7. CASE v = NoDefault
  <2>1. Reach(Params[p], v) = min .. max
    BY <1>3, <1>7, Zenon
  <2>2. QED  BY <1>1, <1>4, <1>5, <1>6, <1>7, <2>1, Zenon
<1>8. CASE v # NoDefault
  <2>1. v \in Hull(p) /\ v \in Nat
    BY <1>6, <1>8, Zenon
  <2> DEFINE lo == IF v < min THEN v ELSE min
             hi == IF v > max THEN v ELSE max
  <2>2. Reach(Params[p], v) = lo .. hi
    BY <1>3, <1>8, Zenon
  <2>3. lo \in Nat /\ hi \in Nat /\ v \in lo .. hi /\ min .. max \subseteq lo .. hi
    BY <1>1, <2>1
  <2>4. lo .. hi \subseteq Hull(p)
    <3>1. CASE d = NoDefault
      BY <1>1, <1>2, <2>1, <3>1
    <3>2. CASE d \in Nat
      BY <1>1, <1>2, <2>1, <3>2
    <3>3. QED  BY <1>1, <3>1, <3>2, Zenon
  <2> HIDE DEF lo, hi
  <2>5. QED  BY <1>4, <1>6, <1>8, <2>2, <2>3, <2>4, Zenon
<1>9. QED  BY <1>7, <1>8, Zenon

\* Of finitely many numbers one has the largest image; by the least n for which
\* it would not be so of those up to n.
LEMMA BestOf ==
  ASSUME NEW m \in Nat, NEW K \in SUBSET (0 .. m), K # {}, NEW f, \A v \in K : f[v] \in Int
  PROVE  \E x \in K : \A y \in K : f[y] <= f[x]
<1> DEFINE Best(n) == {x \in K : x <= n /\ \A y \in K : y <= n => f[y] <= f[x]}
           Fails   == {n \in 0 .. m : (\E v \in K : v <= n) /\ Best(n) = {}}
<1>1. CASE Fails = {}
  <2>1. m \in 0 .. m /\ m \notin Fails /\ \A y \in K : y <= m
    <3> HIDE DEF Fails
    <3>1. QED  BY <1>1
  <2>2. PICK x \in Best(m) : TRUE
    BY <2>1, Zenon
  <2>3. QED  BY <2>1, <2>2, Zenon
<1>2. CASE Fails # {}
  <2>1. Fails \in SUBSET Nat
    OBVIOUS
  <2>2. PICK k \in Fails : \A n \in Fails : k <= n
    <3> HIDE DEF Fails
    <3>1. QED  BY <1>2, <2>1, LeastCase, Zenon
  <2>3. k \in 0 .. m /\ (\E v \in K : v <= k) /\ Best(k) = {}
    BY Zenon
  <2>4. CASE \E v \in K : v <= k - 1
    <3>1. k - 1 \in 0 .. m /\ k - 1 \notin Fails
      BY <2>2, <2>3, <2>4
    <3>2. PICK x \in Best(k - 1) : TRUE
      BY <2>4, <3>1, Zenon
    <3>3. x \in Best(k) \/ k \in Best(k)
      BY <2>3, <3>2
    <3>4. QED  BY <2>3, <3>3, Zenon
  <2>5. CASE ~\E v \in K : v <= k - 1
    <3>1. k \in K /\ \A y \in K : y <= k => y = k
      BY <2>3, <2>5
    <3>2. k \in Best(k)
      BY <2>3, <3>1
    <3>3. QED  BY <2>3, <3>2, Zenon
  <2>6. QED  BY <2>4, <2>5, Zenon
<1>3. QED  BY <1>1, <1>2, Zenon

\* SelectOptimal picks a value of the grid.
LEMMA OptimalInRange ==
  ASSUME NEW p \in Param, NEW seen, IsSeen(seen)
  PROVE  SelectOptimal(p, seen) \in Allowed(p)
<1> DEFINE grid  == GenerateGrid(Params[p])
           known == {v \in grid : seen[p][v] # NoSLO}
           top   == {v \in known : \A w \in known : seen[p][w] <= seen[p][v]}
<1>1. grid \subseteq Allowed(p) /\ Params[p].max \in grid
  BY RangeValue, Zenon DEF GenerateGrid, Allowed
<1>2. Allowed(p) \subseteq 0 .. Params[p].max /\ Params[p].max \in Nat /\ Allowed(p) \subseteq Value
  BY RangeValue, Zenon
<1> HIDE DEF grid
<1>3. CASE known = {}
  <2>1. \E x \in grid : \A y \in grid : x <= y
    BY <1>1, <1>2, LeastCase
  <2>2. Min(grid) \in grid
    BY <2>1, Zenon DEF Min
  <2>3. SelectOptimal(p, seen) = Min(grid)
    BY <1>3, Zenon DEF SelectOptimal, grid
  <2>4. QED  BY <1>1, <2>2, <2>3, Zenon
<1>4. CASE known # {}
  <2> DEFINE f == seen[p]
  <2>1. \A v \in known : f[v] \in Int
    BY <1>1, <1>2, Zenon DEF IsSeen
  <2>2. known \in SUBSET (0 .. Params[p].max) /\ known \subseteq Nat
    BY <1>1, <1>2, SMTT(30)
  <2>3. SelectOptimal(p, seen) = Min(top)
    BY <1>4, Zenon DEF SelectOptimal, grid
  <2> HIDE DEF known, f
  <2>4. \E x \in known : \A y \in known : f[y] <= f[x]
    BY <1>2, <1>4, <2>1, <2>2, BestOf, Zenon
  <2>5. top # {} /\ top \subseteq Nat
    BY <2>2, <2>4, Zenon DEF f
  <2> HIDE DEF top
  <2>6. \E x \in top : \A y \in top : x <= y
    BY <2>5, LeastCase, Zenon
  <2>7. Min(top) \in top
    BY <2>6, Zenon DEF Min
  <2>8. QED  BY <1>1, <2>3, <2>7, Zenon DEF top, known
<1>5. QED  BY <1>3, <1>4, Zenon

\* An observation of a parameter's value, or none.
IsObservation(o) ==
  \/ o.param = NoParam
  \/ o.param \in Param /\ o.value \in Value /\ o.slo \in Int /\ count[o.param] < MaxObs

Pending == result # NoParam /\ result.changed # NoParam

\* Values stay between the default and the bounds.
ValueInv ==
  /\ live = [p \in Param |-> live[p]] /\ values = [p \in Param |-> values[p]]
  /\ \A p \in Param : /\ live[p] \in Hull(p) \cup {NoDefault}
                      /\ values[p] \in Hull(p) \cup {NoDefault}
  /\ active # NoParam => values[active] \in Hull(active)
  /\ active \in Param \cup {NoParam}
  /\ count = [p \in Param |-> count[p]] /\ \A p \in Param : count[p] \in 0 .. MaxObs
  /\ IsSeen(best)
  /\ result # NoParam =>
       /\ IsObservation(result.observed)
       /\ result.phase \in {"Idle", "Error", "Paused", "Observing", "Converged", "Exploring"}
       /\ result.changed # NoParam => result.changed \in Param /\ result.value \in Hull(result.changed)
  /\ phase \in {"Idle", "Error", "Paused", "Observing", "Converged", "Exploring"}

\* Unless something went unsaved, the status and the change under way tell the
\* live values, and the pause lasts until a cooldown after the last change.
SavedInv ==
  /\ coolFor \in 0 .. Cooldown /\ sinceChange \in 0 .. Cooldown
  /\ ~unsaved => /\ live = IF Pending THEN [values EXCEPT ![result.changed] = result.value] ELSE values
                 /\ ~Pending => coolFor + sinceChange >= Cooldown

LEMMA TuningStart == TuningInit => ValueInv /\ SavedInv
<1> SUFFICES ASSUME TuningInit PROVE ValueInv /\ SavedInv
  BY Zenon
<1>1. IsSeen(best)
  BY Zenon DEF TuningInit, IsSeen
<1>2. \A p \in Param : Params[p].default \in Hull(p) \cup {NoDefault}
  <2> SUFFICES ASSUME NEW p \in Param, Params[p].default # NoDefault
               PROVE  Params[p].default \in Hull(p)
    BY Zenon
  <2> DEFINE lo == Params[p].min
             hi == Params[p].max
             d  == Params[p].default
  <2>1. lo \in Nat /\ hi \in Nat /\ d \in Nat
    BY TuningAssumption, Zenon
  <2>2. Hull(p) = (IF d < lo THEN d ELSE lo) .. (IF d > hi THEN d ELSE hi)
    BY Zenon DEF Hull, Reach
  <2> HIDE DEF lo, hi, d
  <2>3. d \in Hull(p)
    BY <2>1, <2>2
  <2>4. QED  BY <2>3, Zenon DEF d
<1>3. ValueInv
  BY <1>1, <1>2, TuningAssumption, SMTT(30) DEF TuningInit, ValueInv
<1>4. SavedInv
  BY TuningAssumption DEF TuningInit, SavedInv, Pending
<1>5. QED  BY <1>3, <1>4, Zenon

\* RecordObservation keeps to the values and the number of observations.
LEMMA SeenKeeps ==
  ASSUME ValueInv, NEW o, IsObservation(o)
  PROVE  /\ IsSeen(Seen(o))
         /\ Counts(o) = [p \in Param |-> Counts(o)[p]] /\ \A p \in Param : Counts(o)[p] \in 0 .. MaxObs
<1>1. CASE o.param = NoParam
  BY <1>1, ZenonT(30)  DEF ValueInv, Seen, Counts
<1>2. CASE o.param # NoParam
  <2>1. o.param \in Param /\ o.value \in Value /\ o.slo \in Int /\ count[o.param] < MaxObs
    BY <1>2, Zenon DEF IsObservation
  <2>2. Adjusted(o.slo) \in Int
    BY <2>1 DEF Adjusted
  <2>3. \A x \in Int \cup {NoSLO} : Better(x, Adjusted(o.slo)) \in Int
    BY <2>2, Zenon DEF Better
  <2>4. Seen(o) = [best EXCEPT ![o.param][o.value] = Better(best[o.param][o.value], Adjusted(o.slo))]
    BY <1>2, ZenonT(30)  DEF Seen
  <2>5. IsSeen(Seen(o))
    BY <2>1, <2>3, <2>4 DEF ValueInv, IsSeen
  <2>6. Counts(o) = [count EXCEPT ![o.param] = count[o.param] + 1]
    BY <1>2, Zenon DEF Counts
  <2>7. QED  BY <2>1, <2>5, <2>6, TuningAssumption, SMTT(30) DEF ValueInv
<1>3. QED  BY <1>1, <1>2, Zenon

\* One cycle that may change a value.
LEMMA CycleKeeps ==
  ASSUME ValueInv, SavedInv, NEW slo \in SLOs, NEW applies \in {"ok", "fails", "late"}, RunCycle(slo, applies)
  PROVE  /\ (ValueInv /\ SavedInv)'
         /\ ~unsaved => \A p \in Param : live'[p] # live[p] =>
              /\ values[p] = live[p]
              /\ live'[p] \in Reach(Params[p], live[p])
              /\ sinceChange >= Cooldown
              /\ \/ Params[p].type = "string"
                 \/ live[p] \in {0, NoDefault}
                 \/ 200 * Magnitude(live'[p] - live[p]) <= 2 * Limit * live[p] + 100
<1> DEFINE o == IF active = NoParam THEN Nothing
                ELSE [param |-> active, value |-> values[active], slo |-> slo]
           Phases == {"Idle", "Error", "Paused", "Observing", "Converged", "Exploring"}
           Tries(p) ==
             LET pick == SelectOptimal(p, Seen(o))
                 new  == IF WithinChangeBounds(Params[p], values[p], pick) THEN pick
                         ELSE clampToMaxChange(Params[p], values[p], pick)
                 reached == new # values[p] /\ applies # "fails"
             IN  /\ live' = IF reached THEN [live EXCEPT ![p] = new] ELSE live
                 /\ sinceChange' = IF reached THEN 0 ELSE sinceChange
                 /\ unsaved' = (unsaved \/ (reached /\ applies = "late"))
                 /\ result' = IF new = values[p] THEN Outcome("Exploring", o, NoParam, 0)
                              ELSE IF applies = "ok" THEN Outcome("Exploring", o, p, new)
                              ELSE Outcome("Error", Nothing, NoParam, 0)
<1>1. result = NoParam /\ UNCHANGED <<active, values, count, best, coolFor, belowSLO, phase>>
  BY ZenonT(30) DEF RunCycle
<1>2. IsObservation(o) /\ IsObservation(o)' /\ IsObservation(Nothing) /\ IsObservation(Nothing)'
  <2>1. active # NoParam => count[active] < MaxObs
    BY Zenon DEF RunCycle
  <2>2. active # NoParam => values[active] \in Value
    BY RangeValue, Zenon DEF ValueInv
  <2>3. slo \in Int
    BY TuningAssumption, Zenon
  <2>4. IsObservation(o) /\ IsObservation(Nothing)
    BY <2>1, <2>2, <2>3, Zenon DEF IsObservation, Nothing, ValueInv
  <2>5. o' = o
    BY <1>1, Zenon DEF Nothing
  <2>6. QED  BY <1>1, <2>4, <2>5, Zenon DEF IsObservation, Nothing
<1>2a. o \in [param : Param \cup {NoParam}, value : Nat, slo : Int]
  <2>1. CASE active = NoParam
    BY <2>1 DEF Nothing
  <2>2. CASE active # NoParam
    <3>1. active \in Param /\ values[active] \in Nat /\ slo \in Int
      BY <2>2, HullReach, TuningAssumption, Zenon DEF ValueInv
    <3>2. QED  BY <2>2, <3>1, ZenonT(30)
  <2>3. QED  BY <2>1, <2>2, ZenonT(30)
<1> HIDE DEF o
<1>3. CASE /\ UNCHANGED <<live, sinceChange, unsaved>>
           /\ result' \in {Outcome("Observing", o, NoParam, 0), Outcome("Converged", Nothing, NoParam, 0)}
  <2>1. result'.observed \in {o, Nothing} /\ result'.changed = NoParam /\ result'.phase \in Phases
    BY <1>3 DEF Outcome
  <2>2. ~Pending /\ ~Pending'
    BY <1>1, <2>1, Zenon DEF Pending
  <2>3. IsObservation(result.observed)'
    BY <1>1, <1>2, <2>1, Zenon DEF IsObservation
  <2>4. ValueInv'
    BY <1>1, <1>3, <2>1, <2>3, Zenon DEF ValueInv
  <2>5. SavedInv'
    BY <1>1, <1>3, <2>2, Zenon DEF SavedInv
  <2>6. QED  BY <1>3, <2>4, <2>5, ZenonT(30)
<1>4. CASE /\ CanChange /\ ~isConverged(Counts(o))
           /\ \E p \in NextParameterToTune(Counts(o)) : Tries(p)
  <2>1. PICK p \in NextParameterToTune(Counts(o)) : Tries(p)
    BY <1>4, Zenon
  <2> DEFINE pick == SelectOptimal(p, Seen(o))
             new  == IF WithinChangeBounds(Params[p], values[p], pick) THEN pick
                     ELSE clampToMaxChange(Params[p], values[p], pick)
             reached == new # values[p] /\ applies # "fails"
  <2>2. p \in Param
    BY Zenon DEF NextParameterToTune
  <2>3. IsSeen(Seen(o))
    BY <1>2, SeenKeeps, Zenon
  <2>4. pick \in Allowed(p) /\ values[p] \in Hull(p) \cup {NoDefault}
    BY <2>2, <2>3, OptimalInRange, Zenon DEF ValueInv
  <2> HIDE DEF pick
  <2>5. /\ new \in Hull(p) /\ new \in Reach(Params[p], values[p])
        /\ \/ Params[p].type = "string"
           \/ values[p] \in {0, NoDefault}
           \/ 200 * Magnitude(new - values[p]) <= 2 * Limit * values[p] + 100
    <3>1. PICK lo \in Nat, hi \in Nat : /\ Reach(Params[p], values[p]) = lo .. hi
                                        /\ values[p] \in (lo .. hi) \cup {NoDefault}
                                        /\ Allowed(p) \subseteq lo .. hi
      BY <2>2, <2>4, HullReach, Zenon
    <3>2. Reach(Params[p], values[p]) \subseteq Hull(p)
      BY <2>2, <2>4, HullReach, Zenon
    <3>3. pick \in lo .. hi
      BY <2>4, <3>1, Zenon
    <3>4. QED  BY <3>1, <3>2, <3>3, ClampBetween, ZenonT(30)
  <2>6. /\ live' = IF reached THEN [live EXCEPT ![p] = new] ELSE live
        /\ sinceChange' = IF reached THEN 0 ELSE sinceChange
        /\ unsaved' = (unsaved \/ (reached /\ applies = "late"))
        /\ result' = IF new = values[p] THEN Outcome("Exploring", o, NoParam, 0)
                     ELSE IF applies = "ok" THEN Outcome("Exploring", o, p, new)
                     ELSE Outcome("Error", Nothing, NoParam, 0)
    BY <2>1, Zenon DEF pick
  <2> HIDE DEF new
  <2>7. /\ result'.observed \in {o, Nothing} /\ result'.phase \in Phases
        /\ result'.changed = (IF new # values[p] /\ applies = "ok" THEN p ELSE NoParam)
        /\ result'.changed # NoParam => result'.value = new
    BY <2>2, <2>6, TuningAssumption, Zenon DEF Outcome
  <2>8. IsObservation(result.observed)'
    BY <1>1, <1>2, <2>7, Zenon DEF IsObservation
  <2>9. ValueInv'
    <3>1. live' = [q \in Param |-> live'[q]] /\ \A q \in Param : live'[q] \in Hull(q) \cup {NoDefault}
      BY <2>2, <2>5, <2>6, Zenon DEF ValueInv
    <3>2. result'.changed # NoParam => result'.changed \in Param /\ result'.value \in Hull(result'.changed)
      BY <2>2, <2>5, <2>7, Zenon
    <3>3. QED  BY <1>1, <2>7, <2>8, <3>1, <3>2, ZenonT(30)  DEF ValueInv
  <2>10. ~Pending /\ (~unsaved => live = values /\ sinceChange >= Cooldown)
    <3>1. ~Pending /\ coolFor = 0
      BY <1>1, <1>4, Zenon DEF Pending, CanChange
    <3>2. ~unsaved => live = values /\ coolFor + sinceChange >= Cooldown
      BY <3>1, Zenon DEF SavedInv
    <3>3. sinceChange \in 0 .. Cooldown
      BY Zenon DEF SavedInv
    <3>4. coolFor + sinceChange = sinceChange
      BY <3>1, <3>3
    <3>5. QED  BY <3>1, <3>2, <3>4, Zenon
  <2>11. sinceChange' \in 0 .. Cooldown /\ coolFor' \in 0 .. Cooldown
    <3>1. sinceChange \in 0 .. Cooldown /\ coolFor \in 0 .. Cooldown
      BY Zenon DEF SavedInv
    <3>2. sinceChange' \in {sinceChange, 0} /\ coolFor' = coolFor
      <4>1. sinceChange' = IF reached THEN 0 ELSE sinceChange
        BY <2>6, Zenon
      <4>2. coolFor' = coolFor
        BY <1>1, ZenonT(30)
      <4> HIDE DEF reached
      <4>3. QED  BY <4>1, <4>2, Zenon
    <3>3. 0 \in 0 .. Cooldown
      BY TuningAssumption
    <3>4. QED  BY <3>1, <3>2, <3>3, Zenon
  <2>12. SavedInv'
    <3> SUFFICES ASSUME ~unsaved'
                 PROVE  /\ live' = IF Pending' THEN [values' EXCEPT ![result'.changed] = result'.value] ELSE values'
                        /\ ~Pending' => coolFor' + sinceChange' >= Cooldown
      BY <2>11, Zenon DEF SavedInv
    <3>1. ~unsaved /\ ~(reached /\ applies = "late")
      BY <2>6, Zenon
    <3>2. live = values /\ sinceChange >= Cooldown
      BY <2>10, <3>1, Zenon
    <3>3. CASE new # values[p] /\ applies = "ok"
      <4>0. result' # NoParam
        <5>1. result' = [phase |-> "Exploring", observed |-> o, changed |-> p, value |-> new]
          BY <2>6, <3>3, Zenon DEF Outcome
        <5>2. new \in Nat
          BY <2>2, <2>5, HullReach, Zenon
        <5>3. result' \in [phase : {"Exploring"}, changed : Param, value : Nat,
                           observed : [param : Param \cup {NoParam}, value : Nat, slo : Int]]
          BY <1>2a, <2>2, <5>1, <5>2, ZenonT(30)
        <5>4. QED  BY <5>3, TuningAssumption, Zenon
      <4>1. reached /\ result'.changed = p /\ result'.value = new /\ Pending'
        BY <2>2, <2>7, <3>3, <4>0, TuningAssumption, ZenonT(30)  DEF Pending
      <4>2. live' = [values EXCEPT ![p] = new] /\ values' = values
        BY <1>1, <2>6, <3>2, <4>1, Zenon
      <4>3. QED  BY <4>1, <4>2, Zenon
    <3>4. CASE ~(new # values[p] /\ applies = "ok")
      <4>1. ~Pending' /\ result'.changed = NoParam
        BY <2>7, <3>4, Zenon DEF Pending
      <4>2. CASE reached
        BY <3>1, <3>4, <4>2, ZenonT(30)
      <4>3. CASE ~reached
        <5>1. live' = live /\ sinceChange' = sinceChange /\ values' = values /\ coolFor' = coolFor
          BY <1>1, <2>6, <4>3, ZenonT(30)
        <5>2. \A n \in Nat : \A c, t \in 0 .. n : t >= n => c + t >= n
          OBVIOUS
        <5>3. sinceChange' >= Cooldown
          BY <3>2, <5>1, Zenon
        <5>4. coolFor' + sinceChange' >= Cooldown
          BY <2>11, <5>2, <5>3, TuningAssumption, Zenon
        <5>5. QED  BY <3>2, <4>1, <5>1, <5>4, ZenonT(30)
      <4>4. QED  BY <4>2, <4>3, Zenon
    <3>5. QED  BY <3>3, <3>4, Zenon
  <2>13. ASSUME ~unsaved, NEW q \in Param, live'[q] # live[q]
         PROVE  /\ values[q] = live[q]
                /\ live'[q] \in Reach(Params[q], live[q])
                /\ sinceChange >= Cooldown
                /\ \/ Params[q].type = "string"
                   \/ live[q] \in {0, NoDefault}
                   \/ 200 * Magnitude(live'[q] - live[q]) <= 2 * Limit * live[q] + 100
    <3>1. q = p /\ live'[p] = new
      BY <2>2, <2>6, <2>13, Zenon DEF ValueInv
    <3>2. live = values /\ sinceChange >= Cooldown
      BY <2>10, <2>13, Zenon
    <3>3. QED  BY <2>5, <3>1, <3>2, ZenonT(30)
  <2>14. QED  BY <2>9, <2>12, <2>13, Zenon
<1>5. QED
  <2>1. (UNCHANGED <<live, sinceChange, unsaved>>
           /\ result' \in {Outcome("Observing", o, NoParam, 0), Outcome("Converged", Nothing, NoParam, 0)})
        \/ /\ CanChange /\ ~isConverged(Counts(o))
           /\ \E p \in NextParameterToTune(Counts(o)) : Tries(p)
    BY Zenon DEF RunCycle, o
  <2>2. QED  BY <1>3, <1>4, <2>1, Zenon

\* The reconciler writes the result of a cycle to the status.
LEMMA PersistKeeps ==
  ASSUME ValueInv, SavedInv, NEW clear, NEW below, Persist(clear, below)
  PROVE  (ValueInv /\ SavedInv)' /\ live' = live
<1> DEFINE ch == result.changed
<1>1. /\ result # NoParam /\ result' = NoParam /\ UNCHANGED <<live, sinceChange>>
      /\ phase' = result.phase /\ count' = Counts(result.observed) /\ best' = Seen(result.observed)
      /\ values' = IF ch = NoParam THEN values ELSE [values EXCEPT ![ch] = result.value]
      /\ active' = IF ch = NoParam THEN active ELSE ch
      /\ coolFor' = IF ch # NoParam THEN Cooldown - sinceChange ELSE IF clear THEN 0 ELSE coolFor
      /\ unsaved' = (unsaved \/ (ch = NoParam /\ clear /\ coolFor > 0))
  BY Zenon DEF Persist
<1>2. ~Pending'
  BY <1>1, Zenon DEF Pending
<1>3. IsObservation(result.observed) /\ (ch # NoParam => ch \in Param /\ result.value \in Hull(ch))
  BY <1>1, Zenon DEF ValueInv
<1>4. IsSeen(best') /\ count' = [p \in Param |-> count'[p]] /\ \A p \in Param : count'[p] \in 0 .. MaxObs
  BY <1>1, <1>3, SeenKeeps, Zenon
<1>5. values' = [p \in Param |-> values'[p]] /\ \A p \in Param : values'[p] \in Hull(p) \cup {NoDefault}
  BY <1>1, <1>3, Zenon DEF ValueInv
<1>5a. active' # NoParam => values'[active'] \in Hull(active')
  BY <1>1, <1>3, Zenon DEF ValueInv
<1>6. ValueInv'
  BY <1>1, <1>3, <1>4, <1>5, <1>5a, ZenonT(30)  DEF ValueInv
<1>7. coolFor' \in 0 .. Cooldown
  <2>1. Cooldown \in Nat /\ coolFor \in 0 .. Cooldown /\ sinceChange \in 0 .. Cooldown
    BY TuningAssumption, Zenon DEF SavedInv
  <2>2. coolFor' \in {Cooldown - sinceChange, 0, coolFor}
    BY <1>1, Zenon
  <2>3. QED  BY <2>1, <2>2
<1>8. ASSUME ~unsaved' PROVE live' = values' /\ coolFor' + sinceChange' >= Cooldown
  <2>1. ~unsaved /\ ~(ch = NoParam /\ clear /\ coolFor > 0)
    BY <1>1, <1>8, Zenon
  <2>2. CASE ch = NoParam
    <3>1. ~Pending /\ live = values /\ coolFor + sinceChange >= Cooldown
      BY <2>1, <2>2, Zenon DEF SavedInv, Pending
    <3>2. coolFor' = coolFor
      <4>1. CASE clear
        <5>1. \A n \in Nat : \A c \in 0 .. n : ~(c > 0) => c = 0
          OBVIOUS
        <5>2. coolFor \in 0 .. Cooldown /\ Cooldown \in Nat /\ ~(coolFor > 0)
          BY <2>1, <2>2, <4>1, TuningAssumption, Zenon DEF SavedInv
        <5>3. QED  BY <1>1, <2>2, <4>1, <5>1, <5>2, ZenonT(30)
      <4>2. CASE ~clear
        BY <1>1, <2>2, <4>2, Zenon
      <4>3. QED  BY <4>1, <4>2, Zenon
    <3>3. QED  BY <1>1, <2>2, <3>1, <3>2, Zenon
  <2>3. CASE ch # NoParam
    <3>1. live = [values EXCEPT ![ch] = result.value]
      BY <1>1, <2>1, <2>3, ZenonT(30)  DEF SavedInv, Pending
    <3>2. coolFor' + sinceChange' >= Cooldown
      BY <1>1, <2>3, TuningAssumption, SMTT(30) DEF SavedInv
    <3>3. QED  BY <1>1, <2>3, <3>1, <3>2, Zenon
  <2>4. QED  BY <2>2, <2>3, Zenon
<1>9. SavedInv'
  BY <1>1, <1>2, <1>7, <1>8, Zenon DEF SavedInv
<1>10. QED  BY <1>1, <1>6, <1>9, Zenon

\* Cycles that change nothing, a result that is lost, and time.
LEMMA OtherTuningKeeps ==
  ASSUME ValueInv, SavedInv, CycleFails \/ CyclePaused \/ LoseResult \/ PassTuningTime
  PROVE  (ValueInv /\ SavedInv)' /\ live' = live
<1>0. UNCHANGED <<live, active, values, count, best, phase>>
  BY Zenon DEF CycleFails, CyclePaused, LoseResult, PassTuningTime
<1>1. CASE CycleFails \/ CyclePaused
  <2>1. /\ result = NoParam /\ UNCHANGED <<coolFor, sinceChange, unsaved>>
        /\ result'.observed = Nothing /\ result'.changed = NoParam
        /\ result'.phase \in {"Idle", "Error", "Paused", "Observing", "Converged", "Exploring"}
    BY <1>1 DEF CycleFails, CyclePaused, Outcome
  <2>2. ~Pending /\ ~Pending' /\ IsObservation(Nothing)'
    BY <2>1, Zenon DEF Pending, IsObservation, Nothing
  <2>3. IsObservation(result.observed)'
    BY <2>1, <2>2, Zenon DEF IsObservation, Nothing
  <2>4. ValueInv'
    BY <1>0, <2>1, <2>3, ZenonT(30) DEF ValueInv
  <2>5. SavedInv'
    BY <1>0, <2>1, <2>2, ZenonT(30)  DEF SavedInv
  <2>6. QED  BY <1>0, <2>4, <2>5, ZenonT(30)
<1>2. CASE LoseResult
  <2>1. /\ result # NoParam /\ result' = NoParam /\ UNCHANGED <<coolFor, sinceChange>>
        /\ unsaved' = (unsaved \/ result.changed # NoParam)
    BY <1>2, Zenon DEF LoseResult
  <2>2. ~Pending' /\ (~unsaved' => ~unsaved /\ ~Pending)
    BY <2>1, Zenon DEF Pending
  <2>3. ValueInv'
    BY <1>0, <2>1, Zenon DEF ValueInv
  <2>4. SavedInv'
    BY <1>0, <2>1, <2>2, ZenonT(30)  DEF SavedInv
  <2>5. QED  BY <1>0, <2>3, <2>4, Zenon
<1>3. CASE PassTuningTime
  <2>1. /\ UNCHANGED <<result, unsaved>> /\ sinceChange < Cooldown /\ sinceChange' = sinceChange + 1
        /\ coolFor' = IF coolFor > 0 THEN coolFor - 1 ELSE 0
    BY <1>3, Zenon DEF PassTuningTime
  <2>2. Pending' = Pending
    BY <2>1, Zenon DEF Pending
  <2>3. ValueInv'
    BY <1>0, <2>1, ZenonT(30)  DEF ValueInv, IsObservation
  <2>4. coolFor' \in 0 .. Cooldown /\ sinceChange' \in 0 .. Cooldown
        /\ (coolFor + sinceChange >= Cooldown => coolFor' + sinceChange' >= Cooldown)
    BY <2>1, TuningAssumption DEF SavedInv
  <2>5. SavedInv'
    BY <1>0, <2>1, <2>2, <2>4, Zenon DEF SavedInv
  <2>6. QED  BY <1>0, <2>3, <2>5, Zenon
<1>4. QED  BY <1>1, <1>2, <1>3, Zenon

LEMMA TuningStep == ValueInv /\ SavedInv /\ TuningNext => (ValueInv /\ SavedInv)'
  BY CycleKeeps, PersistKeeps, OtherTuningKeeps, Zenon DEF TuningNext

LEMMA TuningTypes == ValueInv /\ SavedInv => TuningTypeOK
<1> SUFFICES ASSUME ValueInv, SavedInv PROVE TuningTypeOK
  BY Zenon
<1>1. \A p \in Param : live[p] \in Value \cup {NoDefault} /\ values[p] \in Value \cup {NoDefault}
  BY RangeValue, Zenon DEF ValueInv
<1>2. QED  BY <1>1, Zenon DEF ValueInv, SavedInv, TuningTypeOK
=============================================================================
