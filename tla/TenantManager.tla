---------------------------- MODULE TenantManager ----------------------------
(***************************************************************************)
(* internal/tenant/manager.go with its two writers: the TenantProfile      *)
(* reconciler replaces the profiles (UpdateProfiles), the refresh loop     *)
(* queries the usage of each tenant's namespaces without the lock and      *)
(* stores it under the lock.  CheckQuota (quota.go) reads the result.      *)
(*                                                                         *)
(* A profile is [namespaces, budgets]; budgets is NoBudget or maps each    *)
(* resource to its limit, 0 for none.  The limit of "cost" is text: a      *)
(* number or NoNumber, which stands for "" and for what does not parse.    *)
(*                                                                         *)
(* Usage is in the unit of the metric that is queried, and that is not     *)
(* always the unit of the budget: "memory" is GiB in both, "cost" is       *)
(* dollars per hour against dollars per month, "cores" a counter of CPU    *)
(* seconds against cores.  The code compares the numbers as they are.      *)
(***************************************************************************)
EXTENDS Integers, FiniteSets

CONSTANTS
  Tenant,
  TenantProfiles,    \* the profiles that each TenantProfile may have
  Usage,             \* what the queries for a tenant may answer
  Deltas,            \* the increases that CheckQuota is asked about
  NoProfile, NoBudget, NoNumber

Resource == {"cores", "memory", "cost"}

ASSUME TenantAssumption ==
  /\ Usage \subseteq [Resource -> Nat]
  /\ Deltas \subseteq [Resource -> Nat]
  /\ NoNumber \notin Nat
  /\ \A t \in Tenant : \A p \in TenantProfiles[t] :
       /\ p.budgets # NoBudget =>
            \A r \in Resource : p.budgets[r] \in Nat \/ (r = "cost" /\ p.budgets[r] = NoNumber)
       /\ NoProfile \notin [namespaces : {p.namespaces}, limit : [Resource -> Nat],
                            usage : [Resource -> Nat]]
       /\ NoProfile \notin [name : {t}, namespaces : {p.namespaces}, used : Usage,
                            bad : SUBSET Resource]

VARIABLES
  crs,        \* the TenantProfile resources: a profile, or NoProfile
  dirty,      \* a change of them is not reconciled yet
  tenants,    \* m.tenants: [namespaces, limit, usage], or NoProfile
  synced,     \* m.profiles
  refresh,    \* Refresh: [todo, hand], hand being the answers not stored yet
  replaced,   \* history: tenants whose profile changed since Refresh began
  settled,    \* history: tenants whose profile did not change since the
              \*   Refresh that stored their usage began
  sampled     \* history: the answers of that Refresh, with those that the failed
              \*   queries would have had

managerVars == <<crs, dirty, tenants, synced, refresh, replaced, settled, sampled>>

NoUsage == [r \in Resource |-> 0]
Idling == [todo |-> {}, hand |-> NoProfile]

ManagerInit ==
  /\ crs = [t \in Tenant |-> NoProfile]
  /\ dirty = FALSE
  /\ tenants = [t \in Tenant |-> NoProfile]
  /\ synced = [t \in Tenant |-> NoProfile]
  /\ refresh = Idling
  /\ sampled = [t \in Tenant |-> NoProfile]
  /\ replaced = {}
  /\ settled = {}

-----------------------------------------------------------------------------
\* Someone creates, edits or deletes a TenantProfile.
EditProfile(t, p) ==
  /\ crs[t] # p
  /\ crs' = [crs EXCEPT ![t] = p]
  /\ dirty' = TRUE
  /\ UNCHANGED <<tenants, synced, refresh, replaced, settled, sampled>>

\* A cost limit that is not a number leaves the previous one in force.
NewLimit(budgets, old) ==
  [r \in Resource |-> IF budgets = NoBudget THEN 0
                      ELSE IF budgets[r] = NoNumber THEN old[r] ELSE budgets[r]]

\* Mutant: a profile without budgets leaves the limits alone.
UpdateProfilesKeepsLimit(profiles) ==
  tenants' = [t \in Tenant |->
    IF profiles[t] = NoProfile THEN NoProfile
    ELSE LET old == IF tenants[t] = NoProfile
                    THEN [namespaces |-> {}, limit |-> NoUsage, usage |-> NoUsage] ELSE tenants[t]
         IN  [namespaces |-> profiles[t].namespaces,
              limit |-> IF profiles[t].budgets = NoBudget THEN old.limit
                        ELSE NewLimit(profiles[t].budgets, old.limit),
              usage |-> old.usage]]

\* Tenants that are gone are dropped; the others keep their usage.
UpdateProfiles(profiles) ==
  tenants' = [t \in Tenant |->
    IF profiles[t] = NoProfile THEN NoProfile
    ELSE LET old == IF tenants[t] = NoProfile
                    THEN [namespaces |-> {}, limit |-> NoUsage, usage |-> NoUsage] ELSE tenants[t]
         IN  [namespaces |-> profiles[t].namespaces,
              limit      |-> NewLimit(profiles[t].budgets, old.limit),
              usage      |-> old.usage]]

\* The reconciler lists all profiles and hands them to the manager.  (A failed
\* List is retried.)
ReconcileProfiles ==
  /\ dirty
  /\ dirty' = FALSE
  /\ UpdateProfiles(crs)
  /\ synced' = crs
  /\ LET changed == {t \in Tenant : crs[t] # synced[t]} IN
       /\ replaced' = replaced \cup changed
       /\ settled' = settled \ changed
       /\ sampled' = [t \in Tenant |-> IF t \in changed THEN NoProfile ELSE sampled[t]]
  /\ UNCHANGED <<crs, refresh>>

\* Refresh copies the names and namespaces of all tenants; those without
\* namespaces are skipped.
StartRefresh ==
  /\ refresh = Idling
  /\ refresh' = [refresh EXCEPT !.todo =
       {[name |-> t, namespaces |-> tenants[t].namespaces] :
          t \in {t \in Tenant : tenants[t] # NoProfile /\ tenants[t].namespaces # {}}}]
  /\ replaced' = {}
  /\ UNCHANGED <<crs, dirty, tenants, synced, settled, sampled>>

\* The queries for one tenant, in any order of the tenants; those in bad fail.
QueryUsage(e, u, bad) ==
  /\ refresh.hand = NoProfile
  /\ refresh' = [todo |-> refresh.todo \ {e},
                 hand |-> [name |-> e.name, namespaces |-> e.namespaces, used |-> u, bad |-> bad]]
  /\ UNCHANGED <<crs, dirty, tenants, synced, replaced, settled, sampled>>

\* A query that fails counts as 0.
Answered(h) == [r \in Resource |-> IF r \in h.bad THEN 0 ELSE h.used[r]]

\* The answers are stored if the tenant is still there.
StoreUsage ==
  /\ refresh.hand # NoProfile
  /\ LET h == refresh.hand IN
       /\ tenants' = IF tenants[h.name] = NoProfile THEN tenants
                     ELSE [tenants EXCEPT ![h.name].usage = Answered(h)]
       /\ settled' = IF h.name \in replaced THEN settled ELSE settled \cup {h.name}
       /\ sampled' = IF h.name \in replaced THEN sampled ELSE [sampled EXCEPT ![h.name] = h]
  /\ refresh' = [refresh EXCEPT !.hand = NoProfile]
  /\ UNCHANGED <<crs, dirty, synced, replaced>>

ManagerNext ==
  \/ \E t \in Tenant : \E p \in TenantProfiles[t] \cup {NoProfile} : EditProfile(t, p)
  \/ ReconcileProfiles
  \/ StartRefresh
  \/ \E e \in refresh.todo, u \in Usage, bad \in SUBSET Resource : QueryUsage(e, u, bad)
  \/ StoreUsage

-----------------------------------------------------------------------------
\* quota.go: no limit is exceeded by the usage plus the change; a tenant that is
\* not tracked is refused.
CheckQuota(state, delta) ==
  state # NoProfile /\ \A r \in Resource : state.limit[r] > 0 => state.usage[r] + delta[r] <= state.limit[r]

ManagerTypeOK ==
  /\ \A t \in Tenant : crs[t] \in TenantProfiles[t] \cup {NoProfile}
  /\ dirty \in BOOLEAN
  /\ \A t \in Tenant : /\ (tenants[t] = NoProfile) = (synced[t] = NoProfile)
                       /\ tenants[t] # NoProfile => /\ tenants[t].usage \in [Resource -> Nat]
                                                    /\ tenants[t].limit \in [Resource -> Nat]
  /\ settled \cup replaced \subseteq Tenant

\* A tenant whose profile did not change since the Refresh that stored its usage
\* began is tracked, and its usage is that of the namespaces its profile names
\* (UpdateProfiles and Refresh interleave freely).
UsageBelongs ==
  \A t \in settled : /\ synced[t] # NoProfile
                     /\ sampled[t].namespaces = synced[t].namespaces

\* The usage of other namespaces than the profile's outlives a change of the
\* profile by at most the Refresh under way and the next one.
StaleForOneRefresh ==
  refresh = Idling => \A t \in Tenant \ replaced :
    tenants[t] # NoProfile /\ tenants[t].namespaces # {} => t \in settled

\* How many units of its budget a unit of the metric of r stands for.
HoursPerMonth == 730
Unit(r) == IF r = "cost" THEN HoursPerMonth ELSE 1

\* How far CheckQuota's answers for a settled tenant can be relied on, while
\* UpdateProfiles and Refresh interleave.  If it refuses, some budget of the
\* profile would be exceeded, whichever queries failed (or the cost budget is
\* no number, and whatever was the limit before refuses).  If it allows, the
\* memory budget is kept when its query succeeded; the hourly cost counts as the
\* month's, so the month's cost is only known to stay within the budget times
\* the hours of a month.  For cores both directions are about the counter of CPU
\* seconds, which says nothing of the cores in use.
QuotaSound ==
  /\ UsageBelongs
  /\ StaleForOneRefresh
  /\ \A t \in settled, d \in Deltas :
       LET budget(r) == IF synced[t].budgets = NoBudget THEN 0 ELSE synced[t].budgets[r]
           capped    == {r \in Resource : budget(r) \notin {0, NoNumber}}
           spent(r)  == Unit(r) * sampled[t].used[r] + d[r]
       IN  IF CheckQuota(tenants[t], d)
           THEN \A r \in capped \ sampled[t].bad : spent(r) <= Unit(r) * budget(r)
           ELSE (\E r \in capped : spent(r) > budget(r)) \/ budget("cost") = NoNumber
=============================================================================
