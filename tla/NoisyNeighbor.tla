---------------------------- MODULE NoisyNeighbor ----------------------------
(***************************************************************************)
(* internal/tenant/noisy_neighbor.go: the detector keeps the recent usage  *)
(* of each tenant, flags one whose usage grew by more than half within the *)
(* window while others are below their guarantee, and lets the flags       *)
(* expire after two windows.                                               *)
(*                                                                         *)
(* A time stamp is its age in ticks.  Ages stop growing where the code no  *)
(* longer tells them apart: a sample past the window, a flag past two.     *)
(***************************************************************************)
EXTENDS Integers, Sequences, FiniteSets, FiniteSetsExt

CONSTANTS
  Watched,     \* the tenants
  Cores,       \* the usages of each tenant
  Guarantee,   \* guaranteedCores
  Window,      \* NoisyDetectionWindow in ticks
  MaxHist, MaxAlert,
  NoFlag

ASSUME DetectorAssumption ==
  /\ IsFiniteSet(Watched)
  /\ Window \in Nat /\ MaxHist \in Nat /\ MaxAlert \in Nat /\ NoFlag \notin Nat
  /\ \A t \in Watched : Cores[t] \subseteq Int

VARIABLES
  history,   \* samples [cores, age] per tenant, oldest first
  alerts,    \* [aggressor, victims], oldest first
  noisy,     \* age of the last alert about a tenant as aggressor, or NoFlag
  victims,   \* age of the last alert that names it as a victim, or NoFlag
  rose       \* history: ticks since a Detect found the tenant grown in the window

detectorVars == <<history, alerts, noisy, victims, rose>>

Expired == 2 * Window + 1
Later(age, max) == IF age = NoFlag THEN NoFlag ELSE Min({age + 1, max})

DetectorInit ==
  /\ history = [t \in Watched |-> <<>>]
  /\ alerts = <<>>
  /\ noisy = [t \in Watched |-> NoFlag]
  /\ victims = [t \in Watched |-> NoFlag]
  /\ rose = [t \in Watched |-> Expired]

\* Mutant: one entry more is kept.
LastNAndOne(s, n) == IF Len(s) > n + 1 THEN SubSeq(s, Len(s) - n, Len(s)) ELSE s

LastN(s, n) == IF Len(s) > n THEN SubSeq(s, Len(s) - n + 1, Len(s)) ELSE s

RecordUsage(t, c) ==
  /\ history' = [history EXCEPT ![t] = LastN(Append(@, [cores |-> c, age |-> 0]), MaxHist)]
  /\ UNCHANGED <<alerts, noisy, victims, rose>>

Recent(h) == {i \in 1 .. Len(h) : h[i].age <= Window}

\* Mutant: the oldest sample is the baseline, however old.
GrewOldest(h) ==
  Len(h) >= 2 /\ h[1].cores > 0 /\ 2 * (h[Len(h)].cores - h[1].cores) > h[1].cores

\* From the first sample inside the window to the latest, by more than half;
\* no growth from nothing.
Grew(h) ==
  /\ Len(h) >= 2
  /\ Recent(h) # {}
  /\ LET baseline == h[Min(Recent(h))].cores
     IN  baseline > 0 /\ 2 * (h[Len(h)].cores - baseline) > baseline

\* currentCores is the usage of the refresh cycle that was recorded last; a
\* tenant without any is not in the map.
Starved ==
  {t \in Watched : /\ Guarantee[t] > 0
                   /\ history[t] # <<>>
                   /\ history[t][Len(history[t])].cores < Guarantee[t]}

\* Aggressors are alerted about in any order (map iteration).
Detect ==
  LET relevant(a) == Starved \ {a}
      aggressors  == {a \in Watched : Grew(history[a]) /\ relevant(a) # {}}
      grown       == {a \in Watched : \E i \in Recent(history[a]) :
                        2 * history[a][Len(history[a])].cores > 3 * history[a][i].cores}
  IN  /\ \E order \in [1 .. Cardinality(aggressors) -> aggressors] :
           /\ \A a \in aggressors : \E i \in DOMAIN order : order[i] = a
           /\ alerts' = LastN(alerts \o [i \in DOMAIN order |->
                                [aggressor |-> order[i], victims |-> relevant(order[i])]], MaxAlert)
      /\ noisy' = [t \in Watched |-> IF t \in aggressors THEN 0 ELSE noisy[t]]
      /\ victims' = [t \in Watched |-> IF \E a \in aggressors : t \in relevant(a) THEN 0
                                       ELSE victims[t]]
      /\ rose' = [t \in Watched |-> IF t \in grown /\ relevant(t) # {} THEN 0 ELSE rose[t]]
      /\ UNCHANGED history

Flagged(age) == age # NoFlag /\ age <= 2 * Window

\* A read removes a flag that has expired.
IsNoisy(t) ==
  /\ noisy' = [noisy EXCEPT ![t] = IF Flagged(@) THEN @ ELSE NoFlag]
  /\ UNCHANGED <<history, alerts, victims, rose>>

IsVictim(t) ==
  /\ victims' = [victims EXCEPT ![t] = IF Flagged(@) THEN @ ELSE NoFlag]
  /\ UNCHANGED <<history, alerts, noisy, rose>>

ClockTick ==
  /\ history' = [t \in Watched |-> [i \in DOMAIN history[t] |->
                   [history[t][i] EXCEPT !.age = Later(@, Window + 1)]]]
  /\ noisy' = [t \in Watched |-> Later(noisy[t], Expired)]
  /\ victims' = [t \in Watched |-> Later(victims[t], Expired)]
  /\ rose' = [t \in Watched |-> Later(rose[t], Expired)]
  /\ UNCHANGED alerts

DetectorNext ==
  \/ \E t \in Watched : \E c \in Cores[t] : RecordUsage(t, c)
  \/ Detect
  \/ \E t \in Watched : IsNoisy(t) \/ IsVictim(t)
  \/ ClockTick

DetectorTypeOK ==
  /\ \A t \in Watched : /\ Len(history[t]) <= MaxHist
                        /\ \A i \in 1 .. Len(history[t]) - 1 : history[t][i].age >= history[t][i + 1].age
                        /\ {noisy[t], victims[t]} \subseteq 0 .. Expired \cup {NoFlag}
  /\ Len(alerts) <= MaxAlert

\* A tenant is flagged as noisy only if, at a Detect in the last two windows,
\* its usage had grown by more than half from a sample of the window before; and
\* as long as a tenant is flagged as a victim another one is flagged as noisy
\* (the two flags are kept and expire apart from each other).  Growth is the
\* code's only criterion: a tenant below its fair share is flagged when it grows
\* and one that stays at a multiple of it never is, unlike in
\* docs/crds/tenant-profile.md and docs/architecture.md.
FlagsFollowGrowth ==
  \A t \in Watched : /\ Flagged(noisy[t]) => rose[t] <= noisy[t]
                     /\ Flagged(victims[t]) => \E a \in Watched \ {t} : Flagged(noisy[a])
=============================================================================
