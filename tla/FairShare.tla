------------------------------ MODULE FairShare ------------------------------
(***************************************************************************)
(* internal/tenant/fairshare.go and fairness.go: the three-phase           *)
(* fair-share allocation, the status it gives a tenant, and Jain's index.  *)
(*                                                                         *)
(* An input maps each tenant to [weight, guaranteed, burstable, maxBurst], *)
(* guaranteed and maxBurst being percentages of the cluster and a zero     *)
(* maxBurst meaning no cap.  Floats are fixed-point numbers in 1/10000     *)
(* core and divisions round down, so results are off by at most Slack.     *)
(* Each round of the reclaim loop is a step.                               *)
(***************************************************************************)
EXTENDS Integers, FiniteSets, Functions

CONSTANTS
  Inputs,        \* the inputs to try
  clusterCores   \* in 1/10000 core

VARIABLES
  inputs,   \* the argument of ComputeFairShares
  bursts,   \* BurstCores of each tenant
  round     \* of the reclaim loop; Rounds when it is left

shareVars == <<inputs, bursts, round>>

Rounds == 10
Epsilon == 10   \* 0.001 cores
Slack == 100

\* What the TenantProfile's validation admits.
ShareAssumption ==
  /\ clusterCores \in Nat \ {0}
  /\ \A in \in Inputs :
       /\ IsFiniteSet(DOMAIN in)
       /\ \A t \in DOMAIN in : /\ in[t].weight \in Nat \ {0}
                              /\ in[t].guaranteed \in Nat
                              /\ in[t].burstable \in BOOLEAN
                              /\ in[t].maxBurst \in Nat

ASSUME FairShareAssumption == ShareAssumption

\* A zero MaxBurstPercent means no cap.
Ceiling(in) == (clusterCores * in.maxBurst) \div 100
Capped(in) == in.maxBurst > 0

guarantee ==
  [t \in DOMAIN inputs |-> (clusterCores * inputs[t].guaranteed) \div 100]

Burstable == {t \in DOMAIN inputs : inputs[t].burstable}

\* x * w / W without leaving 32 bits.
Portion(x, w, W) == (x \div W) * w + ((x % W) * w) \div W

\* What the tenants in S get of x, by weight.
ByWeight(x, S) ==
  LET weight == SumFunctionOnSet([t \in DOMAIN inputs |-> inputs[t].weight], S)
  IN  [t \in DOMAIN inputs |->
         IF t \in S /\ weight > 0 THEN Portion(x, inputs[t].weight, weight) ELSE 0]

\* Phase 2: what the guarantees leave goes to the burstable tenants.
burst ==
  LET left == clusterCores - SumFunction(guarantee)
  IN  ByWeight(IF left < 0 THEN 0 ELSE left, Burstable)

\* Phase 3.  The whole excess counts as reclaimed, also the part that is
\* guaranteed and cannot be cut.
excess(b) ==
  [t \in DOMAIN inputs |->
     LET over == guarantee[t] + b[t] - Ceiling(inputs[t])
     IN  IF Capped(inputs[t]) /\ over > 0 THEN over ELSE 0]

\* Mutant: a tenant over its cap loses all of its burst.
cutToCapAll(b) == [t \in DOMAIN inputs |-> IF excess(b)[t] > 0 THEN 0 ELSE b[t]]

cutToCap(b) ==
  [t \in DOMAIN inputs |-> IF b[t] < excess(b)[t] THEN 0 ELSE b[t] - excess(b)[t]]

\* The burstable tenants that are not at their cap get what was reclaimed.
uncapped(b) ==
  {t \in Burstable : Capped(inputs[t]) => guarantee[t] + b[t] < Ceiling(inputs[t]) - Epsilon}

redistribute(b, reclaimed) ==
  [t \in DOMAIN inputs |-> b[t] + ByWeight(reclaimed, uncapped(b))[t]]

ShareInit ==
  /\ inputs \in Inputs
  /\ bursts = burst
  /\ round = 0

\* One round; one that reclaims nothing to speak of ends the loop.
capAndReclaim ==
  /\ round < Rounds
  /\ LET reclaimed == SumFunction(excess(bursts))
     IN  IF reclaimed < Epsilon
         THEN bursts' = cutToCap(bursts) /\ round' = Rounds
         ELSE /\ bursts' = redistribute(cutToCap(bursts), reclaimed)
              /\ round' = round + 1
  /\ UNCHANGED inputs

\* The shares once the loop is left, capped once more.
ComputeFairShares ==
  [t \in DOMAIN inputs |->
     LET g   == guarantee[t]
         cap == Ceiling(inputs[t])
     IN  [guaranteed |-> g,
          total |-> IF Capped(inputs[t]) /\ g + bursts[t] > cap
                    THEN IF g > cap THEN g ELSE cap
                    ELSE g + bursts[t],
          max |-> IF Capped(inputs[t]) THEN cap ELSE clusterCores]]

AllocationStatusFor(current, share) ==
  IF share.guaranteed <= 0 THEN IF current > 0 THEN "bursting" ELSE "under_allocated"
  ELSE CASE current > share.total                 -> "throttled"
         [] share.guaranteed < current /\ current <= share.total -> "bursting"
         [] OTHER -> IF 10 * current >= 8 * share.guaranteed THEN "guaranteed" ELSE "under_allocated"

\* Jain's index of usage over guarantee as [num, den]; <<>> without a guarantee.
\* The ratios are in hundredths.
ComputeFairness(current, guaranteed) ==
  LET owed == {t \in DOMAIN guaranteed : guaranteed[t] > 0}
      x    == [t \in owed |-> (100 * current[t]) \div guaranteed[t]]
      sum  == SumFunction(x)
      sum2 == SumFunction([t \in owed |-> x[t] * x[t]])
  IN  IF owed = {} THEN <<>>
      ELSE IF sum2 = 0 THEN [num |-> 1, den |-> 1]
      ELSE [num |-> sum * sum, den |-> Cardinality(owed) * sum2]

-----------------------------------------------------------------------------
\* The guarantees fit into the cluster, and no cap is below its guarantee.
SaneInputs ==
  /\ SumFunction([t \in DOMAIN inputs |-> inputs[t].guaranteed]) <= 100
  /\ \A t \in DOMAIN inputs : Capped(inputs[t]) => inputs[t].guaranteed <= inputs[t].maxBurst

SoundShares(s) ==
  LET sum  == SumFunction([t \in DOMAIN s |-> s[t].total])
      jain == ComputeFairness([t \in DOMAIN s |-> s[t].total \div 10000],
                              [t \in DOMAIN s |-> s[t].guaranteed \div 10000])
  IN  /\ \A t \in DOMAIN s :
           /\ s[t].total >= s[t].guaranteed
           /\ Capped(inputs[t]) => s[t].total <= s[t].max \/ s[t].guaranteed > s[t].max
           /\ AllocationStatusFor(s[t].guaranteed, s[t]) # "throttled"
      /\ SaneInputs => sum <= clusterCores
      /\ SaneInputs /\ Cardinality(DOMAIN s) < Rounds /\ sum < clusterCores - Slack =>
           \A t \in Burstable : Capped(inputs[t]) /\ s[t].total >= Ceiling(inputs[t]) - Slack
      /\ jain # <<>> => jain.num <= jain.den /\ jain.den <= Cardinality(DOMAIN s) * jain.num

\* No tenant gets less than its guarantee, nor more than its cap where the cap is
\* not below the guarantee; so one that uses no more than its guarantee is never
\* throttled.  If the inputs are sane the shares fit into the cluster, and with
\* fewer tenants than rounds nothing is left over while a burstable tenant is
\* below its cap (the reclaim loop converges).  Jain's index of the shares is
\* between 1/n and 1.
SharesSound == round = Rounds => SoundShares(ComputeFairShares)
=============================================================================
