---------------------------- MODULE GlobalSolver ----------------------------
(***************************************************************************)
(* The hub's global solver, internal/global/solver.go: which share of the  *)
(* traffic each cluster should get and which clusters should hibernate or  *)
(* wake up, from one snapshot of all clusters and the GlobalPolicy.        *)
(*                                                                         *)
(* A cluster is its position in the input slice.  A snapshot maps each     *)
(* cluster to [health, util, slo, cost, carbon]; util is the CPU           *)
(* utilisation in percent, or NoCapacity while the ClusterProfile has no   *)
(* capacity (TotalCores = 0).  The scores, floats in [0,1] in the code,    *)
(* are integers in units of 1/10000: exact for attributes whose quotients  *)
(* by the maximum are whole percents.                                      *)
(***************************************************************************)
EXTENDS Integers, FiniteSets, FiniteSetsExt, Functions

CONSTANT NoCapacity

Health == {"Healthy", "Degraded", "Unreachable", "Hibernating"}

\* SnapshotFromProfile: without a capacity all core counts stay zero.
SnapshotFromProfile(health, capacity, slo, cost, carbon) ==
  [health |-> health, util |-> capacity, slo |-> slo, cost |-> cost, carbon |-> carbon]

UtilizationPercent(c) == IF c.util = NoCapacity THEN 0 ELSE c.util

\* FreeCores / TotalCores in percent, zero without a capacity.
FreePercent(c) == IF c.util = NoCapacity THEN 0 ELSE 100 - c.util

\* Percent weights of latency, cost, carbon and SLO; "" is the balance strategy.
strategyWeights(s) ==
  CASE s = "latency" -> [latency |-> 50, cost |-> 15, carbon |-> 10, slo |-> 25]
    [] s = "cost"    -> [latency |-> 10, cost |-> 50, carbon |-> 15, slo |-> 25]
    [] s = "carbon"  -> [latency |-> 10, cost |-> 15, carbon |-> 50, slo |-> 25]
    [] OTHER         -> [latency |-> 25, cost |-> 25, carbon |-> 25, slo |-> 25]

-----------------------------------------------------------------------------
(* Traffic weights. *)

eligibleForTraffic(snap, minSLO) ==
  {c \in DOMAIN snap : /\ snap[c].health \notin {"Hibernating", "Unreachable"}
                       /\ minSLO > 0 => snap[c].slo >= minSLO}

\* A value that is better when lower, inverted against the largest one.
Inverted(x, max) == IF max > 0 THEN 100 - (100 * x) \div max ELSE 100

scoreAll(snap, clusters, strategy) ==
  LET w         == strategyWeights(strategy)
      maxCost   == Max({snap[c].cost : c \in clusters} \cup {0})
      maxCarbon == Max({snap[c].carbon : c \in clusters} \cup {0})
  IN  [c \in clusters |->
         w.latency * FreePercent(snap[c]) + w.cost * Inverted(snap[c].cost, maxCost)
           + w.carbon * Inverted(snap[c].carbon, maxCarbon) + w.slo * Min({snap[c].slo, 100})]

Clamp(x, low, high) == IF x < low THEN low ELSE IF x > high THEN high ELSE x

\* math.Round of num / den, num >= 0.
Round(num, den) == (2 * num + den) \div (2 * den)

\* The first of the best-scored clusters.
Best(scores) ==
  Min({c \in DOMAIN scores : \A d \in DOMAIN scores : scores[d] <= scores[c]})

\* Mutant: the weights are rounded and left so.
scoresToWeightsUnadjusted(scores, maxShiftPercent) ==
  LET n        == Cardinality(DOMAIN scores)
      T        == SumFunction(scores)
      maxShift == (IF maxShiftPercent <= 0 THEN 25 ELSE maxShiftPercent) * n * T
  IN  IF T = 0 THEN [c \in DOMAIN scores |-> 100 \div n]
      ELSE [c \in DOMAIN scores |->
              Max({1, Round(100 * T + Clamp(100 * n * scores[c] - 100 * T, -maxShift, maxShift), n * T)})]

\* With n clusters and the total score T all fractions are over n * T.  What
\* rounding, the clamp and the floor of 1 add or take goes to the best cluster.
scoresToWeights(scores, maxShiftPercent) ==
  LET n        == Cardinality(DOMAIN scores)
      T        == SumFunction(scores)
      maxShift == (IF maxShiftPercent <= 0 THEN 25 ELSE maxShiftPercent) * n * T
      rounded  == [c \in DOMAIN scores |->
                     Max({1, Round(100 * T + Clamp(100 * n * scores[c] - 100 * T,
                                                   -maxShift, maxShift), n * T)})]
  IN  IF T = 0 THEN [c \in DOMAIN scores |-> 100 \div n]
      ELSE [rounded EXCEPT ![Best(scores)] = @ + 100 - SumFunction(rounded)]

\* The plan of the traffic directive: weights by cluster, empty when there is
\* no directive because fewer than two clusters are eligible.
solveTrafficWeights(snap, ts) ==
  LET eligible == eligibleForTraffic(snap, ts.minSLO)
  IN  IF Cardinality(eligible) < 2 THEN <<>>
      ELSE scoresToWeights(scoreAll(snap, eligible, ts.strategy), ts.maxShift)

-----------------------------------------------------------------------------
(* Hibernation and wake-up. *)

ActiveClusters(snap) == {c \in DOMAIN snap : snap[c].health # "Hibernating"}

\* Clusters the loop over the sorted snapshots would hibernate if it got to them.
Idle(snap, lc) ==
  {c \in DOMAIN snap : /\ c \notin lc.excluded
                       /\ snap[c].health \notin {"Hibernating", "Unreachable"}
                       /\ UtilizationPercent(snap[c]) <
                            (IF lc.idleThreshold <= 0 THEN 10 ELSE lc.idleThreshold)}

\* Mutant: the loop stops only below minActive.
HibernateChoicesBelow(snap, lc) ==
  LET spare == Max({0, Cardinality(ActiveClusters(snap)) - lc.minActive + 1})
      idle  == Idle(snap, lc)
  IN  {S \in kSubset(Min({spare, Cardinality(idle)}), idle) :
         \A c \in S, d \in idle \ S :
            UtilizationPercent(snap[c]) <= UtilizationPercent(snap[d])}

\* The loop takes idle clusters in the order of their utilisation, in any order
\* among equals (sort.Slice), until only minActive active ones are left.
HibernateChoices(snap, lc) ==
  LET minActive == IF lc.minActive <= 0 THEN 1 ELSE lc.minActive
      spare     == Max({0, Cardinality(ActiveClusters(snap)) - minActive})
      idle      == Idle(snap, lc)
  IN  {S \in kSubset(Min({spare, Cardinality(idle)}), idle) :
         \A c \in S, d \in idle \ S :
            UtilizationPercent(snap[c]) <= UtilizationPercent(snap[d])}

\* The first hibernating cluster, when every active one is at 80% or more.
Wake(snap) ==
  LET asleep == DOMAIN snap \ ActiveClusters(snap)
  IN  IF asleep # {} /\ \A c \in ActiveClusters(snap) : UtilizationPercent(snap[c]) >= 80
      THEN {Min(asleep)} ELSE {}

\* The possible outcomes of solveLifecycle.
solveLifecycle(snap, lc) ==
  IF ~lc.hibernationEnabled THEN {[hibernate |-> {}, wakeUp |-> {}]}
  ELSE {[hibernate |-> S, wakeUp |-> Wake(snap)] : S \in HibernateChoices(snap, lc)}
=============================================================================
