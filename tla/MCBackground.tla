---------------------------- MODULE MCBackground ----------------------------
EXTENDS Background, TLC

Amount(c, m, u) == [cores |-> c, memory |-> m, cost |-> u]

MCTenantProfiles ==
  "t1" :> {[namespaces |-> {"a"}, budgets |-> [cores |-> 2, memory |-> 0, cost |-> NoNumber]],
           [namespaces |-> {"a", "b"}, budgets |-> [cores |-> 0, memory |-> 1, cost |-> 1]],
           [namespaces |-> {"a"}, budgets |-> NoBudget]}
  @@ "t2" :> {[namespaces |-> {"c"}, budgets |-> [cores |-> 0, memory |-> 2, cost |-> 0]]}
MCUsage == {Amount(0, 0, 0), Amount(2, 1, 1)}
MCDeltas == {Amount(0, 0, 0), Amount(0, 1, 0), Amount(1, 0, 1)}

MCGuarantee == "t1" :> 1 @@ "t2" :> 2
MCCores == "t1" :> {0, 1, 2} @@ "t2" :> {1, 2}

Share(w, g, b, m) == [weight |-> w, guaranteed |-> g, burstable |-> b, maxBurst |-> m]

\* With and without a cap, a guarantee, burst; guarantees that do not fit; a cap
\* below the guarantee.
MCInputs ==
  [1 .. 3 -> {Share(1, 0, TRUE, 0), Share(3, 0, TRUE, 30), Share(1, 20, TRUE, 30),
              Share(3, 20, TRUE, 60), Share(1, 50, FALSE, 0), Share(1, 50, FALSE, 30),
              Share(1, 50, TRUE, 60), Share(3, 20, FALSE, 60), Share(2, 10, TRUE, 20)}]
MCIdleInputs == [t \in 1 .. 3 |-> Share(1, 0, TRUE, 0)]

\* Defaults out of bounds, missing and between them.
MCParams == <<[type |-> "integer", min |-> 0, max |-> 6, step |-> 3, default |-> 12],
              [type |-> "integer", min |-> 2, max |-> 4, step |-> 2, default |-> NoDefault],
              [type |-> "string", min |-> 1, max |-> 2, step |-> 1, default |-> 2]>>

MCSetting == "a" :> {0, 4} @@ "b" :> {4, Text}
MCLower == "a" :> 1 @@ "b" :> Unbounded
MCUpper == "a" :> Unbounded @@ "b" :> 3
MCIdleData == "a" :> Absent @@ "b" :> Absent
=============================================================================
