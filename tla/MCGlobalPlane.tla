---------------------------- MODULE MCGlobalPlane ----------------------------
(* A small hub: three clusters, one route of each kind, two policies. *)
EXTENDS GlobalPlane, TLC

MCProfiles ==
  { SnapshotFromProfile("Healthy", 5, 100, 0, 0),
    SnapshotFromProfile("Degraded", 90, 50, 1, 1),
    SnapshotFromProfile("Healthy", NoCapacity, 0, 2, 1),
    SnapshotFromProfile("Unreachable", NoCapacity, 0, 0, 0) }

MCPolicies ==
  { [minSLO |-> 0, strategy |-> "cost", maxShift |-> 25, hibernationEnabled |-> FALSE,
     idleThreshold |-> 10, minActive |-> 1, excluded |-> {}],
    [minSLO |-> 80, strategy |-> "", maxShift |-> 0, hibernationEnabled |-> TRUE,
     idleThreshold |-> 10, minActive |-> 2, excluded |-> {1}] }

Monitors == Permutations(Monitor)

Entries(w1, w2, w3, more) ==
  <<[weight |-> w1, extra |-> more], [weight |-> w2, extra |-> more], [weight |-> w3, extra |-> more]>>

MCRoutes ==
  { [kind |-> "gateway-api", entry |-> Entries(100, 0, 0, FALSE)],
    [kind |-> "istio", entry |-> Entries(34, 33, 33, FALSE)],
    [kind |-> "external-dns", entry |-> Entries(Unset, 100, Unset, TRUE)] }
=============================================================================
