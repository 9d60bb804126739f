--------------------------- MODULE MCOptimizerLoop ---------------------------
(* Small instances of OptimizerLoop for TLC: objectives that all target the *)
(* one service, so that they share its cooldown and its breaker.            *)
EXTENDS OptimizerLoop

MCTargetOf == [so \in Objective |-> CHOOSE s \in Service : TRUE]
MCNamespaceOf == [s \in Service |-> CHOOSE n \in Namespace : TRUE]

\* A second policy raises the scale-up cooldown and leaves scale-down alone.
MCTwoPolicies == {[scale_up |-> 1, scale_down |-> 2], [scale_up |-> 2, scale_down |-> 0]}
=============================================================================
