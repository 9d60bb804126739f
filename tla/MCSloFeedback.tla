---------------------------- MODULE MCSloFeedback ----------------------------
(* A small instance of SloFeedback for TLC. *)
EXTENDS SloFeedback

MCTargetOf == [so \in Objective |-> CHOOSE s \in Service : TRUE]
MCNamespaceOf == [s \in Service |-> CHOOSE n \in Namespace : TRUE]
MCOnePolicy == {[scale_up |-> 1, scale_down |-> 2]}
=============================================================================
