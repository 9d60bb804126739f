------------------------------- MODULE MCCanary -------------------------------
(* Canary for TLC.  Watchers differ in nothing but their names, and no        *)
(* temporal property is checked with the symmetry.                            *)
EXTENDS Canary, TLC

MCSymmetry == Permutations(Watcher)
=============================================================================
