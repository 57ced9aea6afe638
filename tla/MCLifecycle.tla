---------------------------- MODULE MCLifecycle ----------------------------
(* Two callers of shutdown, so that one finds the other in stopOnce.  One   *)
(* rule, one hit and two events are enough for either flush to come first, *)
(* to fail, and to find something again.                                   *)
EXTENDS Lifecycle, TLC

CallerSymmetry == Permutations(Callers)
=============================================================================
