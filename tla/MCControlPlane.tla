--------------------------- MODULE MCControlPlane ---------------------------
(* Three POSTs and two versions: one version at least is used twice or one  *)
(* POST is left out, and handlers overlap in every order.                  *)
EXTENDS ControlPlane, TLC

PlaneSymmetry == Permutations(Posts) \cup Permutations(Docs)
=============================================================================
