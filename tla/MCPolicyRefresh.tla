-------------------------- MODULE MCPolicyRefresh --------------------------
(* Two instances, so that one can be ahead of the other.  Three posts of    *)
(* one version and three documents beside the initial version: a version   *)
(* comes again with another document, a document comes again under another *)
(* version, an earlier policy becomes active again, and an unusable one    *)
(* comes in between.                                                       *)
EXTENDS PolicyRefresh, TLC

ProcessorSymmetry == Permutations(Processors)
=============================================================================
