--------------------------- MODULE MCAuditCounts ---------------------------
(* Two rules, so that one flush can succeed for one and fail for the other.  *)
(* One run checks safety and liveness, so there is no symmetry.              *)
EXTENDS AuditCounts
=============================================================================
