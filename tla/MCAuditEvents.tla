--------------------------- MODULE MCAuditEvents ---------------------------
(* A buffer of three events posted two at a time: a flush takes two posts,  *)
(* one batch can fail while the other does not, and four recorded events    *)
(* overflow the buffer while a batch is on the wire.                        *)
EXTENDS AuditEvents
=============================================================================
