--------------------------- MODULE MCAuditChain ---------------------------
(* A small instance of AuditChain for TLC. *)
EXTENDS AuditChain
===========================================================================
