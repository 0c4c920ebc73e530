--------------------------- MODULE MCAuditVerify --------------------------
(* Small instances of AuditVerify for TLC. *)
EXTENDS AuditVerify

===========================================================================
