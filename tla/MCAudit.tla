-------------------------------- MODULE MCAudit --------------------------------
(* Instances of AuditLog for TLC. *)
EXTENDS AuditLog, TLC
===============================================================================
