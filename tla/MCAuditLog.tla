----------------------------- MODULE MCAuditLog -----------------------------
(***************************************************************************)
(* Small instances of AuditLog: two services append at once.               *)
(***************************************************************************)
EXTENDS AuditLog
=============================================================================
