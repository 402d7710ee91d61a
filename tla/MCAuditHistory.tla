---------------------------- MODULE MCAuditHistory ----------------------------
(***************************************************************************)
(* The instances of MCTransferCompliance with their audit log dated.       *)
(***************************************************************************)
EXTENDS MCTransferCompliance, AuditHistory
=============================================================================
