------------------------------ MODULE MCAuditChain ------------------------------
(* Small instances of AuditChain for TLC. *)
EXTENDS AuditChain

CONSTANTS a1, a2

================================================================================
