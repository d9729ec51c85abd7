---------------------------- MODULE MCAuditChain ----------------------------
(* Instances of AuditChain for TLC. *)
EXTENDS AuditChain

\* Every content comes back from the database as it was hashed.
StoredExact == [c \in Contents |-> c]
=============================================================================
