---------------------------- MODULE MCAuditVerify ---------------------------
(* Instances of AuditVerify for TLC. *)
EXTENDS AuditVerify

CONSTANTS c1, c2

\* c2 is hashed with the amount as the agent wrote it, "100.0"; the column
\* gives the amount "100.00" of c1 back.
StoredRounded == [c \in Contents |-> c1]
=============================================================================
