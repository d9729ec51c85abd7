---------------------------- MODULE MCAuditTamper ---------------------------
(* Instances of AuditTamper for TLC. *)
EXTENDS AuditTamper

CONSTANTS c1, c2, c3

\* c2 is hashed with the amount as the agent wrote it, "100.0"; the column
\* gives the amount "100.00" of c1 back.
StoredRounded == [c \in Contents |-> IF c = c2 THEN c1 ELSE c]
=============================================================================
