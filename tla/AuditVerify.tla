---------------------------- MODULE AuditVerify -----------------------------
(***************************************************************************)
(* AuditService.verify_chain running beside the handlers that append to    *)
(* the log: it reads all events in one statement and the head row in a     *)
(* later one, each with its own READ COMMITTED snapshot.                   *)
(***************************************************************************)
EXTENDS AuditChain, SequencesExt, FiniteSetsExt

VARIABLES
  vpc,      \* what the verification does next
  snap,     \* what its query of audit_events returned
  verdict,  \* answer of the last verification
  moved     \* has the chain grown since that query? (history)

verifyVars == <<vpc, snap, verdict, moved>>

NoSnap == [rows |-> {}, unchained |-> 0]

\* Mutant: the query sorts the newest event first, as the list endpoint does.
OrdersNewestFirst(rows) == {s \in SetToSeqs(rows) : \A i, j \in DOMAIN s : i < j => s[i].seq >= s[j].seq}

\* The orders in which the query may return the rows that have a sequence
\* number: ORDER BY sequence_number leaves open which of two equal numbers
\* comes first. (PostgreSQL sorts the rows without a number behind them.)
Orders(rows) == {s \in SetToSeqs(rows) : \A i, j \in DOMAIN s : i < j => s[i].seq <= s[j].seq}

BreaksLink(s, i) == s[i].prev # (IF i = 1 THEN Genesis ELSE s[i - 1].hash)
HashDiffers(s, i) == s[i].hash # Digest(s[i].prev, s[i].content)

\* Result of the loop over the events: the first row at fault decides, and
\* a row without previous_hash never continues the chain.
LoopVerdict(s, plain) ==
  LET faults == {i \in DOMAIN s : BreaksLink(s, i) \/ HashDiffers(s, i)}
  IN  IF faults # {}
      THEN IF BreaksLink(s, Min(faults)) THEN "CHAIN_BROKEN" ELSE "HASH_TAMPERED"
      ELSE IF plain > 0 THEN "CHAIN_BROKEN" ELSE "ok"

\* The hash the loop ends with.
LastHash(s) == IF s = <<>> THEN Genesis ELSE Last(s).hash

\* Mutant: the head row is not compared.
VerdictWithoutHead(s, plain, h) == IF s = <<>> THEN "valid" ELSE
  IF LoopVerdict(s, plain) # "ok" THEN LoopVerdict(s, plain) ELSE "valid"

Verdict(s, plain, h) ==
  IF s = <<>> /\ plain = 0 THEN "valid"
  ELSE IF LoopVerdict(s, plain) # "ok" THEN LoopVerdict(s, plain)
  ELSE IF h.exists /\ h.hash # LastHash(s) THEN "HEAD_MISMATCH" ELSE "valid"

-----------------------------------------------------------------------------
VerifyInit == vpc = "idle" /\ snap = NoSnap /\ verdict = "none" /\ moved = FALSE

\* First statement; an empty table is answered at once.
ReadEvents ==
  /\ vpc = "idle"
  /\ snap' = [rows |-> events, unchained |-> unchained]
  /\ moved' = FALSE
  /\ IF events = {} /\ unchained = 0
     THEN verdict' = "valid" /\ vpc' = "idle"
     ELSE verdict' = "none"  /\ vpc' = "head"
  /\ UNCHANGED vars

\* Loop over the rows, second statement, answer.
ReadHead ==
  /\ vpc = "head"
  /\ \E s \in Orders(snap.rows) : verdict' = Verdict(s, snap.unchained, head)
  /\ vpc' = "idle"
  /\ UNCHANGED <<vars, snap, moved>>

\* A handler's step; the history variable notes what it commits meanwhile.
HandlerStep ==
  /\ Next
  /\ moved' = (moved \/ (vpc = "head" /\ events' # events))
  /\ UNCHANGED <<vpc, snap, verdict>>

VerifyNext == ReadEvents \/ ReadHead \/ HandlerStep

VerifySpec == Init /\ VerifyInit /\ [][VerifyNext]_<<vars, verifyVars>>

-----------------------------------------------------------------------------
(* No false alarm but for three known causes: the head is missed only when *)
(* a handler committed between the two statements, a link breaks only when *)
(* a budget endpoint wrote a row without hashes, and a hash differs only   *)
(* when a row was hashed over a content that its columns do not give back. *)
Rounded(rows) ==
  \E e \in rows, c \in Contents : Stored[c] # c /\ e.hash = Digest(e.prev, c)
AlarmsAreExplained ==
  \/ verdict \in {"none", "valid"}
  \/ verdict = "HEAD_MISMATCH" /\ moved
  \/ verdict = "CHAIN_BROKEN" /\ snap.unchained > 0
  \/ verdict = "HASH_TAMPERED" /\ Rounded(snap.rows)

(* The reading of README.md:18 and of the assertions on verify_chain in    *)
(* test_security_compliance.py: a log nobody tampered with verifies.       *)
UntamperedChainVerifies == verdict \in {"none", "valid"}
=============================================================================
