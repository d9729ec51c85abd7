---------------------------- MODULE AuditTamper -----------------------------
(***************************************************************************)
(* What verify_chain promises in its docstring: the log of AuditVerify     *)
(* with one change made to audit_events behind the back of the handlers    *)
(* (a manual repair, a partial restore), who go on appending afterwards.   *)
(***************************************************************************)
EXTENDS AuditVerify

CONSTANT MinLeft  \* least number of rows a deletion leaves

ASSUME MinLeftAssumption == MinLeft \in Nat

\* What a column gives back it keeps when it is stored again.
ASSUME ColumnAssumption == \A c \in Contents : Stored[Stored[c]] = Stored[c]

VARIABLES
  tampered,  \* has the table been changed?
  after      \* did the running or last verification start after the change?

tamperVars == <<tampered, after>>

TamperInit == Init /\ VerifyInit /\ tampered = FALSE /\ after = FALSE

Change(rows) ==
  /\ ~tampered
  /\ tampered' = TRUE
  /\ events' = rows
  /\ UNCHANGED <<unchained, head, lock, pc, tx, started, verifyVars, after>>

Storable == {Stored[c] : c \in Contents}

DeleteRow ==
  \E e \in events :
    /\ Cardinality(events) > MinLeft
    /\ Change(events \ {e})

\* Another content that the columns can hold, with the old hash or with a
\* hash that fits.
EditRow ==
  \E e \in events, c \in Storable :
    /\ c # e.content
    /\ \E h \in {e.hash, Digest(e.prev, c)} :
         Change((events \ {e}) \cup {[e EXCEPT !.content = c, !.hash = h]})

SwapRows ==
  \E e, f \in events :
    /\ e.seq < f.seq
    /\ Change((events \ {e, f}) \cup {[e EXCEPT !.seq = f.seq], [f EXCEPT !.seq = e.seq]})

\* A row that continues the row before it, in front of the one that did. (At
\* the end of the log the model could not tell it from the next real event.)
InsertRow ==
  \E e \in {f \in events : f.seq < head.seq}, c \in Storable :
    LET r == [seq |-> e.seq + 1, prev |-> e.hash, content |-> c, hash |-> Digest(e.hash, c)]
    IN  r \notin events /\ Change(events \cup {r})

Tamper == DeleteRow \/ EditRow \/ SwapRows \/ InsertRow

TamperNext ==
  \/ Tamper
  \/ ReadEvents /\ after' = tampered /\ UNCHANGED tampered
  \/ ReadHead /\ UNCHANGED tamperVars
  \/ HandlerStep /\ UNCHANGED tamperVars

TamperSpec == TamperInit /\ [][TamperNext]_<<vars, verifyVars, tamperVars>>

-----------------------------------------------------------------------------
(* No false alarm as long as nobody touches the table: AlarmsAreExplained  *)
(* of AuditVerify for the verifications that read the rows before.         *)
HonestAlarmsAreExplained == after \/ AlarmsAreExplained

(* A verification that starts after one row was deleted, edited, inserted  *)
(* or moved never answers "valid", even when handlers appended to the log  *)
(* in between: every later row and the head still name the old chain       *)
(* (docstring of verify_chain, "Detects tampering, deletions, re-ordering, *)
(* or insertions").                                                        *)
TamperingIsReported == after => verdict # "valid"
=============================================================================
