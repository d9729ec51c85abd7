----------------------------- MODULE AuditChain -----------------------------
(***************************************************************************)
(* The hash-chained audit log of AgentGuard: AuditService.create_audit_    *)
(* event run by concurrent request handlers, each in its own PostgreSQL    *)
(* transaction (READ COMMITTED), over the tables audit_events and          *)
(* audit_chain_head.                                                       *)
(*                                                                         *)
(* SHA-256 is taken to be injective: the hash of an event with content c   *)
(* and previous hash p is the sequence Append(p, c), so a hash is the list *)
(* of the contents it was computed from, "GENESIS" is the empty list.      *)
(* What the amount column does to a content on its way through             *)
(* Numeric(18, 2) is the function Stored.                                  *)
(***************************************************************************)
EXTENDS Integers, Sequences

CONSTANTS
  Writers,      \* request handlers that write audit events
  Contents,     \* what an event says, as it is hashed when it is created
  Stored,       \* content as written |-> content as the row gives it back
  NoWriter,     \* nobody holds the lock of the head row
  MaxTx,        \* bound: transactions started
  MaxPerTx,     \* bound: events one transaction appends (quarantine: 2)
  MaxUnchained  \* bound: rows inserted by the budget endpoints

ASSUME StoredAssumption  == Stored \in [Contents -> Contents]
ASSUME WritersAssumption == NoWriter \notin Writers
ASSUME BoundsAssumption  == MaxTx \in Nat /\ MaxPerTx \in Nat /\ MaxUnchained \in Nat

VARIABLES
  events,     \* committed rows of audit_events with a sequence number
  unchained,  \* number of committed rows without sequence number and hashes
  head,       \* committed row of audit_chain_head
  lock,       \* transaction that locks, or has inserted, the head row
  pc,         \* what each handler does next
  tx,         \* per handler: its view of the head and its uncommitted rows
  started     \* transactions started so far (only for the bound)

vars == <<events, unchained, head, lock, pc, tx, started>>

Genesis == <<>>
Hash == Seq(Contents)
Digest(prev, c) == Append(prev, c)

EventRow == [seq : Nat, prev : Hash, content : Contents, hash : Hash]
HeadRow  == [exists : BOOLEAN, seq : Nat, hash : Hash]

NoHead == [exists |-> FALSE, seq |-> 0, hash |-> Genesis]
FirstHead == [exists |-> TRUE, seq |-> 0, hash |-> Genesis]
NoTx == [rows |-> {}, head |-> NoHead]

-----------------------------------------------------------------------------
Init ==
  /\ events = {}
  /\ unchained = 0
  /\ head = NoHead
  /\ lock = NoWriter
  /\ pc = [w \in Writers |-> "idle"]
  /\ tx = [w \in Writers |-> NoTx]
  /\ started = 0

\* A handler reaches its first create_audit_event.
Begin(w) ==
  /\ pc[w] = "idle"
  /\ started < MaxTx
  /\ started' = started + 1
  /\ pc' = [pc EXCEPT ![w] = "head"]
  /\ UNCHANGED <<events, unchained, head, lock, tx>>

\* Mutant: the head row is read without FOR UPDATE.
LockHeadUnlocked(w) ==
  /\ pc[w] = "head"
  /\ head.exists
  /\ tx' = [tx EXCEPT ![w] = [rows |-> {}, head |-> head]]
  /\ pc' = [pc EXCEPT ![w] = "open"]
  /\ UNCHANGED <<events, unchained, head, lock, started>>

\* SELECT ... FOR UPDATE finds the head row and waits for its lock.
LockHead(w) ==
  /\ pc[w] = "head"
  /\ head.exists
  /\ lock = NoWriter
  /\ lock' = w
  /\ tx' = [tx EXCEPT ![w] = [rows |-> {}, head |-> head]]
  /\ pc' = [pc EXCEPT ![w] = "open"]
  /\ UNCHANGED <<events, unchained, head, started>>

\* The same query finds no committed head row: there is nothing to lock.
MissHead(w) ==
  /\ pc[w] = "head"
  /\ ~head.exists
  /\ pc' = [pc EXCEPT ![w] = "genesis"]
  /\ UNCHANGED <<events, unchained, head, lock, tx, started>>

\* Mutant: the GENESIS row replaces the one inserted meanwhile.
InsertHeadAgain(w) ==
  /\ pc[w] = "genesis"
  /\ lock = NoWriter
  /\ lock' = w
  /\ tx' = [tx EXCEPT ![w] = [rows |-> {}, head |-> FirstHead]]
  /\ pc' = [pc EXCEPT ![w] = "open"]
  /\ UNCHANGED <<events, unchained, head, started>>

\* The GENESIS row is flushed; the insert waits while another uncommitted
\* insert of the same primary key is pending.
InsertHead(w) ==
  /\ pc[w] = "genesis"
  /\ lock = NoWriter
  /\ ~head.exists
  /\ lock' = w
  /\ tx' = [tx EXCEPT ![w] = [rows |-> {}, head |-> FirstHead]]
  /\ pc' = [pc EXCEPT ![w] = "open"]
  /\ UNCHANGED <<events, unchained, head, started>>

\* The insert loses the race for the primary key: IntegrityError, rollback.
HeadConflict(w) ==
  /\ pc[w] = "genesis"
  /\ lock = NoWriter
  /\ head.exists
  /\ pc' = [pc EXCEPT ![w] = "idle"]
  /\ UNCHANGED <<events, unchained, head, lock, tx, started>>

\* Mutant: the sequence counts down.
NextRowDown(h, c) ==
  [seq |-> h.seq - 1, prev |-> h.hash, content |-> Stored[c], hash |-> Digest(h.hash, c)]

NextRow(h, c) ==
  [seq |-> h.seq + 1, prev |-> h.hash, content |-> Stored[c], hash |-> Digest(h.hash, c)]

Advance(h, r) == [exists |-> TRUE, seq |-> r.seq, hash |-> r.hash]

\* The event is hashed over its content as given, the row is added, and the
\* head moves; all of it stays in the transaction.
AppendEvent(w, c) ==
  /\ pc[w] = "open"
  /\ tx[w].head.seq < head.seq + MaxPerTx
  /\ LET r == NextRow(tx[w].head, c)
     IN  tx' = [tx EXCEPT ![w] = [rows |-> tx[w].rows \cup {r}, head |-> Advance(tx[w].head, r)]]
  /\ UNCHANGED <<events, unchained, head, lock, pc, started>>

\* db.commit() of the handler: rows and head appear, the lock is released.
CommitTx(w) ==
  /\ pc[w] = "open"
  /\ tx[w].rows # {}
  /\ events' = events \cup tx[w].rows
  /\ head' = tx[w].head
  /\ lock' = NoWriter
  /\ tx' = [tx EXCEPT ![w] = NoTx]
  /\ pc' = [pc EXCEPT ![w] = "idle"]
  /\ UNCHANGED <<unchained, started>>

\* Mutant: a failing handler leaves its transaction open.
AbortTxKeepsLock(w) ==
  /\ pc[w] # "idle"
  /\ tx' = [tx EXCEPT ![w] = NoTx]
  /\ pc' = [pc EXCEPT ![w] = "idle"]
  /\ UNCHANGED <<events, unchained, head, lock, started>>

\* An exception in the handler, a lost connection or a killed pod.
AbortTx(w) ==
  /\ pc[w] # "idle"
  /\ lock' = IF lock = w THEN NoWriter ELSE lock
  /\ tx' = [tx EXCEPT ![w] = NoTx]
  /\ pc' = [pc EXCEPT ![w] = "idle"]
  /\ UNCHANGED <<events, unchained, head, started>>

\* create_budget and update_budget add an AuditEvent without the chain.
InsertUnchained ==
  /\ unchained < MaxUnchained
  /\ unchained' = unchained + 1
  /\ UNCHANGED <<events, head, lock, pc, tx, started>>

Progress(w) ==
  \/ LockHead(w) \/ MissHead(w) \/ InsertHead(w) \/ HeadConflict(w)
  \/ (\E c \in Contents : AppendEvent(w, c)) \/ CommitTx(w)

Next ==
  \/ \E w \in Writers : Begin(w) \/ Progress(w) \/ AbortTx(w)
  \/ InsertUnchained

Spec == Init /\ [][Next]_vars

\* A handler that runs does not stop between two of its statements, and a
\* waiter for a row lock is served when the lock keeps being released:
\* PostgreSQL queues the waiters of a row.
FairSpec ==
  /\ Spec
  /\ \A w \in Writers :
       /\ SF_vars(LockHead(w) \/ InsertHead(w) \/ HeadConflict(w))
       /\ WF_vars(MissHead(w))
       /\ WF_vars(\E c \in Contents : AppendEvent(w, c))
       /\ WF_vars(CommitTx(w))

-----------------------------------------------------------------------------
(* Type invariant: the columns of the two tables and the views of them.    *)
TypeOK ==
  /\ events \subseteq EventRow
  /\ unchained \in 0 .. MaxUnchained
  /\ head \in HeadRow
  /\ lock \in Writers \cup {NoWriter}
  /\ pc \in [Writers -> {"idle", "head", "genesis", "open"}]
  /\ tx \in [Writers -> [rows : SUBSET EventRow, head : HeadRow]]
  /\ started \in 0 .. MaxTx

\* Sequence numbers 1 .. h.seq, each used by exactly one row.
Numbered(rows, h) ==
  /\ \A e \in rows : e.seq \in 1 .. h.seq
  /\ \A n \in 1 .. h.seq : \E e \in rows : e.seq = n
  /\ \A e, f \in rows : e.seq = f.seq => e = f

\* Every row names the hash of the row before it, the first one GENESIS,
\* and the head names the hash of the last.
Linked(rows, h) ==
  /\ \A e, f \in rows : f.seq = e.seq + 1 => f.prev = e.hash
  /\ \A e \in rows : e.seq = 1 => e.prev = Genesis
  /\ \A e \in rows : e.seq = h.seq => e.hash = h.hash
  /\ h.seq = 0 => h.hash = Genesis

\* Every hash was computed from the row's previous hash and a content that
\* the row still tells, as far as the column keeps it.
Hashed(rows) ==
  \A e \in rows :
    \E c \in Contents : e.content = Stored[c] /\ e.hash = Digest(e.prev, c)

Chained(rows, h) == Numbered(rows, h) /\ Linked(rows, h) /\ Hashed(rows)

(* What is committed is always one chain from GENESIS to the head: however *)
(* handlers interleave, race for the GENESIS row, roll back or crash, no   *)
(* sequence number is skipped or used twice and no two rows name the same  *)
(* predecessor (create_audit_event takes the head row FOR UPDATE).         *)
ChainIntegrity == Chained(events, head)

(* A commit only ever adds events behind the committed head: nothing that  *)
(* was appended from a view of the head that is no longer current gets in, *)
(* and no committed event is lost (audit_events is append only).           *)
CommitsExtendTip ==
  [][/\ events \subseteq events'
     /\ \A e \in events' \ events : e.seq \in head.seq + 1 .. head'.seq]_vars

(* A handler that wants to append to the log is never stuck behind the     *)
(* lock of the head row or the race for GENESIS for ever.                  *)
WriterFinishes == \A w \in Writers : pc[w] = "head" ~> pc[w] = "idle"
=============================================================================
