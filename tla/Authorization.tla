---------------------------- MODULE Authorization ---------------------------
(***************************************************************************)
(* The life of a payment authorization in AgentGuard: the request handlers *)
(* of POST /authorize, /approvals/{id}/approve, /approvals/{id}/deny and   *)
(* /execution/verify, running concurrently in one or more API processes    *)
(* over PostgreSQL (READ COMMITTED, row locks) and Redis.                  *)
(*                                                                         *)
(* One agent and the budgets that apply to it.  An id <<r, 1>> is the      *)
(* request_id r of the agent, <<r, n>> for n > 1 is the "reval_r_n" of the *)
(* n-th decision attempt.  An authorization is named by the id of the      *)
(* decision that issued it (the code draws a fresh UUID).  Every           *)
(* transaction that writes an audit event commits right after it, so the   *)
(* lock of the chain head (AuditChain) is held only inside an action.      *)
(***************************************************************************)
EXTENDS Integers, FiniteSets, FiniteSetsExt

CONSTANTS
  Handlers,    \* request handlers that may run at the same time
  Requests,    \* request_ids agents send
  Payloads,    \* what a request asks for: action, resource, amount, currency
  Amount,      \* payload |-> amount in minor units
  Threshold,   \* requires_approval_above of the permission that matches
  Budgets,     \* budgets that apply to the agent
  Limit,       \* budget |-> limit in minor units
  MaxAttempt,  \* bound: decision attempts per request
  Closable,    \* bound: gates that operators close
  NoHandler,   \* nobody holds a row lock
  NoPayload    \* payload of a decision that is not recorded

ASSUME AmountAssumption  == Amount \in [Payloads -> Nat] /\ Threshold \in Nat
ASSUME LimitAssumption   == Limit \in [Budgets -> Nat]
ASSUME AttemptAssumption == MaxAttempt \in Nat \ {0}
ASSUME NamesAssumption   == NoHandler \notin Handlers /\ NoPayload \notin Payloads

Gates    == {"fleet", "agent"}
Ids      == Requests \X (1 .. MaxAttempt)
Verdicts == {"ALLOW", "DENY", "PENDING_APPROVAL"}
NoId     == <<>>

VARIABLES
  decision,   \* AUTHORIZATION_DECISION events by request_id (a unique index)
  auth,       \* rows of execution_authorizations
  consumed,   \* number of AUTHORIZATION_CONSUMED events per authorization
  approval,   \* rows of approval_requests by the request_id they hold
  rowLock,    \* holder of the row lock of an approval request
  authLock,   \* holder of the row lock of an authorization
  remaining,  \* Redis: what is left of each budget (a missing key is its limit)
  open,       \* the fleet is ACTIVE, the agent's status reads ACTIVE
  pc,         \* what each handler does next
  job,        \* what each handler works on
  answer      \* the last HTTP answer of each handler

dbVars == <<decision, auth, consumed, approval>>
lockVars == <<rowLock, authLock>>
vars == <<dbVars, lockVars, remaining, open, pc, job, answer>>

NoDecision == [verdict |-> "none", payload |-> NoPayload]
NoAuth     == [status |-> "none", lapsed |-> FALSE]
NoApproval == [status |-> "none", attempt |-> 1, lapsed |-> FALSE, auth |-> 0]

NoJob      == [kind |-> "none", id |-> NoId, payload |-> NoPayload, verdict |-> "none",
               consume |-> FALSE, blocked |-> {}, late |-> FALSE]
NoAnswer   == [id |-> NoId, verdict |-> "none"]

Recorded(i) == decision[i].verdict # "none"

-----------------------------------------------------------------------------
Init ==
  /\ decision = [i \in Ids |-> NoDecision]
  /\ auth = [i \in Ids |-> NoAuth]
  /\ consumed = [i \in Ids |-> 0]
  /\ approval = [r \in Requests |-> NoApproval]
  /\ rowLock = [r \in Requests |-> NoHandler]
  /\ authLock = [i \in Ids |-> NoHandler]
  /\ remaining = Limit
  /\ open = [g \in Gates |-> TRUE]
  /\ pc = [h \in Handlers |-> "idle"]
  /\ job = [h \in Handlers |-> NoJob]
  /\ answer = [h \in Handlers |-> NoAnswer]

Goto(h, label) == pc' = [pc EXCEPT ![h] = label]

\* The handler answers and its session is closed. (What is left of its job
\* no longer matters; it is cleared so that TLC sees one state.)
Answer(h, verdict) ==
  /\ Goto(h, "idle")
  /\ answer' = [answer EXCEPT ![h] = [id |-> job[h].id, verdict |-> verdict]]
  /\ job' = [job EXCEPT ![h] = NoJob]

Decide(h, verdict) == job' = [job EXCEPT ![h].verdict = verdict]

\* Rollback or commit ends the transaction of h and frees its row locks.
Unlock(h) ==
  /\ rowLock'  = [r \in Requests |-> IF rowLock[r] = h THEN NoHandler ELSE rowLock[r]]
  /\ authLock' = [i \in Ids |-> IF authLock[i] = h THEN NoHandler ELSE authLock[i]]

-----------------------------------------------------------------------------
\* A request reaches the API. Operators see the approvals that exist, the
\* gateway verifies authorizations that were issued; late tells whether the
\* 15 minutes of that row had passed already.
Start(h, kind, i, p, consume, late, label) ==
  /\ pc[h] = "idle"
  /\ Goto(h, label)
  /\ job' = [job EXCEPT ![h] = [kind |-> kind, id |-> i, payload |-> p, verdict |-> "none",
               consume |-> consume, blocked |-> {g \in Gates : ~open[g]}, late |-> late]]
  /\ answer' = [answer EXCEPT ![h] = NoAnswer]
  /\ UNCHANGED <<dbVars, lockVars, remaining, open>>

StartAuthorize(h, r, p) == Start(h, "authorize", <<r, 1>>, p, FALSE, FALSE, "idempotency")

Approving(r) == {h \in Handlers : job[h].kind = "approve" /\ job[h].id[1] = r}

StartApprove(h, r) ==
  /\ approval[r].status # "none"
  /\ approval[r].attempt + Cardinality(Approving(r)) < MaxAttempt
  /\ Start(h, "approve", <<r, 1>>, decision[<<r, 1>>].payload, FALSE, approval[r].lapsed, "claim")

StartDeny(h, r) ==
  /\ approval[r].status # "none"
  /\ Start(h, "deny", <<r, 1>>, decision[<<r, 1>>].payload, FALSE, approval[r].lapsed, "claim")

StartVerify(h, i, p, consume) ==
  /\ auth[i].status # "none"
  /\ Start(h, "verify", i, p, consume, auth[i].lapsed, "verify")

-----------------------------------------------------------------------------
(* evaluate_request                                                        *)

\* The request_id was decided before. Only an ALLOW fits the response model:
\* the null authorization_id of any other event fails its validation, which
\* the router turns into the 409 of a conflicting request. (Only what agents
\* send can meet this: an approval evaluates under a request_id of its own.)
Replay(h) ==
  /\ pc[h] = "idempotency"
  /\ Recorded(job[h].id)
  /\ LET d == decision[job[h].id]
     IN  Answer(h, IF d.payload = job[h].payload /\ d.verdict = "ALLOW" THEN "ALLOW" ELSE "409")
  /\ Unlock(h)
  /\ UNCHANGED <<dbVars, remaining, open>>

NoReplay(h) ==
  /\ pc[h] = "idempotency"
  /\ ~Recorded(job[h].id)
  /\ Goto(h, "fleet")
  /\ UNCHANGED <<dbVars, lockVars, remaining, open, job, answer>>

\* Mutant: the statuses are read and not looked at.
PassGateUnchecked(h) ==
  /\ pc[h] \in Gates
  /\ Goto(h, IF pc[h] = "fleet" THEN "agent" ELSE "policy")
  /\ UNCHANGED <<dbVars, lockVars, remaining, open, job, answer>>

\* The status of the fleet, then that of the agent, is read.
PassGate(h) ==
  /\ pc[h] \in Gates
  /\ open[pc[h]]
  /\ Goto(h, IF pc[h] = "fleet" THEN "agent" ELSE "policy")
  /\ UNCHANGED <<dbVars, lockVars, remaining, open, job, answer>>

MeetClosedGate(h) ==
  /\ pc[h] \in Gates
  /\ ~open[pc[h]]
  /\ Decide(h, "DENY")
  /\ Goto(h, "record")
  /\ UNCHANGED <<dbVars, lockVars, remaining, open, answer>>

\* OPA says no, or one of the permission, threshold and OPA queries fails.
PolicyDenies(h) ==
  /\ pc[h] = "policy"
  /\ Decide(h, "DENY")
  /\ Goto(h, "record")
  /\ UNCHANGED <<dbVars, lockVars, remaining, open, answer>>

ExceedsThreshold(p) == Amount[p] > Threshold

\* Mutant: skip_approval_check is set on every path.
PolicyAllowsUnasked(h) ==
  /\ pc[h] = "policy"
  /\ Goto(h, "budget")
  /\ UNCHANGED <<dbVars, lockVars, remaining, open, job, answer>>

\* OPA allows it; an agent's request above the threshold waits for approval.
PolicyAllows(h) ==
  /\ pc[h] = "policy"
  /\ IF job[h].kind = "authorize" /\ ExceedsThreshold(job[h].payload)
     THEN Decide(h, "PENDING_APPROVAL") /\ Goto(h, "record")
     ELSE UNCHANGED job /\ Goto(h, "budget")
  /\ UNCHANGED <<dbVars, lockVars, remaining, open, answer>>

\* The Lua script deducts from all budgets or from none.
Suffices(b, p) == remaining[b] >= Amount[p]

\* Mutant: the budgets are only checked, as check_budgets does.
ReserveChecksOnly(h) ==
  /\ pc[h] = "budget"
  /\ \A b \in Budgets : Suffices(b, job[h].payload)
  /\ Decide(h, "ALLOW")
  /\ Goto(h, "record")
  /\ UNCHANGED <<dbVars, lockVars, remaining, open, answer>>

\* Mutant: the script decrements without its first pass.
ReserveUnchecked(h) ==
  /\ pc[h] = "budget"
  /\ remaining' = [b \in Budgets |-> remaining[b] - Amount[job[h].payload]]
  /\ Decide(h, "ALLOW")
  /\ Goto(h, "record")
  /\ UNCHANGED <<dbVars, lockVars, open, answer>>

Reserve(h) ==
  /\ pc[h] = "budget"
  /\ \A b \in Budgets : Suffices(b, job[h].payload)
  /\ remaining' = [b \in Budgets |-> remaining[b] - Amount[job[h].payload]]
  /\ \E verdict \in {"ALLOW", "DENY"} :   \* DENY: the answer of Redis is lost
       Decide(h, verdict)
  /\ Goto(h, "record")
  /\ UNCHANGED <<dbVars, lockVars, open, answer>>

\* A budget does not suffice, or Redis or the query for the budgets fails.
RefuseBudget(h) ==
  /\ pc[h] = "budget"
  /\ Decide(h, "DENY")
  /\ Goto(h, "record")
  /\ UNCHANGED <<dbVars, lockVars, remaining, open, answer>>

\* Mutant: the index on the request_id of decisions is not unique.
RecordAgain(h) ==
  /\ pc[h] = "record" /\ job[h].kind = "authorize"
  /\ decision' = [decision EXCEPT ![job[h].id] =
                    [verdict |-> job[h].verdict, payload |-> job[h].payload]]
  /\ auth' = IF job[h].verdict = "ALLOW" THEN [auth EXCEPT ![job[h].id].status = "ISSUED"] ELSE auth
  /\ Answer(h, job[h].verdict)
  /\ UNCHANGED <<consumed, approval, lockVars, remaining, open>>

\* The audit event of the decision is flushed and the transaction commits:
\* with an ALLOW the authorization, with PENDING_APPROVAL the approval
\* request, in an approval also the new decision_attempt. The unique index
\* on the request_id of decisions rejects a second event; the handler then
\* fails with a 500, and what it reserved in Redis stays reserved.
Record(h) ==
  /\ pc[h] = "record"
  /\ ~Recorded(job[h].id)
  /\ LET i == job[h].id
         r == i[1]
         v == job[h].verdict
     IN  /\ decision' = [decision EXCEPT ![i] = [verdict |-> v, payload |-> job[h].payload]]
         /\ auth' = IF v = "ALLOW" THEN [auth EXCEPT ![i].status = "ISSUED"] ELSE auth
         /\ approval' =
              IF v = "PENDING_APPROVAL" THEN [approval EXCEPT ![r].status = "PENDING"]
              ELSE IF job[h].kind = "approve" THEN [approval EXCEPT ![r].attempt = i[2]]
              ELSE approval
         /\ IF job[h].kind = "approve"
            THEN Goto(h, "close") /\ UNCHANGED <<job, answer>>
            ELSE Answer(h, v)
  /\ Unlock(h)
  /\ UNCHANGED <<consumed, remaining, open>>

\* Mutant: the authorization is committed before the audit event is flushed.
RecordConflictsTooLate(h) ==
  /\ pc[h] = "record"
  /\ Recorded(job[h].id)
  /\ auth' = IF job[h].verdict = "ALLOW" THEN [auth EXCEPT ![job[h].id].status = "ISSUED"] ELSE auth
  /\ Answer(h, "500")
  /\ Unlock(h)
  /\ UNCHANGED <<decision, consumed, approval, remaining, open>>

RecordConflicts(h) ==
  /\ pc[h] = "record"
  /\ Recorded(job[h].id)
  /\ Answer(h, "500")
  /\ Unlock(h)
  /\ UNCHANGED <<dbVars, remaining, open>>

-----------------------------------------------------------------------------
(* approve_request and deny_request                                        *)

\* SELECT ... FOR UPDATE waits for the row; then its status and age are read.
Claimed(h) == job[h].id[1]
RowFree(h) == rowLock[Claimed(h)] = NoHandler

\* Mutant: an approval does not expire.
ClaimToApproveLate(h) ==
  /\ pc[h] = "claim" /\ job[h].kind = "approve"
  /\ RowFree(h)
  /\ LET r == Claimed(h)
     IN  /\ approval[r].status = "PENDING"
         /\ approval[r].attempt < MaxAttempt
         /\ rowLock' = [rowLock EXCEPT ![r] = h]
         /\ job' = [job EXCEPT ![h].id = <<r, approval[r].attempt + 1>>]
  /\ Goto(h, "idempotency")
  /\ UNCHANGED <<dbVars, authLock, remaining, open, answer>>

ClaimToApprove(h) ==
  /\ pc[h] = "claim" /\ job[h].kind = "approve"
  /\ RowFree(h)
  /\ LET r == Claimed(h)
     IN  /\ approval[r].status = "PENDING"
         /\ ~approval[r].lapsed
         /\ approval[r].attempt < MaxAttempt   \* bound, see StartApprove
         /\ rowLock' = [rowLock EXCEPT ![r] = h]
         /\ job' = [job EXCEPT ![h].id = <<r, approval[r].attempt + 1>>]
  /\ Goto(h, "idempotency")
  /\ UNCHANGED <<dbVars, authLock, remaining, open, answer>>

ExpireApproval(h) ==
  /\ pc[h] = "claim" /\ job[h].kind = "approve"
  /\ RowFree(h)
  /\ approval[Claimed(h)].status = "PENDING"
  /\ approval[Claimed(h)].lapsed
  /\ approval' = [approval EXCEPT ![Claimed(h)].status = "EXPIRED"]
  /\ Answer(h, "400")
  /\ UNCHANGED <<decision, auth, consumed, lockVars, remaining, open>>

\* Both endpoints refuse a row that is not PENDING.
RefuseClaim(h) ==
  /\ pc[h] = "claim"
  /\ RowFree(h)
  /\ approval[Claimed(h)].status # "PENDING"
  /\ Answer(h, "400")
  /\ UNCHANGED <<dbVars, lockVars, remaining, open>>

\* Mutant: the outcome is written without waiting for the row.
CloseApprovalUnlocked(h) ==
  /\ pc[h] = "close"
  /\ approval' = [approval EXCEPT ![Claimed(h)].status = "DENIED"]
  /\ Answer(h, "400")
  /\ UNCHANGED <<decision, auth, consumed, lockVars, remaining, open>>

\* Mutant: a re-evaluation that denies is not told from one that allows.
CloseApprovalBlindly(h) ==
  /\ pc[h] = "close"
  /\ RowFree(h)
  /\ approval' = [approval EXCEPT ![Claimed(h)].status = "APPROVED", ![Claimed(h)].auth = job[h].id[2]]
  /\ Answer(h, "400")
  /\ UNCHANGED <<decision, auth, consumed, lockVars, remaining, open>>

\* After the evaluation has committed, and so given the row lock back, a
\* second transaction writes the outcome over whatever the row holds.
CloseApproval(h) ==
  /\ pc[h] = "close"
  /\ RowFree(h)
  /\ LET r == Claimed(h)
     IN  approval' =
           IF job[h].verdict = "DENY"
           THEN [approval EXCEPT ![r].status = "DENIED"]
           ELSE [approval EXCEPT ![r].status = "APPROVED", ![r].auth = job[h].id[2]]
  /\ Answer(h, IF job[h].verdict = "DENY" THEN "400" ELSE "ALLOW")
  /\ UNCHANGED <<decision, auth, consumed, lockVars, remaining, open>>

\* The denial is recorded as another AUTHORIZATION_DECISION event with the
\* request_id of the request, in the transaction that sets the status.
DenyRequest(h) ==
  /\ pc[h] = "claim" /\ job[h].kind = "deny"
  /\ RowFree(h)
  /\ approval[Claimed(h)].status = "PENDING"
  /\ IF Recorded(job[h].id)
     THEN Answer(h, "500") /\ UNCHANGED <<approval, decision>>
     ELSE /\ Answer(h, "DENY")
          /\ approval' = [approval EXCEPT ![Claimed(h)].status = "DENIED"]
          /\ decision' = [decision EXCEPT ![job[h].id] =
                            [verdict |-> "DENY", payload |-> job[h].payload]]
  /\ UNCHANGED <<auth, consumed, lockVars, remaining, open>>

-----------------------------------------------------------------------------
(* verify_authorization                                                    *)

AuthFree(h) == authLock[job[h].id] = NoHandler

\* Mutant: the authorization is read without FOR UPDATE.
ClaimAuthorizationUnlocked(h) ==
  /\ pc[h] = "verify"
  /\ auth[job[h].id].status = "ISSUED"
  /\ ~auth[job[h].id].lapsed
  /\ decision[job[h].id].payload = job[h].payload
  /\ Goto(h, "consume")
  /\ UNCHANGED <<dbVars, lockVars, remaining, open, job, answer>>

\* The row is locked, ISSUED, not expired, and says what the caller asks.
ClaimAuthorization(h) ==
  /\ pc[h] = "verify"
  /\ AuthFree(h)
  /\ LET i == job[h].id
     IN  /\ auth[i].status = "ISSUED"
         /\ ~auth[i].lapsed
         /\ decision[i].payload = job[h].payload
         /\ authLock' = [authLock EXCEPT ![i] = h]
  /\ Goto(h, "consume")
  /\ UNCHANGED <<dbVars, rowLock, remaining, open, job, answer>>

ExpireAuthorization(h) ==
  /\ pc[h] = "verify"
  /\ AuthFree(h)
  /\ LET i == job[h].id
     IN  /\ auth[i].status = "ISSUED"
         /\ auth[i].lapsed
         /\ auth' = [auth EXCEPT ![i].status = "EXPIRED"]
  /\ Answer(h, "403")
  /\ UNCHANGED <<decision, consumed, approval, lockVars, remaining, open>>

RefuseAuthorization(h) ==
  /\ pc[h] = "verify"
  /\ AuthFree(h)
  /\ LET i == job[h].id
     IN  \/ auth[i].status # "ISSUED"
         \/ ~auth[i].lapsed /\ decision[i].payload # job[h].payload
  /\ Answer(h, IF auth[job[h].id].status = "CONSUMED" THEN "409" ELSE "403")
  /\ UNCHANGED <<dbVars, lockVars, remaining, open>>

\* Mutant: the transaction of a verification is left open.
ConsumeAuthorizationKeepsLock(h) ==
  /\ pc[h] = "consume"
  /\ auth' = [auth EXCEPT ![job[h].id].status = "CONSUMED"]
  /\ consumed' = [consumed EXCEPT ![job[h].id] = @ + 1]
  /\ Answer(h, "VERIFIED")
  /\ UNCHANGED <<decision, approval, lockVars, remaining, open>>

\* Status, audit event and commit; without consume nothing is written.
ConsumeAuthorization(h) ==
  /\ pc[h] = "consume"
  /\ IF job[h].consume
     THEN /\ auth' = [auth EXCEPT ![job[h].id].status = "CONSUMED"]
          /\ consumed' = [consumed EXCEPT ![job[h].id] = @ + 1]
     ELSE UNCHANGED <<auth, consumed>>
  /\ Answer(h, "VERIFIED")
  /\ Unlock(h)
  /\ UNCHANGED <<decision, approval, remaining, open>>

-----------------------------------------------------------------------------
(* The environment                                                         *)

\* Emergency stop, revocation; the requests that start from now on find it.
CloseGate(g) ==
  /\ g \in Closable
  /\ open[g]
  /\ open' = [open EXCEPT ![g] = FALSE]
  /\ UNCHANGED <<dbVars, lockVars, remaining, pc, job, answer>>

\* Resume, restore: from now on no running request must be stopped by g.
OpenGate(g) ==
  /\ ~open[g]
  /\ open' = [open EXCEPT ![g] = TRUE]
  /\ job' = [h \in Handlers |-> [job[h] EXCEPT !.blocked = @ \ {g}]]
  /\ UNCHANGED <<dbVars, lockVars, remaining, pc, answer>>

\* 15 minutes pass since the row was created.
LapseApproval(r) ==
  /\ approval[r].status # "none"
  /\ ~approval[r].lapsed
  /\ approval' = [approval EXCEPT ![r].lapsed = TRUE]
  /\ UNCHANGED <<decision, auth, consumed, lockVars, remaining, open, pc, job, answer>>

LapseAuthorization(i) ==
  /\ auth[i].status # "none"
  /\ ~auth[i].lapsed
  /\ auth' = [auth EXCEPT ![i].lapsed = TRUE]
  /\ UNCHANGED <<decision, consumed, approval, lockVars, remaining, open, pc, job, answer>>

\* The process dies or loses its database connection between two steps: the
\* transaction is rolled back, Redis keeps what it was told.
Crash(h) ==
  /\ pc[h] # "idle"
  /\ Answer(h, "lost")
  /\ Unlock(h)
  /\ UNCHANGED <<dbVars, remaining, open>>

-----------------------------------------------------------------------------
Arrive(h) ==
  \/ \E r \in Requests, p \in Payloads : StartAuthorize(h, r, p)
  \/ \E r \in Requests : StartApprove(h, r) \/ StartDeny(h, r)
  \/ \E i \in Ids, p \in Payloads, c \in BOOLEAN : StartVerify(h, i, p, c)

Evaluate(h) ==
  \/ Replay(h) \/ NoReplay(h) \/ PassGate(h) \/ MeetClosedGate(h)
  \/ PolicyDenies(h) \/ PolicyAllows(h) \/ Reserve(h) \/ RefuseBudget(h)
  \/ Record(h) \/ RecordConflicts(h)

\* The steps that wait for a row lock.
Await(h) ==
  \/ ClaimToApprove(h) \/ ExpireApproval(h) \/ RefuseClaim(h) \/ DenyRequest(h)
  \/ CloseApproval(h)
  \/ ClaimAuthorization(h) \/ ExpireAuthorization(h) \/ RefuseAuthorization(h)

Environment ==
  \/ \E g \in Gates : CloseGate(g) \/ OpenGate(g)
  \/ \E r \in Requests : LapseApproval(r)
  \/ \E i \in Ids : LapseAuthorization(i)

Next ==
  \/ \E h \in Handlers :
       Arrive(h) \/ Evaluate(h) \/ Await(h) \/ ConsumeAuthorization(h) \/ Crash(h)
  \/ Environment

Spec == Init /\ [][Next]_vars

\* A running handler goes on, and a row lock that keeps being released is
\* granted to every waiter in the end (PostgreSQL queues them).
FairSpec ==
  /\ Spec
  /\ \A h \in Handlers :
       /\ WF_vars(Evaluate(h))
       /\ WF_vars(ConsumeAuthorization(h))
       /\ SF_vars(Await(h))

-----------------------------------------------------------------------------
(* Type invariant: the rows, the Redis keys and the handlers' local state. *)
TypeOK ==
  /\ decision \in [Ids -> [verdict : Verdicts \cup {"none"}, payload : Payloads \cup {NoPayload}]]
  /\ auth \in [Ids -> [status : {"none", "ISSUED", "CONSUMED", "EXPIRED"}, lapsed : BOOLEAN]]
  /\ consumed \in [Ids -> Nat]
  /\ approval \in [Requests -> [status : {"none", "PENDING", "APPROVED", "DENIED", "EXPIRED"},
                                attempt : 1 .. MaxAttempt, lapsed : BOOLEAN,
                                auth : 0 .. MaxAttempt]]
  /\ rowLock \in [Requests -> Handlers \cup {NoHandler}]
  /\ authLock \in [Ids -> Handlers \cup {NoHandler}]
  /\ remaining \in [Budgets -> Nat]
  /\ open \in [Gates -> BOOLEAN]
  /\ pc \in [Handlers -> {"idle", "idempotency", "policy", "budget", "record", "claim",
                          "close", "verify", "consume"} \cup Gates]
  /\ job \in [Handlers -> [kind : {"none", "authorize", "approve", "deny", "verify"},
                           id : Ids \cup {NoId}, payload : Payloads \cup {NoPayload},
                           verdict : Verdicts \cup {"none"}, consume : BOOLEAN,
                           blocked : SUBSET Gates, late : BOOLEAN]]
  /\ answer \in [Handlers -> [id : Ids \cup {NoId}, verdict : Verdicts \cup
                   {"none", "400", "403", "409", "500", "lost", "VERIFIED"}]]

(* Whatever was answered for a request_id is what the audit log records    *)
(* for it for ever: two handlers that evaluate the same request at the     *)
(* same time never both tell their client a verdict (idempotency check and *)
(* the unique index behind it).                                            *)
AnswersMatchTheLog ==
  \A h \in Handlers :
    answer[h].verdict \in Verdicts => decision[answer[h].id].verdict = answer[h].verdict

(* An authorization exists exactly for the decisions to ALLOW, although    *)
(* the two rows are written by different services.                         *)
AuthorizationsAreDecided ==
  \A i \in Ids : auth[i].status # "none" <=> decision[i].verdict = "ALLOW"

(* An authorization is consumed at most once, and it reads CONSUMED        *)
(* exactly when a consumption was audited (README.md:17, "Single-use").    *)
SingleUse ==
  \A i \in Ids :
    /\ consumed[i] <= 1
    /\ auth[i].status = "CONSUMED" <=> consumed[i] = 1

(* The sum of what is authorised never exceeds a budget, whatever is       *)
(* reserved and then lost by conflicts, crashes and denials.               *)
Authorised == MapThenSumSet(LAMBDA i : Amount[decision[i].payload],
                            {i \in Ids : decision[i].verdict = "ALLOW"})
NoOverspend == \A b \in Budgets : remaining[b] + Authorised <= Limit[b]

(* Above the threshold nothing is authorised on an agent's word alone: the *)
(* agent's own request_id only ever gets PENDING_APPROVAL, and an          *)
(* authorization of a later attempt goes back to an approval request.      *)
HighValueNeedsOperator ==
  \A i \in Ids :
    auth[i].status # "none" =>
      IF i[2] = 1 THEN ~ExceedsThreshold(decision[i].payload)
      ELSE /\ approval[i[1]].status # "none"
           /\ decision[<<i[1], 1>>] = [verdict |-> "PENDING_APPROVAL",
                                       payload |-> decision[i].payload]

(* A request that arrives after the emergency stop or the revocation, and  *)
(* that sees no resume or restore, is never allowed and reserves nothing,  *)
(* however its evaluation interleaves with the operators.                  *)
ClosedGateBlocks ==
  \A h \in Handlers :
    job[h].blocked # {} => job[h].verdict # "ALLOW" /\ pc[h] # "budget"

(* A call that arrives after the 15 minutes of its row is refused: it is   *)
(* never evaluated and never consumes.                                     *)
LateCallsAreRefused ==
  \A h \in Handlers : job[h].late => pc[h] \in {"idle", "claim", "verify"}

(* An APPROVED request names an authorization of one of its own attempts.  *)
ApprovedHasAuthorization ==
  \A r \in Requests :
    approval[r].status = "APPROVED" =>
      /\ approval[r].auth \in 2 .. approval[r].attempt
      /\ decision[<<r, approval[r].auth>>].verdict = "ALLOW"

(* A new decision attempt is recorded only while the request is PENDING:   *)
(* once an operator's outcome, a denial or the expiry is on the row, no    *)
(* evaluation that was under way gets in behind it.                        *)
NoAttemptAfterOutcome ==
  [][\A r \in Requests :
       approval'[r].attempt # approval[r].attempt => approval[r].status = "PENDING"]_vars

(* The rows of decisions, authorizations and consumptions, which different *)
(* services write in different transactions, are together one ledger of    *)
(* decisions that are made once and used once (DecisionLedger).            *)
LedgerOfRows ==
  [i \in Ids |-> [verdict |-> decision[i].verdict, payload |-> decision[i].payload,
                  use |-> auth[i].status, uses |-> consumed[i]]]
Ledger == INSTANCE DecisionLedger WITH ledger <- LedgerOfRows
RefinesLedger == Ledger!LedgerSpec

(* Every handler comes to an end: no row lock is waited for in a circle or *)
(* kept by a handler that is gone.                                         *)
HandlerFinishes == \A h \in Handlers : pc[h] # "idle" ~> pc[h] = "idle"

-----------------------------------------------------------------------------
(* test_security_compliance.py:291, "Exactly one approval must succeed": a *)
(* request is authorised by at most one of its approvals.                  *)
OneAuthorizationPerApproval ==
  \A r \in Requests :
    Cardinality({n \in 2 .. MaxAttempt : auth[<<r, n>>].status # "none"}) <= 1

(* Approvals.tsx:162, the denial dialog: "This will deny authorization and *)
(* record a human operator denial". A denial of a PENDING request that is  *)
(* processed leaves it DENIED.                                             *)
OperatorDenialTakesEffect ==
  [][\A h \in Handlers : DenyRequest(h) => approval'[Claimed(h)].status = "DENIED"]_vars

=============================================================================
