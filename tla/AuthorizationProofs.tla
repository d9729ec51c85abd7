------------------------- MODULE AuthorizationProofs ------------------------
(***************************************************************************)
(* Proofs about Authorization for any number of handlers, requests,        *)
(* payloads, budgets and attempts. The invariants of the runs are not      *)
(* inductive by themselves: they hold because of what a handler knows at   *)
(* each point of its code, which is what the parts of IInv say. The same   *)
(* invariant shows that Authorization implements DecisionLedger.           *)
(***************************************************************************)
EXTENDS Authorization, FiniteSetTheorems, WellFoundedInduction, TLAPS

Evaluating == {"idempotency", "policy", "budget", "record"} \cup Gates

\* Where a handler of each kind can be, and what its job says there.
Phases ==
  \A h \in Handlers :
    /\ pc[h] # "idle" => job[h].kind # "none" /\ job[h].id \in Ids
    /\ job[h].kind = "none" => pc[h] = "idle" /\ job[h] = NoJob
    /\ job[h].kind = "authorize" => pc[h] \in Evaluating /\ job[h].id[2] = 1 /\ ~job[h].late
    /\ job[h].kind = "approve" => pc[h] \in Evaluating \cup {"claim", "close"}
    /\ job[h].kind = "deny" => pc[h] = "claim" /\ job[h].id[2] = 1
    /\ job[h].kind = "verify" => pc[h] \in {"verify", "consume"}
    /\ pc[h] \in Evaluating => job[h].payload \in Payloads
    /\ job[h].verdict # "none" => pc[h] \in {"record", "close"}
    /\ pc[h] \in {"record", "close"} => job[h].verdict \in Verdicts
    /\ job[h].verdict = "PENDING_APPROVAL" => job[h].kind = "authorize"
    /\ pc[h] = "close" => ~job[h].late

\* The row locks belong to the handlers that are between their SELECT ...
\* FOR UPDATE and their commit, and the locked row has not changed since.
Locks ==
  /\ \A h \in Handlers, r \in Requests :
       rowLock[r] = h =>
         job[h].kind = "approve" /\ pc[h] \in Evaluating /\ job[h].id[1] = r
  /\ \A h \in Handlers :
       job[h].kind = "approve" /\ pc[h] \in Evaluating =>
         /\ rowLock[job[h].id[1]] = h
         /\ approval[job[h].id[1]].status = "PENDING"
         /\ job[h].id[2] = approval[job[h].id[1]].attempt + 1
         /\ ~job[h].late
  /\ \A h \in Handlers, i \in Ids :
       authLock[i] = h => pc[h] = "consume" /\ job[h].id = i
  /\ \A h \in Handlers :
       pc[h] = "consume" =>
         /\ authLock[job[h].id] = h
         /\ auth[job[h].id].status = "ISSUED"
         /\ ~job[h].late

\* A late call is about a row whose time is over.
Lateness ==
  \A h \in Handlers :
    job[h].late =>
      /\ job[h].kind = "approve" => approval[job[h].id[1]].lapsed
      /\ job[h].kind = "verify" => auth[job[h].id].lapsed

\* A gate that is still closed for a job stops it before the budget.
Blocking ==
  \A h \in Handlers :
    /\ \A g \in job[h].blocked : ~open[g]
    /\ pc[h] \in {"agent", "policy", "budget"} => "fleet" \notin job[h].blocked
    /\ pc[h] \in {"policy", "budget"} => "agent" \notin job[h].blocked
    /\ job[h].verdict = "ALLOW" => job[h].blocked = {}

\* What the rows say about each other.
Rows ==
  /\ \A i \in Ids : Recorded(i) => decision[i].payload \in Payloads
  /\ \A r \in Requests :
       approval[r].status # "none" <=> decision[<<r, 1>>].verdict = "PENDING_APPROVAL"
  /\ \A i \in Ids :
       i[2] # 1 /\ Recorded(i) =>
         /\ approval[i[1]].status # "none"
         /\ decision[i].payload = decision[<<i[1], 1>>].payload
  /\ \A i \in Ids :
       i[2] = 1 /\ decision[i].verdict = "ALLOW" => ~ExceedsThreshold(decision[i].payload)

\* What a job says about the rows.
Purposes ==
  \A h \in Handlers :
    /\ job[h].kind \in {"approve", "deny"} =>
         /\ approval[job[h].id[1]].status # "none"
         /\ job[h].payload = decision[<<job[h].id[1], 1>>].payload
    /\ job[h].kind = "authorize" /\ (pc[h] = "budget" \/ job[h].verdict = "ALLOW") =>
         ~ExceedsThreshold(job[h].payload)
    /\ pc[h] = "close" =>
         /\ job[h].id[2] \in 2 .. approval[job[h].id[1]].attempt
         /\ decision[job[h].id].verdict = job[h].verdict

IInv ==
  /\ TypeOK
  /\ Phases /\ Locks /\ Lateness /\ Blocking /\ Rows /\ Purposes
  /\ AnswersMatchTheLog /\ AuthorizationsAreDecided /\ SingleUse /\ ApprovedHasAuthorization

-----------------------------------------------------------------------------
(* A step of the evaluation that only moves h and sets its verdict keeps   *)
(* the invariant if the verdict is one h may reach and the gates it has    *)
(* passed are not closed for it.                                           *)
LEMMA LocalStep ==
  ASSUME IInv, NEW h \in Handlers, NEW v \in Verdicts \cup {"none"}, NEW label \in Evaluating,
         pc[h] \in Evaluating \ {"record"},
         pc' = [pc EXCEPT ![h] = label],
         job' = [job EXCEPT ![h].verdict = v],
         v # "none" <=> label = "record",
         v = "PENDING_APPROVAL" => job[h].kind = "authorize",
         v = "ALLOW" => job[h].blocked = {},
         label \in {"agent", "policy", "budget"} => "fleet" \notin job[h].blocked,
         label \in {"policy", "budget"} => "agent" \notin job[h].blocked,
         job[h].kind = "authorize" /\ (label = "budget" \/ v = "ALLOW") =>
           ~ExceedsThreshold(job[h].payload),
         remaining' \in [Budgets -> Nat],
         UNCHANGED <<dbVars, lockVars, open, answer>>
  PROVE  IInv'
<1> USE DEF dbVars, lockVars
<1>1. job \in [Handlers -> [kind : {"none", "authorize", "approve", "deny", "verify"},
                           id : Ids \cup {NoId}, payload : Payloads \cup {NoPayload},
                           verdict : Verdicts \cup {"none"}, consume : BOOLEAN,
                           blocked : SUBSET Gates, late : BOOLEAN]]
      /\ pc \in [Handlers -> {"idle", "claim", "close", "verify", "consume"} \cup Evaluating]
  BY DEF IInv, TypeOK, Evaluating
<1>2. /\ pc'[h] = label /\ job'[h] = [job[h] EXCEPT !.verdict = v]
      /\ \A k \in Handlers \ {h} : pc'[k] = pc[k] /\ job'[k] = job[k]
  BY <1>1
<1>3. /\ job'[h].kind = job[h].kind /\ job'[h].id = job[h].id
      /\ job'[h].payload = job[h].payload /\ job'[h].late = job[h].late
      /\ job'[h].blocked = job[h].blocked /\ job'[h].verdict = v
  BY <1>1, <1>2
<1>4. job[h].kind \in {"authorize", "approve"}
  BY <1>1 DEF IInv, Phases, Evaluating, Gates
<1>5. TypeOK'
  <2>1. job' \in [Handlers -> [kind : {"none", "authorize", "approve", "deny", "verify"},
                           id : Ids \cup {NoId}, payload : Payloads \cup {NoPayload},
                           verdict : Verdicts \cup {"none"}, consume : BOOLEAN,
                           blocked : SUBSET Gates, late : BOOLEAN]]
    BY <1>1
  <2>2. pc' \in [Handlers -> {"idle", "claim", "close", "verify", "consume"} \cup Evaluating]
    BY <1>1
  <2>3. QED BY <2>1, <2>2 DEF IInv, TypeOK, Evaluating
<1>6. Phases'
  BY <1>2, <1>3, <1>4 DEF IInv, Phases, Evaluating, Gates
<1>7. Locks'
  BY <1>2, <1>3, <1>4 DEF IInv, Locks, Evaluating, Gates
<1>8. Lateness'
  BY <1>2, <1>3 DEF IInv, Lateness
<1>9. Blocking'
  BY <1>2, <1>3 DEF IInv, Blocking
<1>10. Rows' /\ AuthorizationsAreDecided' /\ SingleUse' /\ ApprovedHasAuthorization'
  BY DEF IInv, Rows, Recorded, AuthorizationsAreDecided, SingleUse, ApprovedHasAuthorization
<1>11. Purposes'
  BY <1>2, <1>3, <1>4 DEF IInv, Purposes, Evaluating, Gates, ExceedsThreshold
<1>12. AnswersMatchTheLog'
  BY DEF IInv, AnswersMatchTheLog
<1>13. QED BY <1>5, <1>6, <1>7, <1>8, <1>9, <1>10, <1>11, <1>12 DEF IInv

(* The steps of evaluate_request before the decision is recorded.          *)
LEMMA EvaluationStep ==
  ASSUME IInv, NEW h \in Handlers,
         \/ NoReplay(h) \/ PassGate(h) \/ MeetClosedGate(h) \/ PolicyDenies(h)
         \/ PolicyAllows(h) \/ Reserve(h) \/ RefuseBudget(h)
  PROVE  IInv'
<1> USE DEF Goto, Decide
<1>1. pc[h] \in Evaluating \ {"record"}
  BY DEF NoReplay, PassGate, MeetClosedGate, PolicyDenies, PolicyAllows, Reserve,
         RefuseBudget, Evaluating, Gates
<1>2. job[h].verdict = "none" /\ job[h].payload \in Payloads
  BY <1>1 DEF IInv, Phases, Evaluating, Gates
<1>3. job = [job EXCEPT ![h].verdict = "none"]
  BY <1>2 DEF IInv, TypeOK
<1>4. remaining \in [Budgets -> Nat]
  BY DEF IInv, TypeOK
<1>5. CASE NoReplay(h)
  BY <1>1, <1>3, <1>4, <1>5, LocalStep DEF NoReplay, Evaluating, Gates, dbVars, lockVars
<1>6. CASE PassGate(h)
  <2>1. open[pc[h]] /\ pc[h] \in Gates BY <1>6 DEF PassGate
  <2>2. pc[h] \notin job[h].blocked
    BY <2>1 DEF IInv, Blocking
  <2>3. CASE pc[h] = "fleet"
    BY <1>1, <1>3, <1>4, <1>6, <2>2, <2>3, LocalStep
       DEF PassGate, Evaluating, Gates, dbVars, lockVars
  <2>4. CASE pc[h] = "agent"
    <3>1. "fleet" \notin job[h].blocked BY <2>4 DEF IInv, Blocking
    <3>2. QED BY <1>1, <1>3, <1>4, <1>6, <2>2, <2>4, <3>1, LocalStep
              DEF PassGate, Evaluating, Gates, dbVars, lockVars
  <2>5. QED BY <2>1, <2>3, <2>4 DEF Gates
<1>7. CASE MeetClosedGate(h) \/ PolicyDenies(h) \/ RefuseBudget(h)
  BY <1>1, <1>4, <1>7, LocalStep
     DEF MeetClosedGate, PolicyDenies, RefuseBudget, Evaluating, Gates, Verdicts, dbVars, lockVars
<1>8. CASE PolicyAllows(h)
  <2>1. pc[h] = "policy" BY <1>8 DEF PolicyAllows
  <2>2. "fleet" \notin job[h].blocked /\ "agent" \notin job[h].blocked
    BY <2>1 DEF IInv, Blocking
  <2>3. CASE job[h].kind = "authorize" /\ ExceedsThreshold(job[h].payload)
    BY <1>1, <1>4, <1>8, <2>3, LocalStep
       DEF PolicyAllows, Evaluating, Gates, Verdicts, dbVars, lockVars
  <2>4. CASE ~(job[h].kind = "authorize" /\ ExceedsThreshold(job[h].payload))
    BY <1>1, <1>3, <1>4, <1>8, <2>2, <2>4, LocalStep
       DEF PolicyAllows, Evaluating, Gates, dbVars, lockVars
  <2>5. QED BY <2>3, <2>4
<1>9. CASE Reserve(h)
  <2>1. pc[h] = "budget" BY <1>9 DEF Reserve
  <2>2. job[h].blocked = {}
    BY <2>1 DEF IInv, Blocking, TypeOK, Gates
  <2>3. job[h].kind = "authorize" => ~ExceedsThreshold(job[h].payload)
    BY <2>1 DEF IInv, Purposes
  <2>4. remaining' \in [Budgets -> Nat]
    BY <1>2, <1>4, <1>9, AmountAssumption DEF Reserve, Suffices
  <2>5. PICK v \in {"ALLOW", "DENY"} : Decide(h, v)
    BY <1>9 DEF Reserve
  <2>6. QED BY <1>1, <1>9, <2>2, <2>3, <2>4, <2>5, LocalStep
            DEF Reserve, Evaluating, Verdicts, dbVars, lockVars
<1>10. QED BY <1>5, <1>6, <1>7, <1>8, <1>9

-----------------------------------------------------------------------------
\* The types of the handlers' local state, as two facts.
JobType == job \in [Handlers -> [kind : {"none", "authorize", "approve", "deny", "verify"},
                           id : Ids \cup {NoId}, payload : Payloads \cup {NoPayload},
                           verdict : Verdicts \cup {"none"}, consume : BOOLEAN,
                           blocked : SUBSET Gates, late : BOOLEAN]]
PcType  == pc \in [Handlers -> {"idle", "claim", "close", "verify", "consume"} \cup Evaluating]

LEMMA LocalTypes == IInv => JobType /\ PcType
BY DEF IInv, TypeOK, JobType, PcType, Evaluating

Answers == Verdicts \cup {"none", "400", "403", "409", "500", "lost", "VERIFIED"}

(* What an answer leaves of the handler: an idle one with nothing to do.   *)
LEMMA AnswerLocals ==
  ASSUME IInv, NEW h \in Handlers, NEW v \in Answers, Answer(h, v)
  PROVE  /\ pc'[h] = "idle" /\ job'[h] = NoJob
         /\ \A k \in Handlers \ {h} : pc'[k] = pc[k] /\ job'[k] = job[k]
         /\ answer'[h] = [id |-> job[h].id, verdict |-> v]
         /\ \A k \in Handlers \ {h} : answer'[k] = answer[k]
         /\ JobType' /\ PcType'
         /\ answer' \in [Handlers -> [id : Ids \cup {NoId}, verdict : Answers]]
<1>1. JobType /\ PcType BY LocalTypes
<1>2. answer \in [Handlers -> [id : Ids \cup {NoId}, verdict : Answers]]
  BY DEF IInv, TypeOK, Answers
<1>3. NoJob \in [kind : {"none", "authorize", "approve", "deny", "verify"},
                 id : Ids \cup {NoId}, payload : Payloads \cup {NoPayload},
                 verdict : Verdicts \cup {"none"}, consume : BOOLEAN,
                 blocked : SUBSET Gates, late : BOOLEAN]
  BY DEF NoJob
<1>4. job[h].id \in Ids \cup {NoId}
  BY <1>1 DEF JobType
<1>5. job' = [job EXCEPT ![h] = NoJob] /\ pc' = [pc EXCEPT ![h] = "idle"]
      /\ answer' = [answer EXCEPT ![h] = [id |-> job[h].id, verdict |-> v]]
  BY DEF Answer, Goto
<1>6. JobType' BY <1>1, <1>3, <1>5 DEF JobType
<1>7. PcType' BY <1>1, <1>5 DEF PcType
<1>8. answer' \in [Handlers -> [id : Ids \cup {NoId}, verdict : Answers]]
  BY <1>2, <1>4, <1>5
<1>9. QED BY <1>1, <1>2, <1>5, <1>6, <1>7, <1>8 DEF JobType, PcType

(* The parts of the invariant that an answer can touch: h is gone, so the  *)
(* others keep what they have as long as the rows they rely on do.         *)
LEMMA AnswerKeepsLocals ==
  ASSUME IInv, NEW h \in Handlers, NEW v \in Answers, Answer(h, v), UNCHANGED open
  PROVE  Phases' /\ Blocking'
<1>1. /\ pc'[h] = "idle" /\ job'[h] = NoJob
      /\ \A k \in Handlers \ {h} : pc'[k] = pc[k] /\ job'[k] = job[k]
  BY AnswerLocals
<1>2. NoJob.kind = "none" /\ NoJob.verdict = "none" /\ NoJob.blocked = {}
      /\ "idle" \notin Evaluating
  BY DEF NoJob, Evaluating, Gates
<1>3. Phases'
  BY <1>1, <1>2 DEF IInv, Phases
<1>4. Blocking'
  BY <1>1, <1>2 DEF IInv, Blocking
<1>5. QED BY <1>3, <1>4

(* Ending without having written anything: a replay, a conflict on the     *)
(* unique index, a refusal or a crash.                                     *)
LEMMA GiveUpStep ==
  ASSUME IInv, NEW h \in Handlers, NEW v \in Answers, Answer(h, v),
         v \in Verdicts => job[h].id \in Ids /\ decision[job[h].id].verdict = v,
         UNCHANGED <<dbVars, remaining, open>>,
         Unlock(h) \/ (UNCHANGED lockVars /\ pc[h] \notin Evaluating \cup {"consume"})
  PROVE  IInv'
<1> USE DEF dbVars, lockVars
<1>1. /\ pc'[h] = "idle" /\ job'[h] = NoJob
      /\ \A k \in Handlers \ {h} : pc'[k] = pc[k] /\ job'[k] = job[k]
      /\ answer'[h] = [id |-> job[h].id, verdict |-> v]
      /\ \A k \in Handlers \ {h} : answer'[k] = answer[k]
  BY AnswerLocals
<1>2. JobType' /\ PcType' /\ answer' \in [Handlers -> [id : Ids \cup {NoId}, verdict : Answers]]
  BY AnswerLocals
<1>3. rowLock' \in [Requests -> Handlers \cup {NoHandler}]
      /\ authLock' \in [Ids -> Handlers \cup {NoHandler}]
  BY DEF IInv, TypeOK, Unlock
<1>4. TypeOK'
  BY <1>2, <1>3 DEF IInv, TypeOK, JobType, PcType, Answers, Evaluating
<1>5. Phases' /\ Blocking'
  BY AnswerKeepsLocals
<1>6. Locks'
  <2>1. \A r \in Requests : rowLock'[r] # h /\ \A k \in Handlers \ {h} : rowLock'[r] = k <=> rowLock[r] = k
    BY NamesAssumption DEF IInv, TypeOK, Locks, Unlock
  <2>2. \A i \in Ids : authLock'[i] # h /\ \A k \in Handlers \ {h} : authLock'[i] = k <=> authLock[i] = k
    BY NamesAssumption DEF IInv, TypeOK, Locks, Unlock
  <2>3. \A k \in Handlers : pc[k] # "idle" => job[k].id \in Ids /\ job[k].id[1] \in Requests
    BY DEF IInv, Phases, Ids
  <2>4. QED BY <1>1, <2>1, <2>2, <2>3 DEF IInv, Locks, NoJob, Evaluating, Gates
<1>7. Lateness'
  BY <1>1 DEF IInv, Lateness, NoJob
<1>8. Rows' /\ AuthorizationsAreDecided' /\ SingleUse' /\ ApprovedHasAuthorization'
  BY DEF IInv, Rows, Recorded, AuthorizationsAreDecided, SingleUse, ApprovedHasAuthorization
<1>9. Purposes'
  BY <1>1 DEF IInv, Purposes, NoJob, ExceedsThreshold
<1>10. AnswersMatchTheLog'
  BY <1>1 DEF IInv, AnswersMatchTheLog
<1>11. QED BY <1>4, <1>5, <1>6, <1>7, <1>8, <1>9, <1>10 DEF IInv

LEMMA RefusalStep ==
  ASSUME IInv, NEW h \in Handlers,
         Replay(h) \/ RecordConflicts(h) \/ RefuseClaim(h) \/ RefuseAuthorization(h) \/ Crash(h)
  PROVE  IInv'
<1>1. CASE Replay(h)
  <2>1. job[h].id \in Ids
    BY <1>1 DEF IInv, Phases, Replay
  <2>2. QED BY <1>1, <2>1, GiveUpStep DEF Replay, Answers, Verdicts
<1>2. CASE RecordConflicts(h)
  BY <1>2, GiveUpStep DEF RecordConflicts, Answers, Verdicts
<1>3. CASE RefuseClaim(h)
  BY <1>3, GiveUpStep DEF RefuseClaim, Answers, Verdicts, Evaluating, Gates, dbVars
<1>4. CASE RefuseAuthorization(h)
  BY <1>4, GiveUpStep DEF RefuseAuthorization, Answers, Verdicts, Evaluating, Gates, dbVars
<1>5. CASE Crash(h)
  BY <1>5, GiveUpStep DEF Crash, Answers, Verdicts
<1>6. QED BY <1>1, <1>2, <1>3, <1>4, <1>5

-----------------------------------------------------------------------------
(* A request arrives: what the new job says about the rows is what Start   *)
(* reads of them.                                                          *)
LEMMA StartStep ==
  ASSUME IInv, NEW h \in Handlers, NEW kind \in {"authorize", "approve", "deny", "verify"},
         NEW i \in Ids, NEW p \in Payloads, NEW c \in BOOLEAN, NEW late \in BOOLEAN,
         NEW label, Start(h, kind, i, p, c, late, label),
         kind = "authorize" => label = "idempotency" /\ i[2] = 1 /\ ~late,
         kind \in {"approve", "deny"} =>
           /\ label = "claim" /\ i[2] = 1
           /\ approval[i[1]].status # "none"
           /\ p = decision[i].payload /\ late = approval[i[1]].lapsed,
         kind = "verify" => label = "verify" /\ late = auth[i].lapsed
  PROVE  IInv'
<1> DEFINE j == [kind |-> kind, id |-> i, payload |-> p, verdict |-> "none", consume |-> c,
                 blocked |-> {g \in Gates : ~open[g]}, late |-> late]
<1> USE DEF dbVars, lockVars
<1>1. JobType /\ PcType BY LocalTypes
<1>2. pc[h] = "idle" /\ pc' = [pc EXCEPT ![h] = label] /\ job' = [job EXCEPT ![h] = j]
      /\ answer' = [answer EXCEPT ![h] = NoAnswer]
      /\ UNCHANGED <<dbVars, lockVars, remaining, open>>
  BY DEF Start, Goto
<1>3. /\ pc'[h] = label /\ job'[h] = j
      /\ \A k \in Handlers \ {h} : pc'[k] = pc[k] /\ job'[k] = job[k]
  BY <1>1, <1>2 DEF JobType, PcType
<1>4. i[1] \in Requests /\ (i[2] = 1 => i = <<i[1], 1>>)
  BY DEF Ids
<1>5. TypeOK'
  <2>1. job' \in [Handlers -> [kind : {"none", "authorize", "approve", "deny", "verify"},
                           id : Ids \cup {NoId}, payload : Payloads \cup {NoPayload},
                           verdict : Verdicts \cup {"none"}, consume : BOOLEAN,
                           blocked : SUBSET Gates, late : BOOLEAN]]
    BY <1>1, <1>2 DEF JobType
  <2>2. pc' \in [Handlers -> {"idle", "idempotency", "policy", "budget", "record", "claim",
                          "close", "verify", "consume"} \cup Gates]
    BY <1>1, <1>2 DEF PcType, Evaluating
  <2>3. answer' \in [Handlers -> [id : Ids \cup {NoId}, verdict : Answers]]
    BY <1>2 DEF IInv, TypeOK, NoAnswer, Answers
  <2>4. QED BY <1>2, <2>1, <2>2, <2>3 DEF IInv, TypeOK, Answers
<1>6. Phases'
  <2>1. j.kind = kind /\ j.id = i /\ j.payload = p /\ j.verdict = "none" /\ j.late = late
    OBVIOUS
  <2>2. QED BY <1>3, <2>1 DEF IInv, Phases, Evaluating, Gates, Verdicts
<1>7. Locks'
  <2>1. \A r \in Requests : rowLock[r] # h
    BY <1>2 DEF IInv, Locks, Evaluating, Gates
  <2>2. \A k \in Ids : authLock[k] # h
    BY <1>2 DEF IInv, Locks
  <2>3. QED BY <1>2, <1>3, <2>1, <2>2 DEF IInv, Locks, Evaluating, Gates
<1>8. Lateness'
  BY <1>2, <1>3 DEF IInv, Lateness
<1>9. Blocking'
  <2>1. j.blocked = {g \in Gates : ~open[g]} /\ j.verdict = "none"
    OBVIOUS
  <2>2. label \notin {"agent", "policy", "budget"}
    OBVIOUS
  <2>3. job'[h].blocked = {g \in Gates : ~open[g]} /\ job'[h].verdict = "none" /\ pc'[h] = label
    BY <1>3, <2>1
  <2>4. \A g \in job'[h].blocked : ~open[g]
    BY <2>3
  <2>5. ASSUME NEW k \in Handlers \ {h}
        PROVE  pc'[k] = pc[k] /\ job'[k] = job[k]
    BY <1>3
  <2>6. HIDE DEF j
  <2>7. QED BY <1>2, <2>2, <2>3, <2>4, <2>5 DEF IInv, Blocking
<1>10. Rows' /\ AuthorizationsAreDecided' /\ SingleUse' /\ ApprovedHasAuthorization'
  BY <1>2 DEF IInv, Rows, Recorded, AuthorizationsAreDecided, SingleUse, ApprovedHasAuthorization
<1>11. Purposes'
  <2>1. /\ job'[h].kind = kind /\ job'[h].id = i /\ job'[h].payload = p
        /\ job'[h].verdict = "none" /\ pc'[h] \notin {"budget", "close"}
    BY <1>3
  <2>2. kind \in {"approve", "deny"} =>
          approval'[i[1]].status # "none" /\ p = decision'[<<i[1], 1>>].payload
    BY <1>2, <1>4
  <2>3. ASSUME NEW k \in Handlers \ {h}
        PROVE  pc'[k] = pc[k] /\ job'[k] = job[k]
    BY <1>3
  <2>4. HIDE DEF j
  <2>5. ASSUME NEW k \in Handlers
        PROVE  /\ job'[k].kind \in {"approve", "deny"} =>
                    /\ approval'[job'[k].id[1]].status # "none"
                    /\ job'[k].payload = decision'[<<job'[k].id[1], 1>>].payload
               /\ job'[k].kind = "authorize" /\ (pc'[k] = "budget" \/ job'[k].verdict = "ALLOW") =>
                    ~ExceedsThreshold(job'[k].payload)
               /\ pc'[k] = "close" =>
                    /\ job'[k].id[2] \in 2 .. approval'[job'[k].id[1]].attempt
                    /\ decision'[job'[k].id].verdict = job'[k].verdict
    <3>1. CASE k = h BY <2>1, <2>2, <3>1
    <3>2. CASE k # h BY <1>2, <2>3, <3>2 DEF IInv, Purposes
    <3>3. QED BY <3>1, <3>2
  <2>6. QED BY <2>5 DEF Purposes, ExceedsThreshold
<1>12. AnswersMatchTheLog'
  <2>1. answer'[h] = NoAnswer /\ \A k \in Handlers \ {h} : answer'[k] = answer[k]
    BY <1>2 DEF IInv, TypeOK
  <2>2. NoAnswer.verdict \notin Verdicts
    BY DEF NoAnswer, Verdicts
  <2>3. QED BY <1>2, <2>1, <2>2 DEF IInv, AnswersMatchTheLog
<1>13. QED BY <1>5, <1>6, <1>7, <1>8, <1>9, <1>10, <1>11, <1>12 DEF IInv

LEMMA ArrivalStep ==
  ASSUME IInv, NEW h \in Handlers, Arrive(h)
  PROVE  IInv'
<1>1. \A r \in Requests : <<r, 1>> \in Ids
  BY AttemptAssumption DEF Ids
<1>2. ASSUME NEW r \in Requests, approval[r].status # "none"
      PROVE  decision[<<r, 1>>].payload \in Payloads /\ approval[r].lapsed \in BOOLEAN
  BY <1>1, <1>2 DEF IInv, Rows, Recorded, TypeOK
<1>3. CASE \E r \in Requests, p \in Payloads : StartAuthorize(h, r, p)
  BY <1>1, <1>3, StartStep DEF StartAuthorize
<1>4. CASE \E r \in Requests : StartApprove(h, r)
  BY <1>1, <1>2, <1>4, StartStep DEF StartApprove
<1>5. CASE \E r \in Requests : StartDeny(h, r)
  BY <1>1, <1>2, <1>5, StartStep DEF StartDeny
<1>6. CASE \E i \in Ids, p \in Payloads, c \in BOOLEAN : StartVerify(h, i, p, c)
  <2>1. \A i \in Ids : auth[i].lapsed \in BOOLEAN
    BY DEF IInv, TypeOK
  <2>2. QED BY <1>6, <2>1, StartStep DEF StartVerify
<1>7. QED BY <1>3, <1>4, <1>5, <1>6 DEF Arrive

-----------------------------------------------------------------------------
(* Locks a handler can be found to hold are those Locks says.              *)
LEMMA UnlockEffect ==
  ASSUME IInv, NEW h \in Handlers, Unlock(h)
  PROVE  /\ rowLock' \in [Requests -> Handlers \cup {NoHandler}]
         /\ authLock' \in [Ids -> Handlers \cup {NoHandler}]
         /\ \A r \in Requests : rowLock'[r] # h
         /\ \A r \in Requests : \A k \in Handlers \ {h} : rowLock'[r] = k <=> rowLock[r] = k
         /\ \A i \in Ids : authLock'[i] # h
         /\ \A i \in Ids : \A k \in Handlers \ {h} : authLock'[i] = k <=> authLock[i] = k
BY NamesAssumption DEF IInv, TypeOK, Unlock

(* The row an approving handler evaluates is its own: nobody else changes  *)
(* it while it is locked.                                                  *)
LEMMA EvaluatorsOwnRows ==
  ASSUME IInv, NEW h \in Handlers, NEW k \in Handlers \ {h},
         job[h].kind = "approve", pc[h] \in Evaluating,
         job[k].kind = "approve", pc[k] \in Evaluating
  PROVE  job[k].id[1] # job[h].id[1]
BY DEF IInv, Locks

(* Recording a decision. The row of the decision was empty, so nothing     *)
(* that anybody has been told or relies on changes with it.                *)
LEMMA RecordStep ==
  ASSUME IInv, NEW h \in Handlers, Record(h)
  PROVE  IInv'
<1> DEFINE i == job[h].id
           r == i[1]
           v == job[h].verdict
           p == job[h].payload
<1>1. JobType /\ PcType BY LocalTypes
<1>2. /\ pc[h] = "record" /\ i \in Ids /\ r \in Requests /\ i[2] \in 1 .. MaxAttempt
      /\ i = <<r, i[2]>> /\ p \in Payloads /\ v \in Verdicts
      /\ job[h].kind \in {"authorize", "approve"}
  BY <1>1 DEF Record, IInv, Phases, Evaluating, Gates, Ids, JobType
<1>3. /\ ~Recorded(i)
      /\ decision' = [decision EXCEPT ![i] = [verdict |-> v, payload |-> p]]
      /\ auth' = IF v = "ALLOW" THEN [auth EXCEPT ![i].status = "ISSUED"] ELSE auth
      /\ approval' = IF v = "PENDING_APPROVAL" THEN [approval EXCEPT ![r].status = "PENDING"]
                     ELSE IF job[h].kind = "approve" THEN [approval EXCEPT ![r].attempt = i[2]]
                     ELSE approval
      /\ UNCHANGED <<consumed, remaining, open>> /\ Unlock(h)
  BY DEF Record
<1>4. v = "PENDING_APPROVAL" => job[h].kind = "authorize"
  BY DEF IInv, Phases
<1>5. job[h].kind = "authorize" => i[2] = 1
  BY DEF IInv, Phases
<1>6. job[h].kind = "approve" =>
        /\ rowLock[r] = h /\ approval[r].status = "PENDING"
        /\ i[2] = approval[r].attempt + 1
        /\ p = decision[<<r, 1>>].payload
  BY <1>2 DEF IInv, Locks, Purposes, Evaluating
<1>7. /\ decision \in [Ids -> [verdict : Verdicts \cup {"none"}, payload : Payloads \cup {NoPayload}]]
      /\ auth \in [Ids -> [status : {"none", "ISSUED", "CONSUMED", "EXPIRED"}, lapsed : BOOLEAN]]
      /\ approval \in [Requests -> [status : {"none", "PENDING", "APPROVED", "DENIED", "EXPIRED"},
                                attempt : 1 .. MaxAttempt, lapsed : BOOLEAN, auth : 0 .. MaxAttempt]]
  BY DEF IInv, TypeOK
<1>8. \/ job[h].kind = "authorize" /\ Answer(h, v)
      \/ job[h].kind = "approve" /\ pc' = [pc EXCEPT ![h] = "close"] /\ UNCHANGED <<job, answer>>
  BY <1>2 DEF Record, Goto
<1>9. /\ decision'[i].verdict = v /\ decision'[i].payload = p
      /\ \A k \in Ids \ {i} : decision'[k] = decision[k]
  BY <1>2, <1>3, <1>7
<1>10. /\ \A k \in Ids \ {i} : auth'[k] = auth[k]
       /\ auth'[i].lapsed = auth[i].lapsed
       /\ auth'[i].status = IF v = "ALLOW" THEN "ISSUED" ELSE auth[i].status
       /\ auth[i].status = "none"
  <2>1. auth[i].status = "none"
    BY <1>2, <1>3 DEF IInv, AuthorizationsAreDecided, Recorded
  <2>2. QED BY <1>2, <1>3, <1>7, <2>1
<1>11. /\ \A q \in Requests \ {r} : approval'[q] = approval[q]
       /\ approval'[r].lapsed = approval[r].lapsed /\ approval'[r].auth = approval[r].auth
       /\ approval'[r].status = IF v = "PENDING_APPROVAL" THEN "PENDING" ELSE approval[r].status
       /\ approval'[r].attempt = IF job[h].kind = "approve" THEN i[2] ELSE approval[r].attempt
       /\ approval'[r].attempt >= approval[r].attempt
  BY <1>2, <1>3, <1>4, <1>6, <1>7
<1>12. \A k \in Handlers \ {h} : pc'[k] = pc[k] /\ job'[k] = job[k] /\ answer'[k] = answer[k]
  <2>1. CASE job[h].kind = "authorize"
    BY <1>2, <1>8, <2>1, AnswerLocals DEF Answers
  <2>2. CASE job[h].kind = "approve"
    BY <1>1, <1>8, <2>2 DEF PcType
  <2>3. QED BY <1>2, <2>1, <2>2
<1>13. \/ pc'[h] = "idle" /\ job'[h] = NoJob /\ job[h].kind = "authorize"
          /\ answer'[h] = [id |-> i, verdict |-> v]
       \/ pc'[h] = "close" /\ job'[h] = job[h] /\ job[h].kind = "approve" /\ answer'[h] = answer[h]
  <2>1. CASE job[h].kind = "authorize"
    BY <1>2, <1>8, <2>1, AnswerLocals DEF Answers
  <2>2. CASE job[h].kind = "approve"
    BY <1>1, <1>8, <2>2 DEF PcType
  <2>3. QED BY <1>2, <2>1, <2>2
<1>14. /\ NoJob.kind = "none" /\ NoJob.verdict = "none" /\ NoJob.blocked = {} /\ ~NoJob.late
       /\ "idle" \notin Evaluating /\ "close" \notin Evaluating /\ "close" \notin Gates
  BY DEF NoJob, Evaluating, Gates
<1>15. TypeOK'
  <2>1. [verdict |-> v, payload |-> p] \in [verdict : Verdicts \cup {"none"}, payload : Payloads \cup {NoPayload}]
    BY <1>2
  <2>2. decision' \in [Ids -> [verdict : Verdicts \cup {"none"}, payload : Payloads \cup {NoPayload}]]
    BY <1>3, <1>7, <2>1
  <2>3. auth' \in [Ids -> [status : {"none", "ISSUED", "CONSUMED", "EXPIRED"}, lapsed : BOOLEAN]]
    BY <1>2, <1>3, <1>7
  <2>4. approval' \in [Requests -> [status : {"none", "PENDING", "APPROVED", "DENIED", "EXPIRED"},
                                attempt : 1 .. MaxAttempt, lapsed : BOOLEAN, auth : 0 .. MaxAttempt]]
    BY <1>2, <1>3, <1>7
  <2>5. JobType' /\ PcType' /\ answer' \in [Handlers -> [id : Ids \cup {NoId}, verdict : Answers]]
    <3>1. CASE job[h].kind = "authorize"
      BY <1>2, <1>8, <3>1, AnswerLocals DEF Answers
    <3>2. CASE job[h].kind = "approve"
      BY <1>1, <1>8, <3>2 DEF JobType, PcType, IInv, TypeOK, Answers
    <3>3. QED BY <1>2, <3>1, <3>2
  <2>6. QED BY <1>3, <2>2, <2>3, <2>4, <2>5, UnlockEffect
            DEF IInv, TypeOK, JobType, PcType, Answers, Evaluating
<1> HIDE DEF i, r, v, p
<1>16. Phases'
  <2>1. ASSUME NEW k \in Handlers \ {h}
        PROVE  pc'[k] = pc[k] /\ job'[k] = job[k]
    BY <1>12
  <2>2. CASE pc'[h] = "idle" /\ job'[h] = NoJob
    BY <1>14, <2>1, <2>2 DEF IInv, Phases
  <2>3. CASE pc'[h] = "close" /\ job'[h] = job[h] /\ job[h].kind = "approve"
    <3>1. ~job[h].late
      BY <1>2, <2>3 DEF IInv, Locks, Evaluating
    <3>2. QED BY <1>2, <1>4, <1>14, <2>1, <2>3, <3>1 DEF IInv, Phases
  <2>4. QED BY <1>13, <2>2, <2>3
<1>17. Locks'
  <2>1. /\ pc'[h] \notin Evaluating /\ pc'[h] # "consume"
    BY <1>13, <1>14
  <2>2. ASSUME NEW k \in Handlers \ {h}, job[k].kind = "approve", pc[k] \in Evaluating
        PROVE  approval'[job[k].id[1]] = approval[job[k].id[1]]
    <3>1. job[k].id[1] \in Requests /\ rowLock[job[k].id[1]] = k
          /\ approval[job[k].id[1]].status = "PENDING"
      BY <2>2 DEF IInv, Locks, Phases, Ids, Evaluating, Gates
    <3>2. job[h].kind = "approve" => job[k].id[1] # r
      BY <1>6, <3>1
    <3>3. v = "PENDING_APPROVAL" => job[k].id[1] # r
      <4>1. v = "PENDING_APPROVAL" => i = <<r, 1>>
        BY <1>2, <1>4, <1>5
      <4>2. v = "PENDING_APPROVAL" => approval[r].status = "none"
        BY <1>2, <1>3, <4>1 DEF IInv, Rows, Recorded
      <4>3. QED BY <3>1, <4>2
    <3>4. QED BY <1>2, <1>3, <1>7, <3>1, <3>2, <3>3
  <2>3. ASSUME NEW k \in Handlers \ {h}, pc[k] = "consume"
        PROVE  auth'[job[k].id] = auth[job[k].id]
    <3>1. job[k].id \in Ids /\ auth[job[k].id].status = "ISSUED"
      BY <2>3 DEF IInv, Locks, Phases
    <3>2. job[k].id # i
      BY <1>10, <3>1
    <3>3. QED BY <1>10, <3>1, <3>2
  <2>4. /\ \A q \in Requests : rowLock'[q] # h
        /\ \A q \in Requests : \A k \in Handlers \ {h} : rowLock'[q] = k <=> rowLock[q] = k
        /\ \A q \in Ids : authLock'[q] # h
        /\ \A q \in Ids : \A k \in Handlers \ {h} : authLock'[q] = k <=> authLock[q] = k
    BY <1>3, UnlockEffect
  <2>5. ASSUME NEW k \in Handlers \ {h}
        PROVE  pc'[k] = pc[k] /\ job'[k] = job[k]
    BY <1>12
  <2>6. \A k \in Handlers, q \in Requests :
          rowLock'[q] = k =>
            job'[k].kind = "approve" /\ pc'[k] \in Evaluating /\ job'[k].id[1] = q
    BY <2>4, <2>5 DEF IInv, Locks
  <2>7. \A k \in Handlers, q \in Ids :
          authLock'[q] = k => pc'[k] = "consume" /\ job'[k].id = q
    BY <2>4, <2>5 DEF IInv, Locks
  <2>8. ASSUME NEW k \in Handlers, job'[k].kind = "approve", pc'[k] \in Evaluating
        PROVE  /\ rowLock'[job'[k].id[1]] = k
               /\ approval'[job'[k].id[1]].status = "PENDING"
               /\ job'[k].id[2] = approval'[job'[k].id[1]].attempt + 1
               /\ ~job'[k].late
    <3>1. k \in Handlers \ {h} BY <2>1, <2>8
    <3>2. pc[k] \in Evaluating /\ job[k].kind = "approve" /\ job'[k] = job[k]
      BY <2>5, <2>8, <3>1
    <3>3. job[k].id[1] \in Requests
      BY <3>2 DEF IInv, Phases, Ids, Evaluating, Gates
    <3>4. QED BY <2>2, <2>4, <3>1, <3>2, <3>3 DEF IInv, Locks
  <2>9. ASSUME NEW k \in Handlers, pc'[k] = "consume"
        PROVE  /\ authLock'[job'[k].id] = k
               /\ auth'[job'[k].id].status = "ISSUED"
               /\ ~job'[k].late
    <3>1. k \in Handlers \ {h} BY <2>1, <2>9
    <3>2. pc[k] = "consume" /\ job'[k] = job[k] BY <2>5, <2>9, <3>1
    <3>3. job[k].id \in Ids BY <3>2 DEF IInv, Phases
    <3>4. QED BY <2>3, <2>4, <3>1, <3>2, <3>3 DEF IInv, Locks
  <2>10. QED BY <2>6, <2>7, <2>8, <2>9 DEF Locks
<1>18. Lateness'
  <2>1. job'[h].late => job'[h] = job[h]
    BY <1>13, <1>14
  <2>2. \A q \in Requests : approval'[q].lapsed = approval[q].lapsed
    BY <1>11
  <2>3. \A q \in Ids : auth'[q].lapsed = auth[q].lapsed
    BY <1>10
  <2>4. \A k \in Handlers : job[k].kind # "none" => job[k].id \in Ids /\ job[k].id[1] \in Requests
    BY <1>1 DEF IInv, Phases, Ids, JobType, Evaluating, Gates
  <2>5. ASSUME NEW k \in Handlers, job'[k].late
        PROVE  /\ job'[k].kind = "approve" => approval'[job'[k].id[1]].lapsed
               /\ job'[k].kind = "verify" => auth'[job'[k].id].lapsed
    <3>1. job'[k] = job[k] BY <1>12, <2>1, <2>5
    <3>2. QED BY <2>2, <2>3, <2>4, <2>5, <3>1 DEF IInv, Lateness
  <2>6. QED BY <2>5 DEF Lateness
<1>19. Blocking'
  <2>1. pc'[h] \notin {"agent", "policy", "budget"}
    BY <1>13
  <2>2. job'[h] = job[h] \/ (job'[h].blocked = {} /\ job'[h].verdict = "none")
    BY <1>13, <1>14
  <2>3. ASSUME NEW k \in Handlers \ {h}
        PROVE  pc'[k] = pc[k] /\ job'[k] = job[k]
    BY <1>12
  <2>4. QED BY <1>3, <2>1, <2>2, <2>3 DEF IInv, Blocking
<1>20. Rows'
  <2>1. v = "PENDING_APPROVAL" => i = <<r, 1>>
    BY <1>2, <1>4, <1>5
  <2>2. \A q \in Requests : <<q, 1>> \in Ids /\ (<<q, 1>> = i => q = r)
    BY <1>2, AttemptAssumption DEF Ids
  <2>3. \A q \in Ids : q[1] \in Requests
    BY DEF Ids
  <2>4. ASSUME NEW q \in Ids, Recorded(q)'
        PROVE  decision'[q].payload \in Payloads
    BY <1>2, <1>9, <2>4 DEF IInv, Rows, Recorded
  <2>5. ASSUME NEW q \in Requests
        PROVE  approval'[q].status # "none" <=> decision'[<<q, 1>>].verdict = "PENDING_APPROVAL"
    <3>1. approval[q].status # "none" <=> decision[<<q, 1>>].verdict = "PENDING_APPROVAL"
      BY DEF IInv, Rows
    <3>2. CASE v = "PENDING_APPROVAL"
      BY <1>2, <1>9, <1>11, <2>1, <2>2, <3>1, <3>2
    <3>3. CASE v # "PENDING_APPROVAL"
      <4>1. approval'[q].status = approval[q].status
        BY <1>11, <3>3
      <4>2. CASE <<q, 1>> = i
        BY <1>3, <1>9, <3>1, <3>3, <4>1, <4>2 DEF Recorded
      <4>3. CASE <<q, 1>> # i
        BY <1>9, <2>2, <3>1, <4>1, <4>3
      <4>4. QED BY <4>2, <4>3
    <3>4. QED BY <3>2, <3>3
  <2>6. ASSUME NEW q \in Ids, q[2] # 1, Recorded(q)'
        PROVE  /\ approval'[q[1]].status # "none"
               /\ decision'[q].payload = decision'[<<q[1], 1>>].payload
    <3>1. approval[q[1]].status # "none" /\ (q # i => Recorded(q))
          /\ (q # i => decision[q].payload = decision[<<q[1], 1>>].payload)
          /\ (q = i => p = decision[<<q[1], 1>>].payload)
      <4>1. CASE q = i
        <5>1. job[h].kind = "approve" BY <1>2, <1>5, <2>6, <4>1
        <5>2. QED BY <1>6, <4>1, <5>1 DEF r
      <4>2. CASE q # i
        BY <1>9, <2>6, <4>2 DEF IInv, Rows, Recorded
      <4>3. QED BY <4>1, <4>2
    <3>2. Recorded(<<q[1], 1>>) /\ <<q[1], 1>> \in Ids
      BY <2>2, <2>3, <3>1 DEF IInv, Rows, Recorded
    <3>3. <<q[1], 1>> # i /\ decision'[<<q[1], 1>>] = decision[<<q[1], 1>>]
      BY <1>3, <1>9, <3>2
    <3>4. approval'[q[1]].status # "none"
      BY <1>11, <2>3, <3>1
    <3>5. QED BY <1>9, <3>1, <3>3, <3>4
  <2>7. ASSUME NEW q \in Ids, q[2] = 1, decision'[q].verdict = "ALLOW"
        PROVE  ~(Amount[decision'[q].payload] > Threshold)
    <3>1. CASE q = i
      <4>1. job[h].kind = "authorize" /\ v = "ALLOW"
        BY <1>2, <1>6, <1>7, <1>9, <2>7, <3>1
      <4>2. QED BY <1>9, <3>1, <4>1 DEF IInv, Purposes, ExceedsThreshold, v, p
    <3>2. CASE q # i
      BY <1>9, <2>7, <3>2 DEF IInv, Rows, ExceedsThreshold
    <3>3. QED BY <3>1, <3>2
  <2>8. QED BY <2>4, <2>5, <2>6, <2>7 DEF Rows, ExceedsThreshold, Recorded
<1>21. Purposes'
  <2>1. \A k \in Handlers : job[k].kind \in {"approve", "deny"} =>
          /\ job[k].id[1] \in Requests
          /\ approval'[job[k].id[1]].status # "none"
          /\ <<job[k].id[1], 1>> \in Ids /\ Recorded(<<job[k].id[1], 1>>)
          /\ decision'[<<job[k].id[1], 1>>] = decision[<<job[k].id[1], 1>>]
    <3>1. SUFFICES ASSUME NEW k \in Handlers, job[k].kind \in {"approve", "deny"}
                   PROVE  /\ job[k].id[1] \in Requests
                          /\ approval'[job[k].id[1]].status # "none"
                          /\ <<job[k].id[1], 1>> \in Ids /\ Recorded(<<job[k].id[1], 1>>)
                          /\ decision'[<<job[k].id[1], 1>>] = decision[<<job[k].id[1], 1>>]
      OBVIOUS
    <3>2. approval[job[k].id[1]].status # "none"
      BY <3>1 DEF IInv, Purposes
    <3>3. job[k].id \in Ids
      BY <3>1 DEF IInv, Phases, Evaluating, Gates
    <3>4. job[k].id[1] \in Requests /\ <<job[k].id[1], 1>> \in Ids
      BY <3>3, AttemptAssumption DEF Ids
    <3>5. Recorded(<<job[k].id[1], 1>>)
      BY <3>2, <3>4 DEF IInv, Rows, Recorded
    <3>6. QED BY <1>3, <1>9, <1>11, <3>2, <3>4, <3>5
  <2>2. \A k \in Handlers : pc[k] = "close" =>
          /\ job[k].id \in Ids /\ job[k].id[1] \in Requests
          /\ decision'[job[k].id].verdict = job[k].verdict
          /\ approval'[job[k].id[1]].attempt \in Nat /\ approval[job[k].id[1]].attempt \in Nat
          /\ approval'[job[k].id[1]].attempt >= approval[job[k].id[1]].attempt
    <3>1. SUFFICES ASSUME NEW k \in Handlers, pc[k] = "close"
                   PROVE  /\ job[k].id \in Ids /\ job[k].id[1] \in Requests
                          /\ decision'[job[k].id].verdict = job[k].verdict
                          /\ approval'[job[k].id[1]].attempt \in Nat
                          /\ approval[job[k].id[1]].attempt \in Nat
                          /\ approval'[job[k].id[1]].attempt >= approval[job[k].id[1]].attempt
      OBVIOUS
    <3>2. job[k].id \in Ids /\ job[k].id[1] \in Requests
      BY <3>1 DEF IInv, Phases, Ids
    <3>3. decision[job[k].id].verdict = job[k].verdict /\ job[k].verdict \in Verdicts
      BY <3>1 DEF IInv, Purposes, Phases
    <3>4. job[k].id # i
      BY <1>3, <3>3 DEF Recorded, Verdicts
    <3>5. decision'[job[k].id].verdict = job[k].verdict
      BY <1>9, <3>2, <3>3, <3>4
    <3>6. \A q \in Requests : approval[q].attempt \in Nat
      BY <1>7
    <3>7. QED BY <1>2, <1>11, <3>2, <3>5, <3>6
  <2>3. ASSUME NEW k \in Handlers
        PROVE  /\ job'[k].kind \in {"approve", "deny"} =>
                    /\ approval'[job'[k].id[1]].status # "none"
                    /\ job'[k].payload = decision'[<<job'[k].id[1], 1>>].payload
               /\ job'[k].kind = "authorize" /\ (pc'[k] = "budget" \/ job'[k].verdict = "ALLOW") =>
                    ~(Amount[job'[k].payload] > Threshold)
               /\ pc'[k] = "close" =>
                    /\ job'[k].id[2] \in 2 .. approval'[job'[k].id[1]].attempt
                    /\ decision'[job'[k].id].verdict = job'[k].verdict
    <3>1. CASE job'[k] = job[k] /\ pc'[k] = pc[k]
      BY <2>1, <2>2, <3>1 DEF IInv, Purposes, ExceedsThreshold
    <3>2. CASE k = h /\ pc'[h] = "idle" /\ job'[h] = NoJob
      BY <1>14, <3>2
    <3>3. CASE k = h /\ pc'[h] = "close" /\ job'[h] = job[h] /\ job[h].kind = "approve"
      <4>1. i[2] \in 2 .. approval'[r].attempt
        <5>1. approval[r].attempt \in 1 .. MaxAttempt BY <1>2, <1>7
        <5>2. QED BY <1>2, <1>6, <1>11, <3>3, <5>1
      <4>2. QED BY <1>9, <2>1, <3>3, <4>1 DEF IInv, Purposes, i, r, v
    <3>4. QED BY <1>12, <1>13, <3>1, <3>2, <3>3
  <2>4. QED BY <2>3 DEF Purposes, ExceedsThreshold
<1>22. AnswersMatchTheLog'
  <2>1. ASSUME NEW k \in Handlers, answer'[k] = answer[k], answer[k].verdict \in Verdicts
        PROVE  decision'[answer[k].id].verdict = answer[k].verdict
    <3>1. decision[answer[k].id].verdict = answer[k].verdict
      BY <2>1 DEF IInv, AnswersMatchTheLog
    <3>2. answer[k].id # i
      BY <1>3, <2>1, <3>1 DEF Recorded, Verdicts
    <3>3. decision'[answer[k].id] = decision[answer[k].id]
      BY <1>3, <1>7, <3>2
    <3>4. QED BY <3>1, <3>3
  <2>2. ASSUME NEW k \in Handlers, answer'[k].verdict \in Verdicts
        PROVE  decision'[answer'[k].id].verdict = answer'[k].verdict
    BY <1>9, <1>12, <1>13, <2>1, <2>2
  <2>3. QED BY <2>2 DEF AnswersMatchTheLog
<1>23. AuthorizationsAreDecided'
  BY <1>2, <1>9, <1>10 DEF IInv, AuthorizationsAreDecided
<1>24. SingleUse'
  BY <1>2, <1>3, <1>10 DEF IInv, SingleUse
<1>25. ApprovedHasAuthorization'
  <2>1. ASSUME NEW q \in Requests, approval'[q].status = "APPROVED"
        PROVE  /\ approval'[q].auth \in 2 .. approval'[q].attempt
               /\ decision'[<<q, approval'[q].auth>>].verdict = "ALLOW"
    <3>1. approval[q].status = "APPROVED" /\ approval'[q].auth = approval[q].auth
      BY <1>11, <2>1
    <3>2. approval[q].auth \in 2 .. approval[q].attempt
          /\ decision[<<q, approval[q].auth>>].verdict = "ALLOW"
      BY <3>1 DEF IInv, ApprovedHasAuthorization
    <3>3. <<q, approval[q].auth>> # i
      BY <1>3, <3>2 DEF Recorded
    <3>4. decision'[<<q, approval[q].auth>>] = decision[<<q, approval[q].auth>>]
      BY <1>3, <1>7, <3>3
    <3>5. approval'[q].attempt \in Nat /\ approval[q].attempt \in Nat
          /\ approval'[q].attempt >= approval[q].attempt
      <4>1. \A s \in Requests : approval[s].attempt \in Nat BY <1>7
      <4>2. QED BY <1>2, <1>11, <4>1
    <3>6. QED BY <3>1, <3>2, <3>4, <3>5
  <2>2. QED BY <2>1 DEF ApprovedHasAuthorization
<1>26. QED
  BY <1>15, <1>16, <1>17, <1>18, <1>19, <1>20, <1>21, <1>22, <1>23, <1>24, <1>25 DEF IInv
-----------------------------------------------------------------------------
(* The 15 minutes of a row pass, or the operators open or close a gate: no *)
(* handler moves.                                                          *)
LEMMA EnvironmentStep ==
  ASSUME IInv, Environment
  PROVE  IInv'
<1> USE DEF dbVars, lockVars
<1>1. JobType /\ PcType BY LocalTypes
<1>2. /\ approval \in [Requests -> [status : {"none", "PENDING", "APPROVED", "DENIED", "EXPIRED"},
                                attempt : 1 .. MaxAttempt, lapsed : BOOLEAN, auth : 0 .. MaxAttempt]]
      /\ auth \in [Ids -> [status : {"none", "ISSUED", "CONSUMED", "EXPIRED"}, lapsed : BOOLEAN]]
      /\ open \in [Gates -> BOOLEAN]
  BY DEF IInv, TypeOK
<1>3. ASSUME NEW g \in Gates, CloseGate(g)
      PROVE  IInv'
  <2>1. /\ open' = [open EXCEPT ![g] = FALSE]
        /\ UNCHANGED <<dbVars, lockVars, remaining, pc, job, answer>>
    BY <1>3 DEF CloseGate
  <2>2. TypeOK'
    BY <1>2, <2>1 DEF IInv, TypeOK
  <2>3. Blocking'
    <3>1. \A k \in Gates : ~open[k] => ~open'[k] BY <1>2, <2>1
    <3>2. \A h \in Handlers : job[h].blocked \subseteq Gates BY <1>1 DEF JobType
    <3>3. QED BY <2>1, <3>1, <3>2 DEF IInv, Blocking
  <2>4. Phases' /\ Locks' /\ Lateness' /\ Rows' /\ Purposes'
    BY <2>1 DEF IInv, Phases, Locks, Lateness, Rows, Purposes, Recorded, ExceedsThreshold
  <2>5. AnswersMatchTheLog' /\ AuthorizationsAreDecided' /\ SingleUse' /\ ApprovedHasAuthorization'
    BY <2>1 DEF IInv, AnswersMatchTheLog, AuthorizationsAreDecided, SingleUse, ApprovedHasAuthorization
  <2>6. QED BY <2>2, <2>3, <2>4, <2>5 DEF IInv
<1>4. ASSUME NEW g \in Gates, OpenGate(g)
      PROVE  IInv'
  <2>1. /\ open' = [open EXCEPT ![g] = TRUE]
        /\ job' = [h \in Handlers |-> [job[h] EXCEPT !.blocked = @ \ {g}]]
        /\ UNCHANGED <<dbVars, lockVars, remaining, pc, answer>>
    BY <1>4 DEF OpenGate
  <2>2. \A h \in Handlers :
          /\ job'[h].kind = job[h].kind /\ job'[h].id = job[h].id
          /\ job'[h].payload = job[h].payload /\ job'[h].verdict = job[h].verdict
          /\ job'[h].late = job[h].late /\ job'[h].blocked = job[h].blocked \ {g}
          /\ (job[h].blocked = {} => job'[h] = job[h])
    BY <1>1, <2>1 DEF JobType
  <2>3. JobType'
    BY <1>1, <2>1 DEF JobType
  <2>4. TypeOK'
    BY <1>2, <2>1, <2>3 DEF IInv, TypeOK, JobType
  <2>5. Phases'
    <3>1. NoJob.blocked = {} BY DEF NoJob
    <3>2. \A h \in Handlers : job[h].kind = "none" => job'[h] = NoJob
      BY <2>2, <3>1 DEF IInv, Phases
    <3>3. \A h \in Handlers : job[h].kind # "none" => job'[h].kind # "none"
      BY <2>2
    <3>4. QED BY <2>1, <2>2, <3>2 DEF IInv, Phases
  <2>6. Locks'
    BY <2>1, <2>2 DEF IInv, Locks
  <2>7. Lateness' /\ Purposes'
    BY <2>1, <2>2 DEF IInv, Lateness, Purposes, ExceedsThreshold
  <2>8. Blocking'
    <3>1. \A k \in Gates \ {g} : open'[k] = open[k] BY <1>2, <2>1
    <3>2. \A h \in Handlers : job[h].blocked \subseteq Gates BY <1>1 DEF JobType
    <3>3. QED BY <2>1, <2>2, <3>1, <3>2 DEF IInv, Blocking
  <2>9. Rows' /\ AnswersMatchTheLog' /\ AuthorizationsAreDecided' /\ SingleUse' /\ ApprovedHasAuthorization'
    BY <2>1 DEF IInv, Rows, Recorded, ExceedsThreshold, AnswersMatchTheLog,
                AuthorizationsAreDecided, SingleUse, ApprovedHasAuthorization
  <2>10. QED BY <2>4, <2>5, <2>6, <2>7, <2>8, <2>9 DEF IInv
<1>5. ASSUME NEW r \in Requests, LapseApproval(r)
      PROVE  IInv'
  <2>1. /\ approval' = [approval EXCEPT ![r].lapsed = TRUE]
        /\ UNCHANGED <<decision, auth, consumed, lockVars, remaining, open, pc, job, answer>>
    BY <1>5 DEF LapseApproval
  <2>2. /\ \A q \in Requests : /\ approval'[q].status = approval[q].status
                               /\ approval'[q].attempt = approval[q].attempt
                               /\ approval'[q].auth = approval[q].auth
                               /\ approval[q].lapsed => approval'[q].lapsed
    BY <1>2, <2>1
  <2>3. TypeOK'
    <3>1. approval' \in [Requests -> [status : {"none", "PENDING", "APPROVED", "DENIED", "EXPIRED"},
                                attempt : 1 .. MaxAttempt, lapsed : BOOLEAN, auth : 0 .. MaxAttempt]]
      BY <1>2, <2>1
    <3>2. QED BY <2>1, <3>1 DEF IInv, TypeOK
  <2>4. \A h \in Handlers : job[h].kind # "none" => job[h].id[1] \in Requests
    BY <1>1 DEF IInv, Phases, Ids, JobType, Evaluating, Gates
  <2>5. \A i \in Ids : i[1] \in Requests
    BY DEF Ids
  <2>6. Locks'
    BY <2>1, <2>2, <2>4 DEF IInv, Locks
  <2>7. Lateness'
    BY <2>1, <2>2, <2>4 DEF IInv, Lateness
  <2>8. Rows'
    BY <2>1, <2>2, <2>5 DEF IInv, Rows, Recorded, ExceedsThreshold
  <2>9. Purposes'
    <3>1. \A h \in Handlers : pc[h] = "close" => job[h].id[1] \in Requests
      BY <2>4 DEF IInv, Phases
    <3>2. QED BY <2>1, <2>2, <2>4, <3>1 DEF IInv, Purposes, ExceedsThreshold
  <2>10. Phases' /\ Blocking' /\ AnswersMatchTheLog' /\ AuthorizationsAreDecided' /\ SingleUse'
    BY <2>1 DEF IInv, Phases, Blocking, AnswersMatchTheLog, AuthorizationsAreDecided, SingleUse
  <2>11. ApprovedHasAuthorization'
    BY <2>1, <2>2 DEF IInv, ApprovedHasAuthorization
  <2>12. QED BY <2>3, <2>6, <2>7, <2>8, <2>9, <2>10, <2>11 DEF IInv
<1>6. ASSUME NEW i \in Ids, LapseAuthorization(i)
      PROVE  IInv'
  <2>1. /\ auth' = [auth EXCEPT ![i].lapsed = TRUE]
        /\ UNCHANGED <<decision, consumed, approval, lockVars, remaining, open, pc, job, answer>>
    BY <1>6 DEF LapseAuthorization
  <2>2. \A k \in Ids : auth'[k].status = auth[k].status /\ (auth[k].lapsed => auth'[k].lapsed)
    BY <1>2, <2>1
  <2>3. TypeOK'
    <3>1. auth' \in [Ids -> [status : {"none", "ISSUED", "CONSUMED", "EXPIRED"}, lapsed : BOOLEAN]]
      BY <1>2, <2>1
    <3>2. QED BY <2>1, <3>1 DEF IInv, TypeOK
  <2>4. \A h \in Handlers : job[h].kind # "none" => job[h].id \in Ids
    BY <1>1 DEF IInv, Phases, JobType, Evaluating, Gates
  <2>5. \A h \in Handlers : pc[h] = "consume" => job[h].id \in Ids
    BY DEF IInv, Phases
  <2>6. Locks'
    BY <2>1, <2>2, <2>5 DEF IInv, Locks
  <2>7. Lateness'
    BY <2>1, <2>2, <2>4 DEF IInv, Lateness
  <2>8. Phases' /\ Blocking' /\ Rows' /\ Purposes'
    BY <2>1 DEF IInv, Phases, Blocking, Rows, Recorded, Purposes, ExceedsThreshold
  <2>9. AnswersMatchTheLog' /\ ApprovedHasAuthorization'
    BY <2>1 DEF IInv, AnswersMatchTheLog, ApprovedHasAuthorization
  <2>10. AuthorizationsAreDecided' /\ SingleUse'
    BY <2>1, <2>2 DEF IInv, AuthorizationsAreDecided, SingleUse
  <2>11. QED BY <2>3, <2>6, <2>7, <2>8, <2>9, <2>10 DEF IInv
<1>7. QED BY <1>3, <1>4, <1>5, <1>6 DEF Environment

-----------------------------------------------------------------------------
(* The outcome of an approval request, or its expiry, is written while the *)
(* row is free: no evaluation under way relies on what the row said.       *)
LEMMA OutcomeStep ==
  ASSUME IInv, NEW h \in Handlers, NEW v \in Answers, NEW r \in Requests,
         NEW s \in {"APPROVED", "DENIED", "EXPIRED"}, NEW a \in 0 .. MaxAttempt,
         Answer(h, v),
         v \in Verdicts => job[h].id \in Ids /\ decision[job[h].id].verdict = v,
         pc[h] \in {"claim", "close"},
         rowLock[r] = NoHandler,
         approval[r].status # "none",
         approval' = [approval EXCEPT ![r].status = s, ![r].auth = a],
         s = "APPROVED" => a \in 2 .. approval[r].attempt /\ decision[<<r, a>>].verdict = "ALLOW",
         UNCHANGED <<decision, auth, consumed, lockVars, remaining, open>>
  PROVE  IInv'
<1> USE DEF lockVars
<1>1. /\ pc'[h] = "idle" /\ job'[h] = NoJob
      /\ \A k \in Handlers \ {h} : pc'[k] = pc[k] /\ job'[k] = job[k]
      /\ answer'[h] = [id |-> job[h].id, verdict |-> v]
      /\ \A k \in Handlers \ {h} : answer'[k] = answer[k]
  BY AnswerLocals
<1>2. JobType' /\ PcType' /\ answer' \in [Handlers -> [id : Ids \cup {NoId}, verdict : Answers]]
  BY AnswerLocals
<1>3. approval \in [Requests -> [status : {"none", "PENDING", "APPROVED", "DENIED", "EXPIRED"},
                                attempt : 1 .. MaxAttempt, lapsed : BOOLEAN, auth : 0 .. MaxAttempt]]
  BY DEF IInv, TypeOK
<1>4. /\ \A q \in Requests : /\ approval'[q].lapsed = approval[q].lapsed
                             /\ approval'[q].attempt = approval[q].attempt
                             /\ approval'[q].status # "none" <=> approval[q].status # "none"
      /\ approval'[r].status = s /\ approval'[r].auth = a
      /\ \A q \in Requests \ {r} : approval'[q] = approval[q]
  BY <1>3
<1>5. /\ NoJob.kind = "none" /\ NoJob.verdict = "none" /\ ~NoJob.late
      /\ "idle" \notin Evaluating /\ pc[h] \notin Evaluating /\ pc[h] # "consume"
  BY DEF NoJob, Evaluating, Gates
<1>6. ASSUME NEW k \in Handlers \ {h}
      PROVE  pc'[k] = pc[k] /\ job'[k] = job[k] /\ answer'[k] = answer[k]
  BY <1>1
<1>7. TypeOK'
  <2>1. approval' \in [Requests -> [status : {"none", "PENDING", "APPROVED", "DENIED", "EXPIRED"},
                                attempt : 1 .. MaxAttempt, lapsed : BOOLEAN, auth : 0 .. MaxAttempt]]
    BY <1>3
  <2>2. QED BY <1>2, <2>1 DEF IInv, TypeOK, JobType, PcType, Answers, Evaluating
<1>8. Phases' /\ Blocking'
  BY AnswerKeepsLocals
<1>9. Locks'
  <2>1. \A q \in Requests : rowLock[q] # h
    BY <1>5 DEF IInv, Locks
  <2>2. \A q \in Ids : authLock[q] # h
    BY <1>5 DEF IInv, Locks
  <2>3. \A k \in Handlers : job[k].kind = "approve" /\ pc[k] \in Evaluating =>
          job[k].id[1] \in Requests \ {r}
    <3>1. \A k \in Handlers : job[k].kind = "approve" => job[k].id[1] \in Requests
      BY LocalTypes DEF IInv, Phases, Ids, JobType, Evaluating, Gates
    <3>2. QED BY <3>1, NamesAssumption DEF IInv, Locks
  <2>4. \A k \in Handlers, q \in Requests :
          rowLock'[q] = k =>
            job'[k].kind = "approve" /\ pc'[k] \in Evaluating /\ job'[k].id[1] = q
    BY <1>6, <2>1 DEF IInv, Locks
  <2>5. \A k \in Handlers, q \in Ids :
          authLock'[q] = k => pc'[k] = "consume" /\ job'[k].id = q
    BY <1>6, <2>2 DEF IInv, Locks
  <2>6. ASSUME NEW k \in Handlers, job'[k].kind = "approve", pc'[k] \in Evaluating
        PROVE  /\ rowLock'[job'[k].id[1]] = k
               /\ approval'[job'[k].id[1]].status = "PENDING"
               /\ job'[k].id[2] = approval'[job'[k].id[1]].attempt + 1
               /\ ~job'[k].late
    <3>1. k # h BY <1>1, <1>5, <2>6
    <3>2. pc[k] \in Evaluating /\ job[k].kind = "approve" /\ job'[k] = job[k]
      BY <1>6, <2>6, <3>1
    <3>3. job[k].id[1] \in Requests \ {r}
      BY <2>3, <3>2
    <3>4. approval'[job[k].id[1]] = approval[job[k].id[1]]
      BY <1>4, <3>3
    <3>5. /\ rowLock[job[k].id[1]] = k
          /\ approval[job[k].id[1]].status = "PENDING"
          /\ job[k].id[2] = approval[job[k].id[1]].attempt + 1
          /\ ~job[k].late
      BY <3>2 DEF IInv, Locks
    <3>6. rowLock' = rowLock
      OBVIOUS
    <3>7. QED BY <3>2, <3>4, <3>5, <3>6
  <2>7. ASSUME NEW k \in Handlers, pc'[k] = "consume"
        PROVE  /\ authLock'[job'[k].id] = k
               /\ auth'[job'[k].id].status = "ISSUED"
               /\ ~job'[k].late
    <3>1. k # h BY <1>1, <2>7
    <3>2. QED BY <1>6, <2>7, <3>1 DEF IInv, Locks
  <2>8. QED BY <2>4, <2>5, <2>6, <2>7 DEF Locks
<1>10. Lateness'
  <2>1. \A k \in Handlers : job[k].kind = "approve" => job[k].id[1] \in Requests
    BY LocalTypes DEF IInv, Phases, Ids, JobType, Evaluating, Gates
  <2>2. \A q \in Requests : approval'[q].lapsed = approval[q].lapsed
    BY <1>4
  <2>3. ASSUME NEW k \in Handlers, job'[k].late
        PROVE  job[k].late /\ job'[k] = job[k]
    BY <1>1, <1>5, <1>6, <2>3
  <2>4. ASSUME NEW k \in Handlers, job'[k].late
        PROVE  /\ job'[k].kind = "approve" => approval'[job'[k].id[1]].lapsed
               /\ job'[k].kind = "verify" => auth'[job'[k].id].lapsed
    BY <2>1, <2>2, <2>3, <2>4 DEF IInv, Lateness
  <2>5. QED BY <2>4 DEF Lateness
<1>11. Rows'
  <2>1. \A q \in Ids : q[1] \in Requests BY DEF Ids
  <2>2. QED BY <1>4, <2>1 DEF IInv, Rows, Recorded, ExceedsThreshold
<1>12. Purposes'
  <2>1. \A k \in Handlers : job[k].kind # "none" => job[k].id[1] \in Requests
    BY LocalTypes DEF IInv, Phases, Ids, JobType, Evaluating, Gates
  <2>2. \A k \in Handlers : pc[k] = "close" => job[k].kind # "none"
    BY DEF IInv, Phases
  <2>3. ASSUME NEW k \in Handlers
        PROVE  /\ job'[k].kind \in {"approve", "deny"} =>
                    /\ approval'[job'[k].id[1]].status # "none"
                    /\ job'[k].payload = decision'[<<job'[k].id[1], 1>>].payload
               /\ job'[k].kind = "authorize" /\ (pc'[k] = "budget" \/ job'[k].verdict = "ALLOW") =>
                    ~(Amount[job'[k].payload] > Threshold)
               /\ pc'[k] = "close" =>
                    /\ job'[k].id[2] \in 2 .. approval'[job'[k].id[1]].attempt
                    /\ decision'[job'[k].id].verdict = job'[k].verdict
    <3>1. CASE k = h BY <1>1, <1>5, <3>1
    <3>2. CASE k # h
      <4>1. pc'[k] = pc[k] /\ job'[k] = job[k] BY <1>6, <3>2
      <4>2. \A q \in Requests : /\ approval'[q].attempt = approval[q].attempt
                                /\ approval[q].status # "none" => approval'[q].status # "none"
        BY <1>4
      <4>3. decision' = decision
        OBVIOUS
      <4>4. job[k].kind \in {"approve", "deny"} =>
              /\ approval[job[k].id[1]].status # "none"
              /\ job[k].payload = decision[<<job[k].id[1], 1>>].payload
        BY DEF IInv, Purposes
      <4>5. job[k].kind = "authorize" /\ (pc[k] = "budget" \/ job[k].verdict = "ALLOW") =>
              ~(Amount[job[k].payload] > Threshold)
        BY DEF IInv, Purposes, ExceedsThreshold
      <4>6. pc[k] = "close" =>
              /\ job[k].id[1] \in Requests
              /\ job[k].id[2] \in 2 .. approval[job[k].id[1]].attempt
              /\ decision[job[k].id].verdict = job[k].verdict
        BY <2>1, <2>2 DEF IInv, Purposes
      <4>7. QED BY <2>1, <4>1, <4>2, <4>3, <4>4, <4>5, <4>6
    <3>3. QED BY <3>1, <3>2
  <2>4. QED BY <2>3 DEF Purposes, ExceedsThreshold
<1>13. AnswersMatchTheLog'
  BY <1>1, <1>6 DEF IInv, AnswersMatchTheLog
<1>14. AuthorizationsAreDecided' /\ SingleUse'
  BY DEF IInv, AuthorizationsAreDecided, SingleUse
<1>15. ApprovedHasAuthorization'
  BY <1>4 DEF IInv, ApprovedHasAuthorization
<1>16. QED BY <1>7, <1>8, <1>9, <1>10, <1>11, <1>12, <1>13, <1>14, <1>15 DEF IInv
LEMMA ApprovalOutcomeStep ==
  ASSUME IInv, NEW h \in Handlers, ExpireApproval(h) \/ CloseApproval(h)
  PROVE  IInv'
<1> DEFINE r == job[h].id[1]
<1>1. /\ approval \in [Requests -> [status : {"none", "PENDING", "APPROVED", "DENIED", "EXPIRED"},
                                attempt : 1 .. MaxAttempt, lapsed : BOOLEAN, auth : 0 .. MaxAttempt]]
  BY DEF IInv, TypeOK
<1>2. pc[h] \in {"claim", "close"} /\ job[h].kind = "approve" /\ r \in Requests /\ rowLock[r] = NoHandler
  BY LocalTypes DEF ExpireApproval, CloseApproval, RowFree, Claimed, IInv, Phases, Ids, JobType,
                    Evaluating, Gates
<1>3. approval[r].status # "none" /\ approval[r].auth \in 0 .. MaxAttempt
  BY <1>1, <1>2 DEF IInv, Purposes
<1>4. CASE ExpireApproval(h)
  <2>1. approval' = [approval EXCEPT ![r].status = "EXPIRED", ![r].auth = approval[r].auth]
    BY <1>1, <1>2, <1>4 DEF ExpireApproval, Claimed
  <2>2. QED BY <1>2, <1>3, <1>4, <2>1, OutcomeStep DEF ExpireApproval, Answers, Verdicts
<1>5. CASE CloseApproval(h)
  <2>1. /\ pc[h] = "close" /\ job[h].id \in Ids /\ job[h].id = <<r, job[h].id[2]>>
        /\ job[h].id[2] \in 1 .. MaxAttempt
    BY <1>5 DEF CloseApproval, IInv, Phases, Ids
  <2>2. /\ job[h].id[2] \in 2 .. approval[r].attempt
        /\ decision[job[h].id].verdict = job[h].verdict
        /\ job[h].verdict \in {"ALLOW", "DENY"}
    BY <1>2, <2>1 DEF IInv, Purposes, Phases, Verdicts
  <2>3. CASE job[h].verdict = "DENY"
    <3>1. approval' = [approval EXCEPT ![r].status = "DENIED", ![r].auth = approval[r].auth]
      BY <1>1, <1>2, <1>5, <2>3 DEF CloseApproval, Claimed
    <3>2. QED BY <1>2, <1>3, <1>5, <2>3, <3>1, OutcomeStep DEF CloseApproval, Answers, Verdicts
  <2>4. CASE job[h].verdict = "ALLOW"
    <3>1. approval' = [approval EXCEPT ![r].status = "APPROVED", ![r].auth = job[h].id[2]]
      BY <1>5, <2>4 DEF CloseApproval, Claimed
    <3>2. decision[<<r, job[h].id[2]>>].verdict = "ALLOW"
      BY <2>1, <2>2, <2>4
    <3>3. job[h].id[2] \in 0 .. MaxAttempt
      BY <2>1
    <3>4. Answer(h, "ALLOW") /\ UNCHANGED <<decision, auth, consumed, lockVars, remaining, open>>
      BY <1>5, <2>4 DEF CloseApproval
    <3>5. QED BY <1>2, <1>3, <2>1, <2>2, <2>4, <3>1, <3>2, <3>3, <3>4, OutcomeStep DEF Answers, Verdicts
  <2>5. QED BY <2>2, <2>3, <2>4
<1>6. QED BY <1>4, <1>5

(* The request_id of the denied request has its PENDING_APPROVAL event, so *)
(* the event of the denial always meets the unique index.                  *)
LEMMA DenialStep ==
  ASSUME IInv, NEW h \in Handlers, DenyRequest(h)
  PROVE  IInv' /\ approval' = approval
<1>1. job[h].kind = "deny" /\ pc[h] = "claim" /\ job[h].id \in Ids /\ job[h].id[2] = 1
  BY DEF DenyRequest, IInv, Phases
<1>2. job[h].id = <<job[h].id[1], 1>> /\ job[h].id[1] \in Requests
  BY <1>1 DEF Ids
<1>3. Recorded(job[h].id)
  BY <1>1, <1>2 DEF IInv, Purposes, Rows, Recorded
<1>4. Answer(h, "500") /\ UNCHANGED <<dbVars, lockVars, remaining, open>>
  BY <1>3 DEF DenyRequest, dbVars
<1>5. "claim" \notin Evaluating \cup {"consume"} /\ "500" \in Answers \ Verdicts
  BY DEF Evaluating, Gates, Answers, Verdicts
<1>6. IInv'
  BY <1>1, <1>4, <1>5, GiveUpStep
<1>7. QED BY <1>4, <1>6 DEF dbVars

(* The row is locked and the attempt numbered from it.                     *)
LEMMA ClaimApprovalStep ==
  ASSUME IInv, NEW h \in Handlers, ClaimToApprove(h)
  PROVE  IInv'
<1> DEFINE r == job[h].id[1]
           n == approval[r].attempt + 1
<1>1. JobType /\ PcType BY LocalTypes
<1>2. /\ pc[h] = "claim" /\ job[h].kind = "approve" /\ r \in Requests
      /\ rowLock[r] = NoHandler /\ approval[r].status = "PENDING" /\ ~approval[r].lapsed
      /\ approval[r].attempt < MaxAttempt
      /\ rowLock' = [rowLock EXCEPT ![r] = h]
      /\ job' = [job EXCEPT ![h].id = <<r, n>>]
      /\ pc' = [pc EXCEPT ![h] = "idempotency"]
      /\ decision' = decision /\ auth' = auth /\ consumed' = consumed /\ approval' = approval
      /\ authLock' = authLock /\ remaining' = remaining /\ open' = open /\ answer' = answer
  BY <1>1 DEF ClaimToApprove, RowFree, Claimed, Goto, dbVars, IInv, Phases, Ids, JobType
<1>3. approval[r].attempt \in 1 .. MaxAttempt
  BY <1>2 DEF IInv, TypeOK
<1>4. <<r, n>> \in Ids /\ n # 1
  BY <1>2, <1>3, AttemptAssumption DEF Ids
<1>5. /\ pc'[h] = "idempotency" /\ job'[h].id = <<r, n>>
      /\ job'[h].kind = "approve" /\ job'[h].payload = job[h].payload
      /\ job'[h].verdict = job[h].verdict /\ job'[h].late = job[h].late
      /\ job'[h].blocked = job[h].blocked
  BY <1>1, <1>2 DEF JobType, PcType
<1>6. \A k \in Handlers \ {h} : pc'[k] = pc[k] /\ job'[k] = job[k]
  BY <1>1, <1>2 DEF JobType, PcType
<1>7. /\ job[h].verdict = "none" /\ ~job[h].late
      /\ job[h].payload = decision[<<r, 1>>].payload /\ <<r, 1>> \in Ids
      /\ job[h].payload \in Payloads
  <2>1. job[h].verdict = "none" /\ ~job[h].late
    BY <1>1, <1>2 DEF IInv, Phases, Lateness, JobType
  <2>2. job[h].payload = decision[<<r, 1>>].payload
    BY <1>2 DEF IInv, Purposes
  <2>3. <<r, 1>> \in Ids
    BY <1>2, AttemptAssumption DEF Ids
  <2>4. Recorded(<<r, 1>>)
    BY <1>2, <2>3 DEF IInv, Rows, Recorded
  <2>5. QED BY <2>1, <2>2, <2>3, <2>4 DEF IInv, Rows
<1>8. rowLock \in [Requests -> Handlers \cup {NoHandler}]
  BY DEF IInv, TypeOK
<1>9. /\ rowLock'[r] = h /\ \A q \in Requests \ {r} : rowLock'[q] = rowLock[q]
      /\ \A q \in Requests : rowLock[q] # h
  BY <1>2, <1>8 DEF IInv, Locks, Evaluating, Gates
<1>10. TypeOK'
  <2>1. JobType'
    BY <1>1, <1>2, <1>4 DEF JobType
  <2>2. PcType'
    BY <1>1, <1>2 DEF PcType, Evaluating
  <2>3. rowLock' \in [Requests -> Handlers \cup {NoHandler}]
    BY <1>2, <1>8
  <2>4. QED BY <1>2, <2>1, <2>2, <2>3 DEF IInv, TypeOK, JobType, PcType, Evaluating
<1> HIDE DEF r, n
<1>11. "idempotency" \in Evaluating
       /\ "idempotency" \notin {"idle", "record", "close", "agent", "policy", "budget", "consume"}
  BY DEF Evaluating
<1>12. Phases'
  <2>1. job'[h].kind # "none" /\ job'[h].id \in Ids
    BY <1>4, <1>5
  <2>2. ASSUME NEW k \in Handlers \ {h}
        PROVE  pc'[k] = pc[k] /\ job'[k] = job[k]
    BY <1>6
  <2>3. QED BY <1>5, <1>7, <1>11, <2>1, <2>2 DEF IInv, Phases
<1>13. Locks'
  <2>1. \A k \in Handlers, q \in Requests :
          rowLock'[q] = k =>
            job'[k].kind = "approve" /\ pc'[k] \in Evaluating /\ job'[k].id[1] = q
    <3>1. SUFFICES ASSUME NEW k \in Handlers, NEW q \in Requests, rowLock'[q] = k
                   PROVE  job'[k].kind = "approve" /\ pc'[k] \in Evaluating /\ job'[k].id[1] = q
      OBVIOUS
    <3>2. CASE q = r
      <4>1. k = h BY <1>9, <3>1, <3>2
      <4>2. QED BY <1>5, <1>11, <3>2, <4>1
    <3>3. CASE q # r
      <4>1. rowLock[q] = k /\ k # h BY <1>9, <3>1, <3>3
      <4>2. QED BY <1>6, <4>1 DEF IInv, Locks
    <3>4. QED BY <3>2, <3>3
  <2>2. \A k \in Handlers, q \in Ids :
          authLock'[q] = k => pc'[k] = "consume" /\ job'[k].id = q
    <3>1. \A q \in Ids : authLock[q] # h
      BY <1>2 DEF IInv, Locks
    <3>2. QED BY <1>2, <1>6, <3>1 DEF IInv, Locks
  <2>3. ASSUME NEW k \in Handlers, job'[k].kind = "approve", pc'[k] \in Evaluating
        PROVE  /\ rowLock'[job'[k].id[1]] = k
               /\ approval'[job'[k].id[1]].status = "PENDING"
               /\ job'[k].id[2] = approval'[job'[k].id[1]].attempt + 1
               /\ ~job'[k].late
    <3>1. CASE k = h
      BY <1>2, <1>5, <1>7, <1>9, <3>1 DEF n
    <3>2. CASE k # h
      <4>1. /\ pc'[k] = pc[k] /\ job'[k] = job[k] /\ rowLock[job[k].id[1]] = k
            /\ approval[job[k].id[1]].status = "PENDING"
            /\ job[k].id[2] = approval[job[k].id[1]].attempt + 1
            /\ ~job[k].late
        BY <1>6, <2>3, <3>2 DEF IInv, Locks
      <4>2. job[k].id[1] \in Requests
        BY <1>6, <2>3, <3>2 DEF IInv, Phases, Ids, Evaluating, Gates
      <4>3. job[k].id[1] # r
        BY <1>2, <4>1, NamesAssumption
      <4>4. QED BY <1>2, <1>9, <4>1, <4>2, <4>3
    <3>3. QED BY <3>1, <3>2
  <2>4. ASSUME NEW k \in Handlers, pc'[k] = "consume"
        PROVE  /\ authLock'[job'[k].id] = k
               /\ auth'[job'[k].id].status = "ISSUED"
               /\ ~job'[k].late
    <3>1. k # h BY <1>5, <2>4
    <3>2. QED BY <1>2, <1>6, <2>4, <3>1 DEF IInv, Locks
  <2>5. QED BY <2>1, <2>2, <2>3, <2>4 DEF Locks
<1>14. Lateness'
  BY <1>2, <1>5, <1>6, <1>7 DEF IInv, Lateness
<1>15. Blocking'
  BY <1>2, <1>5, <1>6, <1>11 DEF IInv, Blocking
<1>16. Purposes'
  <2>1. ASSUME NEW k \in Handlers
        PROVE  /\ job'[k].kind \in {"approve", "deny"} =>
                    /\ approval'[job'[k].id[1]].status # "none"
                    /\ job'[k].payload = decision'[<<job'[k].id[1], 1>>].payload
               /\ job'[k].kind = "authorize" /\ (pc'[k] = "budget" \/ job'[k].verdict = "ALLOW") =>
                    ~(Amount[job'[k].payload] > Threshold)
               /\ pc'[k] = "close" =>
                    /\ job'[k].id[2] \in 2 .. approval'[job'[k].id[1]].attempt
                    /\ decision'[job'[k].id].verdict = job'[k].verdict
    <3>1. CASE k = h
      BY <1>2, <1>5, <1>7, <3>1
    <3>2. CASE k # h
      BY <1>2, <1>6, <3>2 DEF IInv, Purposes, ExceedsThreshold
    <3>3. QED BY <3>1, <3>2
  <2>2. QED BY <2>1 DEF Purposes, ExceedsThreshold
<1>17. Rows' /\ AnswersMatchTheLog' /\ AuthorizationsAreDecided' /\ SingleUse' /\ ApprovedHasAuthorization'
  BY <1>2 DEF IInv, Rows, Recorded, ExceedsThreshold, AnswersMatchTheLog, AuthorizationsAreDecided,
              SingleUse, ApprovedHasAuthorization
<1>18. QED BY <1>10, <1>12, <1>13, <1>14, <1>15, <1>16, <1>17 DEF IInv
-----------------------------------------------------------------------------
(* verify_authorization takes the lock of an ISSUED row in time.           *)
LEMMA ClaimAuthorizationStep ==
  ASSUME IInv, NEW h \in Handlers, ClaimAuthorization(h)
  PROVE  IInv'
<1> DEFINE i == job[h].id
<1>1. JobType /\ PcType BY LocalTypes
<1>2. /\ pc[h] = "verify" /\ i \in Ids /\ authLock[i] = NoHandler
      /\ auth[i].status = "ISSUED" /\ ~auth[i].lapsed
      /\ authLock' = [authLock EXCEPT ![i] = h] /\ pc' = [pc EXCEPT ![h] = "consume"]
      /\ decision' = decision /\ auth' = auth /\ consumed' = consumed /\ approval' = approval
      /\ rowLock' = rowLock /\ remaining' = remaining /\ open' = open
      /\ job' = job /\ answer' = answer
  BY DEF ClaimAuthorization, AuthFree, Goto, dbVars, IInv, Phases
<1>3. pc'[h] = "consume" /\ \A k \in Handlers \ {h} : pc'[k] = pc[k]
  BY <1>1, <1>2 DEF PcType
<1>4. job[h].kind = "verify" /\ job[h].verdict = "none" /\ ~job[h].late
  <2>1. job[h].kind = "verify"
    BY <1>1, <1>2 DEF IInv, Phases, JobType, Evaluating, Gates
  <2>2. QED BY <1>1, <1>2, <2>1 DEF IInv, Phases, Lateness, JobType
<1>5. "consume" \notin Evaluating /\ "verify" \notin Evaluating
  BY DEF Evaluating, Gates
<1>6. TypeOK'
  <2>1. PcType' BY <1>1, <1>2 DEF PcType
  <2>2. authLock' \in [Ids -> Handlers \cup {NoHandler}]
    BY <1>2 DEF IInv, TypeOK
  <2>3. QED BY <1>1, <1>2, <2>1, <2>2 DEF IInv, TypeOK, PcType, Evaluating
<1>7. Phases'
  <2>1. ASSUME NEW k \in Handlers \ {h}
        PROVE  pc'[k] = pc[k]
    BY <1>3
  <2>2. QED BY <1>2, <1>3, <1>4, <1>5, <2>1 DEF IInv, Phases
<1>8. Locks'
  <2>1. authLock \in [Ids -> Handlers \cup {NoHandler}]
    BY DEF IInv, TypeOK
  <2>2. /\ authLock'[i] = h /\ \A q \in Ids \ {i} : authLock'[q] = authLock[q]
        /\ \A q \in Ids : authLock[q] # h
    BY <1>2, <2>1 DEF IInv, Locks
  <2>3. \A k \in Handlers, q \in Requests :
          rowLock'[q] = k =>
            job'[k].kind = "approve" /\ pc'[k] \in Evaluating /\ job'[k].id[1] = q
    BY <1>2, <1>3, <1>5 DEF IInv, Locks
  <2>4. \A k \in Handlers :
          job'[k].kind = "approve" /\ pc'[k] \in Evaluating =>
            /\ rowLock'[job'[k].id[1]] = k
            /\ approval'[job'[k].id[1]].status = "PENDING"
            /\ job'[k].id[2] = approval'[job'[k].id[1]].attempt + 1
            /\ ~job'[k].late
    BY <1>2, <1>3, <1>5 DEF IInv, Locks
  <2>5. ASSUME NEW k \in Handlers, NEW q \in Ids, authLock'[q] = k
        PROVE  pc'[k] = "consume" /\ job'[k].id = q
    <3>1. CASE q = i BY <1>2, <1>3, <2>2, <2>5, <3>1
    <3>2. CASE q # i BY <1>2, <1>3, <2>2, <2>5, <3>2 DEF IInv, Locks
    <3>3. QED BY <3>1, <3>2
  <2>6. ASSUME NEW k \in Handlers, pc'[k] = "consume"
        PROVE  authLock'[job'[k].id] = k /\ auth'[job'[k].id].status = "ISSUED" /\ ~job'[k].late
    <3>1. CASE k = h BY <1>2, <1>4, <2>2, <3>1
    <3>2. CASE k # h
      <4>1. /\ pc[k] = "consume" /\ authLock[job[k].id] = k /\ job[k].id \in Ids
            /\ auth[job[k].id].status = "ISSUED" /\ ~job[k].late
        BY <1>3, <2>6, <3>2 DEF IInv, Locks, Phases
      <4>2. job[k].id # i
        BY <1>2, <4>1, NamesAssumption
      <4>3. QED BY <1>2, <2>2, <4>1, <4>2
    <3>3. QED BY <3>1, <3>2
  <2>7. QED BY <2>3, <2>4, <2>5, <2>6 DEF Locks
<1>9. Blocking'
  BY <1>2, <1>3 DEF IInv, Blocking
<1>10. Purposes'
  BY <1>2, <1>3 DEF IInv, Purposes, ExceedsThreshold
<1>11. Lateness' /\ Rows'
  BY <1>2 DEF IInv, Lateness, Rows, Recorded, ExceedsThreshold
<1>12. AnswersMatchTheLog' /\ AuthorizationsAreDecided' /\ SingleUse' /\ ApprovedHasAuthorization'
  BY <1>2 DEF IInv, AnswersMatchTheLog, AuthorizationsAreDecided, SingleUse, ApprovedHasAuthorization
<1>13. QED BY <1>6, <1>7, <1>8, <1>9, <1>10, <1>11, <1>12 DEF IInv

(* The authorization of h is consumed under its lock, or expires while it  *)
(* is free: nobody else is about to consume it.                            *)
LEMMA SpentStep ==
  ASSUME IInv, NEW h \in Handlers, ExpireAuthorization(h) \/ ConsumeAuthorization(h)
  PROVE  IInv'
<1> DEFINE i == job[h].id
<1>1. /\ pc[h] \in {"verify", "consume"} /\ i \in Ids
      /\ decision' = decision /\ approval' = approval /\ remaining' = remaining /\ open' = open
      /\ Answer(h, "403") \/ Answer(h, "VERIFIED")
      /\ (pc[h] = "verify" /\ UNCHANGED lockVars) \/ (pc[h] = "consume" /\ Unlock(h))
      /\ auth[i].status = "ISSUED"
  BY DEF ExpireAuthorization, ConsumeAuthorization, IInv, Phases, Locks
<1>2. PICK v \in {"403", "VERIFIED"} : Answer(h, v)
  BY <1>1
<1>3. v \in Answers /\ v \notin Verdicts
  BY DEF Answers, Verdicts
<1>4. /\ pc'[h] = "idle" /\ job'[h] = NoJob
      /\ \A k \in Handlers \ {h} : pc'[k] = pc[k] /\ job'[k] = job[k]
      /\ answer'[h] = [id |-> job[h].id, verdict |-> v]
      /\ \A k \in Handlers \ {h} : answer'[k] = answer[k]
      /\ JobType' /\ PcType'
      /\ answer' \in [Handlers -> [id : Ids \cup {NoId}, verdict : Answers]]
  BY <1>2, <1>3, AnswerLocals
<1>5. /\ auth \in [Ids -> [status : {"none", "ISSUED", "CONSUMED", "EXPIRED"}, lapsed : BOOLEAN]]
      /\ consumed \in [Ids -> Nat]
      /\ rowLock \in [Requests -> Handlers \cup {NoHandler}]
      /\ authLock \in [Ids -> Handlers \cup {NoHandler}]
  BY DEF IInv, TypeOK
<1>6. \/ auth' = [auth EXCEPT ![i].status = "EXPIRED"] /\ consumed' = consumed
      \/ auth' = [auth EXCEPT ![i].status = "CONSUMED"] /\ consumed' = [consumed EXCEPT ![i] = @ + 1]
      \/ auth' = auth /\ consumed' = consumed
  BY DEF ExpireAuthorization, ConsumeAuthorization
<1>7. /\ \A q \in Ids \ {i} : auth'[q] = auth[q] /\ consumed'[q] = consumed[q]
      /\ \A q \in Ids : auth'[q].lapsed = auth[q].lapsed
      /\ auth'[i].status # "none"
      /\ auth' \in [Ids -> [status : {"none", "ISSUED", "CONSUMED", "EXPIRED"}, lapsed : BOOLEAN]]
      /\ consumed' \in [Ids -> Nat]
  BY <1>1, <1>5, <1>6
<1>8. /\ rowLock' \in [Requests -> Handlers \cup {NoHandler}]
      /\ authLock' \in [Ids -> Handlers \cup {NoHandler}]
      /\ \A q \in Requests : rowLock'[q] # h
      /\ \A q \in Requests : \A k \in Handlers \ {h} : rowLock'[q] = k <=> rowLock[q] = k
      /\ \A q \in Ids : authLock'[q] # h
      /\ \A q \in Ids : \A k \in Handlers \ {h} : authLock'[q] = k <=> authLock[q] = k
  <2>1. CASE pc[h] = "verify" /\ UNCHANGED lockVars
    <3>1. rowLock' = rowLock /\ authLock' = authLock BY <2>1 DEF lockVars
    <3>2. "verify" \notin Evaluating BY DEF Evaluating, Gates
    <3>3. QED BY <1>5, <2>1, <3>1, <3>2 DEF IInv, Locks
  <2>2. CASE Unlock(h)
    BY <2>2, UnlockEffect
  <2>3. QED BY <1>1, <2>1, <2>2
<1>9. ASSUME NEW k \in Handlers \ {h}, pc[k] = "consume"
      PROVE  job[k].id \in Ids \ {i}
  <2>1. job[k].id \in Ids /\ authLock[job[k].id] = k
    BY <1>9 DEF IInv, Locks, Phases
  <2>2. authLock[i] = NoHandler \/ authLock[i] = h
    BY DEF ExpireAuthorization, AuthFree, ConsumeAuthorization, IInv, Locks
  <2>3. QED BY <2>1, <2>2, NamesAssumption
<1>10. /\ NoJob.kind = "none" /\ NoJob.verdict = "none" /\ ~NoJob.late
       /\ "idle" \notin Evaluating
  BY DEF NoJob, Evaluating, Gates
<1> HIDE DEF i
<1>11. TypeOK'
  BY <1>1, <1>4, <1>7, <1>8 DEF IInv, TypeOK, JobType, PcType, Answers, Evaluating
<1>12. Phases' /\ Blocking'
  BY <1>1, <1>2, <1>3, AnswerKeepsLocals
<1>13. Locks'
  <2>1. \A k \in Handlers, q \in Requests :
          rowLock'[q] = k =>
            job'[k].kind = "approve" /\ pc'[k] \in Evaluating /\ job'[k].id[1] = q
    BY <1>4, <1>8 DEF IInv, Locks
  <2>2. \A k \in Handlers, q \in Ids :
          authLock'[q] = k => pc'[k] = "consume" /\ job'[k].id = q
    BY <1>4, <1>8 DEF IInv, Locks
  <2>3. ASSUME NEW k \in Handlers, job'[k].kind = "approve", pc'[k] \in Evaluating
        PROVE  /\ rowLock'[job'[k].id[1]] = k
               /\ approval'[job'[k].id[1]].status = "PENDING"
               /\ job'[k].id[2] = approval'[job'[k].id[1]].attempt + 1
               /\ ~job'[k].late
    <3>1. k # h BY <1>4, <1>10, <2>3
    <3>2. /\ pc[k] \in Evaluating /\ job[k].kind = "approve" /\ job'[k] = job[k]
      BY <1>4, <2>3, <3>1
    <3>3. job[k].id[1] \in Requests
      BY <3>2 DEF IInv, Phases, Ids, Evaluating, Gates
    <3>4. QED BY <1>1, <1>8, <3>1, <3>2, <3>3 DEF IInv, Locks
  <2>4. ASSUME NEW k \in Handlers, pc'[k] = "consume"
        PROVE  authLock'[job'[k].id] = k /\ auth'[job'[k].id].status = "ISSUED" /\ ~job'[k].late
    <3>1. k # h BY <1>4, <2>4
    <3>2. pc[k] = "consume" /\ job'[k] = job[k] BY <1>4, <2>4, <3>1
    <3>3. job[k].id \in Ids \ {i} BY <1>9, <3>1, <3>2
    <3>4. QED BY <1>7, <1>8, <3>1, <3>2, <3>3 DEF IInv, Locks
  <2>5. QED BY <2>1, <2>2, <2>3, <2>4 DEF Locks
<1>14. Lateness'
  <2>1. \A k \in Handlers : job[k].kind = "verify" => job[k].id \in Ids
    BY DEF IInv, Phases
  <2>2. ASSUME NEW k \in Handlers, job'[k].late
        PROVE  /\ job'[k].kind = "approve" => approval'[job'[k].id[1]].lapsed
               /\ job'[k].kind = "verify" => auth'[job'[k].id].lapsed
    <3>1. k # h BY <1>4, <1>10, <2>2
    <3>2. QED BY <1>1, <1>4, <1>7, <2>1, <2>2, <3>1 DEF IInv, Lateness
  <2>3. QED BY <2>2 DEF Lateness
<1>15. Rows' /\ ApprovedHasAuthorization'
  BY <1>1 DEF IInv, Rows, Recorded, ExceedsThreshold, ApprovedHasAuthorization
<1>16. Purposes'
  <2>1. ASSUME NEW k \in Handlers
        PROVE  /\ job'[k].kind \in {"approve", "deny"} =>
                    /\ approval'[job'[k].id[1]].status # "none"
                    /\ job'[k].payload = decision'[<<job'[k].id[1], 1>>].payload
               /\ job'[k].kind = "authorize" /\ (pc'[k] = "budget" \/ job'[k].verdict = "ALLOW") =>
                    ~(Amount[job'[k].payload] > Threshold)
               /\ pc'[k] = "close" =>
                    /\ job'[k].id[2] \in 2 .. approval'[job'[k].id[1]].attempt
                    /\ decision'[job'[k].id].verdict = job'[k].verdict
    <3>1. CASE k = h BY <1>4, <1>10, <3>1
    <3>2. CASE k # h BY <1>1, <1>4, <3>2 DEF IInv, Purposes, ExceedsThreshold
    <3>3. QED BY <3>1, <3>2
  <2>2. QED BY <2>1 DEF Purposes, ExceedsThreshold
<1>17. AnswersMatchTheLog'
  BY <1>1, <1>3, <1>4 DEF IInv, AnswersMatchTheLog
<1>18. AuthorizationsAreDecided'
  BY <1>1, <1>7 DEF IInv, AuthorizationsAreDecided, i
<1>19. SingleUse'
  <2>1. consumed[i] = 0
    <3>1. i \in Ids /\ consumed[i] \in Nat
      BY <1>1, <1>5 DEF i
    <3>2. consumed[i] <= 1 /\ consumed[i] # 1
      BY <1>1, <3>1 DEF IInv, SingleUse, i
    <3>3. QED BY <3>1, <3>2
  <2>2. /\ consumed'[i] <= 1
        /\ auth'[i].status = "CONSUMED" <=> consumed'[i] = 1
    BY <1>1, <1>5, <1>6, <2>1 DEF i
  <2>3. QED BY <1>1, <1>7, <2>2 DEF IInv, SingleUse, i
<1>20. QED BY <1>11, <1>12, <1>13, <1>14, <1>15, <1>16, <1>17, <1>18, <1>19 DEF IInv
-----------------------------------------------------------------------------
LEMMA InitInv == Init => IInv
<1> SUFFICES ASSUME Init PROVE IInv
  OBVIOUS
<1> USE DEF Init
<1>1. /\ NoDecision.verdict = "none" /\ NoDecision.payload = NoPayload
      /\ NoAuth.status = "none" /\ NoApproval.status = "none"
      /\ NoJob.kind = "none" /\ NoJob.verdict = "none" /\ NoJob.blocked = {} /\ ~NoJob.late
      /\ NoAnswer.verdict = "none"
      /\ "idle" \notin Evaluating
  BY DEF NoDecision, NoAuth, NoApproval, NoJob, NoAnswer, Evaluating, Gates
<1>2. /\ \A i \in Ids : decision[i].verdict = "none" /\ auth[i].status = "none" /\ consumed[i] = 0
                        /\ authLock[i] = NoHandler
      /\ \A r \in Requests : approval[r].status = "none" /\ rowLock[r] = NoHandler
      /\ \A h \in Handlers : pc[h] = "idle" /\ job[h] = NoJob /\ answer[h].verdict = "none"
  BY <1>1
<1>3. \A r \in Requests : <<r, 1>> \in Ids
  BY AttemptAssumption DEF Ids
<1>4. TypeOK
  <2>1. decision \in [Ids -> [verdict : Verdicts \cup {"none"}, payload : Payloads \cup {NoPayload}]]
    BY DEF NoDecision
  <2>2. auth \in [Ids -> [status : {"none", "ISSUED", "CONSUMED", "EXPIRED"}, lapsed : BOOLEAN]]
    BY DEF NoAuth
  <2>3. approval \in [Requests -> [status : {"none", "PENDING", "APPROVED", "DENIED", "EXPIRED"},
                                attempt : 1 .. MaxAttempt, lapsed : BOOLEAN,
                                auth : 0 .. MaxAttempt]]
    BY AttemptAssumption DEF NoApproval
  <2>4. job \in [Handlers -> [kind : {"none", "authorize", "approve", "deny", "verify"},
                           id : Ids \cup {NoId}, payload : Payloads \cup {NoPayload},
                           verdict : Verdicts \cup {"none"}, consume : BOOLEAN,
                           blocked : SUBSET Gates, late : BOOLEAN]]
    BY DEF NoJob
  <2>5. answer \in [Handlers -> [id : Ids \cup {NoId}, verdict : Answers]]
    BY DEF NoAnswer, Answers
  <2>6. consumed \in [Ids -> Nat] /\ remaining \in [Budgets -> Nat] /\ open \in [Gates -> BOOLEAN]
    BY LimitAssumption
  <2>7. QED BY <2>1, <2>2, <2>3, <2>4, <2>5, <2>6 DEF TypeOK, Answers
<1>5. Phases
  BY <1>1, <1>2 DEF Phases, Verdicts
<1>6. Locks
  BY <1>1, <1>2, NamesAssumption DEF Locks
<1>7. Lateness /\ Blocking /\ Purposes
  BY <1>1, <1>2 DEF Lateness, Blocking, Purposes
<1>8. Rows
  BY <1>2, <1>3 DEF Rows, Recorded
<1>9. AnswersMatchTheLog /\ AuthorizationsAreDecided /\ SingleUse /\ ApprovedHasAuthorization
  BY <1>2 DEF AnswersMatchTheLog, Verdicts, AuthorizationsAreDecided, SingleUse, ApprovedHasAuthorization
<1>10. QED BY <1>4, <1>5, <1>6, <1>7, <1>8, <1>9 DEF IInv

LEMMA NextInv == IInv /\ [Next]_vars => IInv'
<1> SUFFICES ASSUME IInv, [Next]_vars PROVE IInv'
  OBVIOUS
<1>1. ASSUME NEW h \in Handlers, Arrive(h) PROVE IInv'
  BY <1>1, ArrivalStep
<1>2. ASSUME NEW h \in Handlers, Evaluate(h) PROVE IInv'
  BY <1>2, EvaluationStep, RefusalStep, RecordStep DEF Evaluate
<1>3. ASSUME NEW h \in Handlers, Await(h) PROVE IInv'
  BY <1>3, ClaimApprovalStep, ApprovalOutcomeStep, RefusalStep, DenialStep, ClaimAuthorizationStep,
     SpentStep DEF Await
<1>4. ASSUME NEW h \in Handlers, ConsumeAuthorization(h) PROVE IInv'
  BY <1>4, SpentStep
<1>5. ASSUME NEW h \in Handlers, Crash(h) PROVE IInv'
  BY <1>5, RefusalStep
<1>6. CASE Environment
  BY <1>6, EnvironmentStep
<1>7. CASE UNCHANGED vars
  BY <1>7 DEF vars, dbVars, lockVars, IInv, TypeOK, Phases, Locks, Lateness, Blocking, Rows, Purposes,
     Recorded, ExceedsThreshold, AnswersMatchTheLog, AuthorizationsAreDecided, SingleUse,
     ApprovedHasAuthorization
<1>8. QED BY <1>1, <1>2, <1>3, <1>4, <1>5, <1>6, <1>7 DEF Next

(* The invariant of the authorization core: what each handler knows at its *)
(* point of evaluate_request, approve_request, deny_request and            *)
(* verify_authorization holds whatever the others do.                      *)
THEOREM InductiveInvariant == Spec => []IInv
<1>1. QED BY InitInv, NextInv, PTL DEF Spec

(* The rows, the Redis keys and the local state keep their types.          *)
THEOREM TypeCorrect == Spec => []TypeOK
<1>1. IInv => TypeOK BY DEF IInv
<1>2. QED BY <1>1, InductiveInvariant, PTL

(* No handler waits for one that waits itself: the holder of a row lock is *)
(* evaluating (approve_request) or about to commit (verify_authorization), *)
(* with no further SELECT ... FOR UPDATE before its commit, and nobody who *)
(* is idle or waits still holds a lock. This excludes deadlocks; that each *)
(* waiter is served in the end is what the liveness run checks.            *)
WaitsForRow(h)  == pc[h] \in {"claim", "close"} /\ ~RowFree(h)
WaitsForAuth(h) == pc[h] = "verify" /\ ~AuthFree(h)
Working(h)      == pc[h] \in Evaluating \cup {"consume"}

LocksAreHeldByWorkers ==
  /\ \A h \in Handlers : WaitsForRow(h) =>
       \E k \in Handlers : rowLock[Claimed(h)] = k /\ Working(k)
  /\ \A h \in Handlers : WaitsForAuth(h) =>
       \E k \in Handlers : authLock[job[h].id] = k /\ Working(k)
  /\ \A h \in Handlers :
       /\ \A r \in Requests : rowLock[r] = h => Working(h) /\ job[h].id[1] = r
       /\ \A i \in Ids : authLock[i] = h => Working(h) /\ job[h].id = i

THEOREM HandlersDoNotDeadlock == Spec => []LocksAreHeldByWorkers
<1>1. IInv => LocksAreHeldByWorkers
  <2>1. ASSUME IInv, NEW h \in Handlers, WaitsForRow(h)
        PROVE  \E k \in Handlers : rowLock[Claimed(h)] = k /\ Working(k)
    <3>1. pc[h] # "idle" BY <2>1 DEF WaitsForRow
    <3>2. Claimed(h) \in Requests
      BY <2>1, <3>1 DEF IInv, Phases, Ids, Claimed
    <3>3. rowLock[Claimed(h)] \in Handlers
      BY <2>1, <3>2 DEF IInv, TypeOK, WaitsForRow, RowFree
    <3>4. QED BY <2>1, <3>2, <3>3 DEF IInv, Locks, Working
  <2>2. ASSUME IInv, NEW h \in Handlers, WaitsForAuth(h)
        PROVE  \E k \in Handlers : authLock[job[h].id] = k /\ Working(k)
    <3>1. job[h].id \in Ids BY <2>2 DEF IInv, Phases, WaitsForAuth
    <3>2. authLock[job[h].id] \in Handlers
      BY <2>2, <3>1 DEF IInv, TypeOK, WaitsForAuth, AuthFree
    <3>3. QED BY <2>2, <3>1, <3>2 DEF IInv, Locks, Working
  <2>3. ASSUME IInv, NEW h \in Handlers
        PROVE  /\ \A r \in Requests : rowLock[r] = h => Working(h) /\ job[h].id[1] = r
               /\ \A i \in Ids : authLock[i] = h => Working(h) /\ job[h].id = i
    BY <2>3 DEF IInv, Locks, Working
  <2>4. QED BY <2>1, <2>2, <2>3 DEF LocksAreHeldByWorkers
<1>2. QED BY <1>1, InductiveInvariant, PTL

(* What a client was told for a request_id is what the audit log says      *)
(* (idempotency check and unique index of evaluate_request).               *)
THEOREM ToldIsRecorded == Spec => []AnswersMatchTheLog
<1>1. IInv => AnswersMatchTheLog BY DEF IInv
<1>2. QED BY <1>1, InductiveInvariant, PTL

(* Authorizations are issued by decisions to ALLOW and by nothing else.    *)
THEOREM IssuedByDecisions == Spec => []AuthorizationsAreDecided
<1>1. IInv => AuthorizationsAreDecided BY DEF IInv
<1>2. QED BY <1>1, InductiveInvariant, PTL

(* verify_authorization consumes an authorization at most once, however    *)
(* many gateways present it at the same time.                              *)
THEOREM ConsumedOnce == Spec => []SingleUse
<1>1. IInv => SingleUse BY DEF IInv
<1>2. QED BY <1>1, InductiveInvariant, PTL

(* An APPROVED request names an authorization that one of its own          *)
(* re-evaluations issued (approve_request).                                *)
THEOREM ApprovedIsAuthorized == Spec => []ApprovedHasAuthorization
<1>1. IInv => ApprovedHasAuthorization BY DEF IInv
<1>2. QED BY <1>1, InductiveInvariant, PTL

(* Above the threshold of the permission every authorization goes back to  *)
(* a PENDING_APPROVAL of the same payload (the threshold check of          *)
(* evaluate_request, and skip_approval_check only behind approve_request). *)
THEOREM HighValueIsApproved == Spec => []HighValueNeedsOperator
<1>1. IInv => HighValueNeedsOperator
  <2>1. SUFFICES ASSUME IInv, NEW i \in Ids, auth[i].status # "none"
                 PROVE  IF i[2] = 1 THEN ~ExceedsThreshold(decision[i].payload)
                        ELSE /\ approval[i[1]].status # "none"
                             /\ decision[<<i[1], 1>>] = [verdict |-> "PENDING_APPROVAL",
                                                         payload |-> decision[i].payload]
    BY DEF HighValueNeedsOperator
  <2>2. decision[i].verdict = "ALLOW" /\ Recorded(i)
    BY <2>1 DEF IInv, AuthorizationsAreDecided, Recorded
  <2>3. CASE i[2] = 1
    BY <2>1, <2>2, <2>3 DEF IInv, Rows
  <2>4. CASE i[2] # 1
    <3>1. i[1] \in Requests /\ <<i[1], 1>> \in Ids
      BY AttemptAssumption DEF Ids
    <3>2. /\ approval[i[1]].status # "none"
          /\ decision[i].payload = decision[<<i[1], 1>>].payload
      BY <2>1, <2>2, <2>4 DEF IInv, Rows
    <3>3. decision[<<i[1], 1>>].verdict = "PENDING_APPROVAL"
      BY <2>1, <3>1, <3>2 DEF IInv, Rows
    <3>4. decision[<<i[1], 1>>] \in [verdict : Verdicts \cup {"none"}, payload : Payloads \cup {NoPayload}]
      BY <2>1, <3>1 DEF IInv, TypeOK
    <3>5. QED BY <2>4, <3>2, <3>3, <3>4
  <2>5. QED BY <2>3, <2>4
<1>2. QED BY <1>1, InductiveInvariant, PTL

(* A request that arrived behind a closed gate never reaches the budget    *)
(* and is never allowed (fleet and agent checks of evaluate_request).      *)
THEOREM ClosedGatesHold == Spec => []ClosedGateBlocks
<1>1. IInv => ClosedGateBlocks
  <2>1. SUFFICES ASSUME IInv, NEW h \in Handlers, job[h].blocked # {}
                 PROVE  job[h].verdict # "ALLOW" /\ pc[h] # "budget"
    BY DEF ClosedGateBlocks
  <2>2. job[h].verdict # "ALLOW"
    BY <2>1 DEF IInv, Blocking
  <2>3. pc[h] # "budget"
    <3>1. job[h].blocked \subseteq Gates
      BY <2>1, LocalTypes DEF JobType
    <3>2. QED BY <2>1, <3>1 DEF IInv, Blocking, Gates
  <2>4. QED BY <2>2, <2>3
<1>2. QED BY <1>1, InductiveInvariant, PTL

(* A call that comes after the 15 minutes of its row is neither evaluated  *)
(* nor consumes (expiry checks of approve_request, verify_authorization).  *)
THEOREM LateIsRefused == Spec => []LateCallsAreRefused
<1>1. IInv => LateCallsAreRefused
  <2>1. SUFFICES ASSUME IInv, NEW h \in Handlers, job[h].late
                 PROVE  pc[h] \in {"idle", "claim", "verify"}
    BY DEF LateCallsAreRefused
  <2>2. PcType /\ JobType
    BY <2>1, LocalTypes
  <2>3. pc[h] # "consume"
    BY <2>1 DEF IInv, Locks
  <2>4. pc[h] \notin Evaluating
    BY <2>1, <2>2 DEF IInv, Phases, Locks, Evaluating, Gates, JobType
  <2>5. pc[h] # "close"
    BY <2>1 DEF IInv, Phases
  <2>6. QED BY <2>2, <2>3, <2>4, <2>5 DEF PcType
<1>2. QED BY <1>1, InductiveInvariant, PTL
-----------------------------------------------------------------------------
(* Only Record changes the decision_attempt of an approval request.        *)
LEMMA AttemptStep ==
  ASSUME IInv, [Next]_vars, NEW r \in Requests, approval'[r].attempt # approval[r].attempt
  PROVE  \E h \in Handlers : Record(h) /\ job[h].kind = "approve" /\ job[h].id[1] = r
<1>1. /\ approval \in [Requests -> [status : {"none", "PENDING", "APPROVED", "DENIED", "EXPIRED"},
                                attempt : 1 .. MaxAttempt, lapsed : BOOLEAN, auth : 0 .. MaxAttempt]]
  BY DEF IInv, TypeOK
<1>2. approval' # approval
  OBVIOUS
<1>3. ASSUME NEW h \in Handlers, Arrive(h) PROVE FALSE
  BY <1>2, <1>3 DEF Arrive, StartAuthorize, StartApprove, StartDeny, StartVerify, Start, dbVars
<1>4. ASSUME NEW h \in Handlers, Evaluate(h), ~Record(h) PROVE FALSE
  BY <1>2, <1>4 DEF Evaluate, Replay, NoReplay, PassGate, MeetClosedGate, PolicyDenies, PolicyAllows,
     Reserve, RefuseBudget, RecordConflicts, dbVars
<1>5. ASSUME NEW h \in Handlers, Record(h)
      PROVE  job[h].kind = "approve" /\ job[h].id[1] = r
  <2>1. approval' = IF job[h].verdict = "PENDING_APPROVAL"
                    THEN [approval EXCEPT ![job[h].id[1]].status = "PENDING"]
                    ELSE IF job[h].kind = "approve"
                    THEN [approval EXCEPT ![job[h].id[1]].attempt = job[h].id[2]]
                    ELSE approval
    BY <1>5 DEF Record
  <2>2. QED BY <1>1, <1>2, <2>1
<1>6. ASSUME NEW h \in Handlers, Await(h) PROVE FALSE
  <2>1. CASE ExpireApproval(h)
    <3>1. approval' = [approval EXCEPT ![Claimed(h)].status = "EXPIRED"]
      BY <2>1 DEF ExpireApproval
    <3>2. QED BY <1>1, <3>1
  <2>2. CASE CloseApproval(h)
    <3>1. \/ approval' = [approval EXCEPT ![Claimed(h)].status = "DENIED"]
          \/ approval' = [approval EXCEPT ![Claimed(h)].status = "APPROVED",
                                          ![Claimed(h)].auth = job[h].id[2]]
      BY <2>2 DEF CloseApproval
    <3>2. QED BY <1>1, <3>1
  <2>3. CASE DenyRequest(h)
    BY <1>2, <2>3, DenialStep
  <2>4. CASE ClaimToApprove(h) \/ RefuseClaim(h) \/ ClaimAuthorization(h) \/ ExpireAuthorization(h)
             \/ RefuseAuthorization(h)
    BY <1>2, <2>4 DEF ClaimToApprove, RefuseClaim, ClaimAuthorization, ExpireAuthorization,
       RefuseAuthorization, dbVars
  <2>5. QED BY <1>6, <2>1, <2>2, <2>3, <2>4 DEF Await
<1>7. ASSUME NEW h \in Handlers, ConsumeAuthorization(h) \/ Crash(h) PROVE FALSE
  BY <1>2, <1>7 DEF ConsumeAuthorization, Crash, dbVars
<1>8. CASE Environment
  <2>1. ASSUME NEW q \in Requests, LapseApproval(q) PROVE FALSE
    <3>1. approval' = [approval EXCEPT ![q].lapsed = TRUE]
      BY <2>1 DEF LapseApproval
    <3>2. QED BY <1>1, <3>1
  <2>2. QED BY <1>2, <1>8, <2>1 DEF Environment, CloseGate, OpenGate, LapseAuthorization, dbVars
<1>9. CASE UNCHANGED vars
  BY <1>2, <1>9 DEF vars, dbVars
<1>10. QED BY <1>3, <1>4, <1>5, <1>6, <1>7, <1>8, <1>9 DEF Next

(* Once the row of an approval request says APPROVED, DENIED or EXPIRED,   *)
(* no evaluation that an operator started is recorded behind it: the row   *)
(* lock of approve_request is held from its status check to the commit of  *)
(* evaluate_request.                                                       *)
THEOREM NoAttemptBehindOutcome == Spec => NoAttemptAfterOutcome
<1>1. IInv /\ [Next]_vars =>
        [\A r \in Requests :
           approval'[r].attempt # approval[r].attempt => approval[r].status = "PENDING"]_vars
  <2>1. SUFFICES ASSUME IInv, [Next]_vars, NEW r \in Requests,
                        approval'[r].attempt # approval[r].attempt
                 PROVE  approval[r].status = "PENDING"
    OBVIOUS
  <2>2. PICK h \in Handlers : Record(h) /\ job[h].kind = "approve" /\ job[h].id[1] = r
    BY <2>1, AttemptStep
  <2>3. pc[h] \in Evaluating
    BY <2>2 DEF Record, Evaluating
  <2>4. QED BY <2>1, <2>2, <2>3 DEF IInv, Locks
<1>2. QED BY <1>1, InductiveInvariant, PTL DEF Spec, NoAttemptAfterOutcome

(* The denial of a pending request never changes the request: its audit    *)
(* event always meets the event of the PENDING_APPROVAL in the unique      *)
(* index (the run AuthorizationDenial shows it on an instance).            *)
THEOREM DenialsChangeNothing ==
  Spec => [][\A h \in Handlers : DenyRequest(h) => approval' = approval]_vars
<1>1. IInv => [\A h \in Handlers : DenyRequest(h) => approval' = approval]_vars
  BY DenialStep
<1>2. QED BY <1>1, InductiveInvariant, PTL DEF Spec

-----------------------------------------------------------------------------
(* Implementation of DecisionLedger: a step of a handler decides, uses or  *)
(* expires one entry, or leaves the ledger as it is.                       *)

\* A request id without a decision has no payload either.
Blank == \A i \in Ids : ~Recorded(i) => decision[i] = NoDecision

Row(i) == [verdict |-> decision[i].verdict, payload |-> decision[i].payload,
           use |-> auth[i].status, uses |-> consumed[i]]

(* When the rows of one id change, one entry of the ledger changes.        *)
LEMMA RowStep ==
  ASSUME NEW i \in Ids, NEW e, Row(i)' = e,
         \A k \in Ids \ {i} : Row(k)' = Row(k)
  PROVE  LedgerOfRows' = [LedgerOfRows EXCEPT ![i] = e]
<1>1. LedgerOfRows = [k \in Ids |-> Row(k)] /\ LedgerOfRows' = [k \in Ids |-> Row(k)']
  BY DEF LedgerOfRows, Row
<1>2. QED BY <1>1

LEMMA RowOfLedger == ASSUME NEW i \in Ids PROVE LedgerOfRows[i] = Row(i)
BY DEF LedgerOfRows, Row

(* Nothing is issued or consumed for an id without a decision.             *)
LEMMA UndecidedIsOpen ==
  ASSUME IInv, Blank, NEW i \in Ids, ~Recorded(i)
  PROVE  LedgerOfRows[i] = Ledger!Open
<1>1. decision[i].verdict = "none" /\ decision[i].payload = NoPayload
  BY DEF Blank, NoDecision
<1>2. auth[i].status = "none"
  BY <1>1 DEF IInv, AuthorizationsAreDecided
<1>3. consumed[i] = 0
  <2>1. consumed[i] \in Nat /\ consumed[i] <= 1 /\ consumed[i] # 1
    BY <1>2 DEF IInv, TypeOK, SingleUse
  <2>2. QED BY <2>1
<1>4. QED BY <1>1, <1>2, <1>3, RowOfLedger DEF Row, Ledger!Open

-----------------------------------------------------------------------------
(* The steps that change entries.                                          *)

(* Recording a decision decides its entry.                                 *)
LEMMA RecordDecides ==
  ASSUME IInv, Blank, NEW h \in Handlers, Record(h)
  PROVE  (\E i \in Ids : Ledger!DecideEntry(i)) /\ Blank'
<1>1. PICK i \in Ids, v \in Verdicts, p \in Payloads :
      /\ ~Recorded(i)
      /\ decision' = [decision EXCEPT ![i] = [verdict |-> v, payload |-> p]]
      /\ auth' = IF v = "ALLOW" THEN [auth EXCEPT ![i].status = "ISSUED"] ELSE auth
      /\ consumed' = consumed
  BY DEF Record, IInv, Phases, Evaluating
<1>2. /\ decision \in [Ids -> [verdict : Verdicts \cup {"none"}, payload : Payloads \cup {NoPayload}]]
      /\ auth \in [Ids -> [status : {"none", "ISSUED", "CONSUMED", "EXPIRED"}, lapsed : BOOLEAN]]
  BY DEF IInv, TypeOK
<1>3. LedgerOfRows[i] = Ledger!Open
  BY <1>1, UndecidedIsOpen
<1>4. auth[i].status = "none" /\ consumed[i] = 0
  <2>1. Row(i) = Ledger!Open
    BY <1>3, RowOfLedger
  <2>2. QED BY <2>1 DEF Row, Ledger!Open
<1>5. Row(i)' = Ledger!Entry(v, p)
  BY <1>1, <1>2, <1>4 DEF Row, Ledger!Entry
<1>6. \A k \in Ids \ {i} : Row(k)' = Row(k)
  BY <1>1, <1>2 DEF Row
<1>7. LedgerOfRows' = [LedgerOfRows EXCEPT ![i] = Ledger!Entry(v, p)]
  BY <1>1, <1>5, <1>6, RowStep
<1>8. Ledger!DecideEntry(i)
  BY <1>1, <1>3, <1>7 DEF Ledger!DecideEntry, Ledger!Outcomes, Verdicts
<1>9. Blank'
  BY <1>1, <1>2 DEF Blank, Recorded, Verdicts
<1>10. QED BY <1>1, <1>8, <1>9

(* A consumption uses an entry that can be used: the lock of the row has   *)
(* kept it ISSUED since it was checked.                                    *)
LEMMA ConsumeUses ==
  ASSUME IInv, NEW h \in Handlers, ConsumeAuthorization(h)
  PROVE  LedgerOfRows' = LedgerOfRows \/ \E i \in Ids : Ledger!UseEntry(i)
<1>1. PICK i \in Ids : i = job[h].id /\ auth[i].status = "ISSUED" /\ decision' = decision
  BY DEF ConsumeAuthorization, IInv, Phases, Locks
<1>2. /\ auth \in [Ids -> [status : {"none", "ISSUED", "CONSUMED", "EXPIRED"}, lapsed : BOOLEAN]]
      /\ consumed \in [Ids -> Nat]
  BY DEF IInv, TypeOK
<1>3. CASE job[h].consume
  <2>1. /\ auth' = [auth EXCEPT ![i].status = "CONSUMED"]
        /\ consumed' = [consumed EXCEPT ![i] = @ + 1]
    BY <1>1, <1>3 DEF ConsumeAuthorization
  <2>2. Row(i)' = Ledger!Used(Row(i))
    BY <1>1, <1>2, <2>1 DEF Row, Ledger!Used
  <2>3. \A k \in Ids \ {i} : Row(k)' = Row(k)
    BY <1>1, <1>2, <2>1 DEF Row
  <2>4. LedgerOfRows' = [LedgerOfRows EXCEPT ![i] = Ledger!Used(Row(i))]
    BY <1>1, <2>2, <2>3, RowStep
  <2>5. LedgerOfRows[i] = Row(i) /\ Row(i).use = "ISSUED"
    BY <1>1, RowOfLedger DEF Row
  <2>6. QED BY <1>1, <2>4, <2>5 DEF Ledger!UseEntry
<1>4. CASE ~job[h].consume
  BY <1>1, <1>4 DEF ConsumeAuthorization, LedgerOfRows
<1>5. QED BY <1>3, <1>4

(* An authorization that is too old when it is presented expires unused.   *)
LEMMA ExpiryExpires ==
  ASSUME IInv, NEW h \in Handlers, ExpireAuthorization(h)
  PROVE  \E i \in Ids : Ledger!ExpireEntry(i)
<1>1. PICK i \in Ids :
      /\ auth[i].status = "ISSUED" /\ decision' = decision /\ consumed' = consumed
      /\ auth' = [auth EXCEPT ![i].status = "EXPIRED"]
  BY DEF ExpireAuthorization, IInv, Phases
<1>2. auth \in [Ids -> [status : {"none", "ISSUED", "CONSUMED", "EXPIRED"}, lapsed : BOOLEAN]]
  BY DEF IInv, TypeOK
<1>3. Row(i)' = [Row(i) EXCEPT !.use = "EXPIRED"]
  BY <1>1, <1>2 DEF Row
<1>4. \A k \in Ids \ {i} : Row(k)' = Row(k)
  BY <1>1, <1>2 DEF Row
<1>5. LedgerOfRows' = [LedgerOfRows EXCEPT ![i] = [Row(i) EXCEPT !.use = "EXPIRED"]]
  BY <1>1, <1>3, <1>4, RowStep
<1>6. LedgerOfRows[i] = Row(i) /\ Row(i).use = "ISSUED"
  BY <1>1, RowOfLedger DEF Row
<1>7. LedgerOfRows' = [LedgerOfRows EXCEPT ![i].use = "EXPIRED"]
  BY <1>1, <1>5, <1>6 DEF LedgerOfRows
<1>8. QED BY <1>1, <1>6, <1>7 DEF Ledger!ExpireEntry

-----------------------------------------------------------------------------
(* Every step of the handlers and of their environment is a step of the    *)
(* ledger or leaves it as it is.                                           *)
LEMMA LedgerStep ==
  IInv /\ Blank /\ [Next]_vars => [Ledger!LedgerNext]_LedgerOfRows /\ Blank'
<1> SUFFICES ASSUME IInv, Blank, [Next]_vars
             PROVE  [Ledger!LedgerNext]_LedgerOfRows /\ Blank'
  OBVIOUS
<1> USE DEF dbVars
<1>1. ASSUME decision' = decision
      PROVE  Blank'
  BY <1>1 DEF Blank, Recorded
<1>2. ASSUME UNCHANGED <<decision, auth, consumed>>
      PROVE  LedgerOfRows' = LedgerOfRows /\ Blank'
  BY <1>1, <1>2 DEF LedgerOfRows
<1>3. ASSUME NEW h \in Handlers, Arrive(h) PROVE UNCHANGED <<decision, auth, consumed>>
  BY <1>3 DEF Arrive, StartAuthorize, StartApprove, StartDeny, StartVerify, Start
<1>4. ASSUME NEW h \in Handlers, Evaluate(h)
      PROVE  \/ UNCHANGED <<decision, auth, consumed>>
             \/ \E i \in Ids : Ledger!DecideEntry(i) /\ Blank'
  <2>1. CASE Record(h) BY <2>1, RecordDecides
  <2>2. CASE ~Record(h)
    BY <1>4, <2>2 DEF Evaluate, Replay, NoReplay, PassGate, MeetClosedGate, PolicyDenies,
                      PolicyAllows, Reserve, RefuseBudget, RecordConflicts
  <2>3. QED BY <2>1, <2>2
<1>5. ASSUME NEW h \in Handlers, Await(h)
      PROVE  \/ UNCHANGED <<decision, auth, consumed>>
             \/ \E i \in Ids : Ledger!ExpireEntry(i) /\ decision' = decision
  <2>1. CASE ExpireAuthorization(h)
    BY <2>1, ExpiryExpires DEF ExpireAuthorization
  <2>2. CASE DenyRequest(h)
    <3>1. job[h].id \in Ids /\ Recorded(job[h].id)
      <4>1. job[h].kind = "deny" /\ pc[h] = "claim" /\ job[h].id \in Ids /\ job[h].id[2] = 1
        BY <2>2 DEF DenyRequest, IInv, Phases
      <4>2. job[h].id = <<job[h].id[1], 1>> /\ job[h].id[1] \in Requests
        BY <4>1 DEF Ids
      <4>3. QED BY <4>1, <4>2 DEF IInv, Purposes, Rows, Recorded
    <3>2. QED BY <2>2, <3>1 DEF DenyRequest
  <2>3. CASE ~ExpireAuthorization(h) /\ ~DenyRequest(h)
    BY <1>5, <2>3 DEF Await, ClaimToApprove, ExpireApproval, RefuseClaim, CloseApproval,
                      ClaimAuthorization, RefuseAuthorization
  <2>4. QED BY <2>1, <2>2, <2>3
<1>6. ASSUME NEW h \in Handlers, ConsumeAuthorization(h)
      PROVE  \/ LedgerOfRows' = LedgerOfRows /\ decision' = decision
             \/ \E i \in Ids : Ledger!UseEntry(i) /\ decision' = decision
  BY <1>6, ConsumeUses DEF ConsumeAuthorization
<1>7. ASSUME NEW h \in Handlers, Crash(h) PROVE UNCHANGED <<decision, auth, consumed>>
  BY <1>7 DEF Crash
<1>8. ASSUME Environment PROVE LedgerOfRows' = LedgerOfRows /\ decision' = decision
  <2>1. CASE \E i \in Ids : LapseAuthorization(i)
    <3>1. PICK i \in Ids : LapseAuthorization(i) BY <2>1
    <3>2. auth \in [Ids -> [status : {"none", "ISSUED", "CONSUMED", "EXPIRED"}, lapsed : BOOLEAN]]
      BY DEF IInv, TypeOK
    <3>3. decision' = decision /\ consumed' = consumed /\ \A k \in Ids : auth'[k].status = auth[k].status
      BY <3>1, <3>2 DEF LapseAuthorization
    <3>4. QED BY <3>3 DEF LedgerOfRows
  <2>2. CASE ~\E i \in Ids : LapseAuthorization(i)
    BY <1>2, <1>8, <2>2 DEF Environment, CloseGate, OpenGate, LapseApproval
  <2>3. QED BY <2>1, <2>2
<1>9. CASE UNCHANGED vars
  BY <1>2, <1>9 DEF vars
<1>10. QED
  BY <1>1, <1>2, <1>3, <1>4, <1>5, <1>6, <1>7, <1>8, <1>9 DEF Next, Ledger!LedgerNext

(* The rows that the handlers of authorize, approvals and execution write  *)
(* are a ledger whose entries are decided once and used at most once.      *)
THEOREM HandlersKeepTheLedger == Spec => RefinesLedger
<1>1. Init => Ledger!LedgerInit /\ Blank
  BY DEF Init, Ledger!LedgerInit, Ledger!Open, LedgerOfRows, Blank, NoDecision, NoAuth
<1>2. QED BY <1>1, LedgerStep, InductiveInvariant, PTL DEF Spec, RefinesLedger, Ledger!LedgerSpec

-----------------------------------------------------------------------------
(* What is authorised, counted. A sum is a recursion over a set in an order  *)
(* of its own; to reason about it, the amounts are laid out in units and the *)
(* units are counted, which needs no order.                                  *)
Units(w, S) == UNION {{x} \X (1 .. w[x]) : x \in S}

LEMMA UnitsOfOne ==
  ASSUME NEW w, NEW x, w[x] \in Nat
  PROVE  IsFiniteSet({x} \X (1 .. w[x])) /\ Cardinality({x} \X (1 .. w[x])) = w[x]
<1>1. IsFiniteSet(1 .. w[x]) /\ Cardinality(1 .. w[x]) = w[x]
  BY FS_Interval
<1>2. IsFiniteSet({x}) /\ Cardinality({x}) = 1
  BY FS_Singleton
<1>3. IsFiniteSet({x} \X (1 .. w[x])) /\ Cardinality({x} \X (1 .. w[x])) = 1 * w[x]
  BY <1>1, <1>2, FS_Product
<1> QED BY <1>3

LEMMA UnitsAreFinite ==
  ASSUME NEW w, NEW S, IsFiniteSet(S), \A x \in S : w[x] \in Nat
  PROVE  IsFiniteSet(Units(w, S)) /\ Cardinality(Units(w, S)) \in Nat
<1> DEFINE F == {{x} \X (1 .. w[x]) : x \in S}
<1>1. IsFiniteSet(F)
  <2> DEFINE f == [x \in S |-> {x} \X (1 .. w[x])]
  <2>1. f \in Surjection(S, F)
    BY DEF Surjection
  <2> QED BY <2>1, FS_Surjection
<1>2. \A X \in F : IsFiniteSet(X)
  BY UnitsOfOne
<1>3. IsFiniteSet(UNION F)
  <2> HIDE DEF F
  <2> QED BY <1>1, <1>2, FS_UNION
<1>4. IsFiniteSet(Units(w, S))
  BY <1>3 DEF Units
<1> QED BY <1>4, FS_CardinalityType

\* One more element: its units are new.
LEMMA UnitsGrow ==
  ASSUME NEW w, NEW S, IsFiniteSet(S), NEW a, a \notin S, \A x \in S \cup {a} : w[x] \in Nat
  PROVE  Cardinality(Units(w, S \cup {a})) = Cardinality(Units(w, S)) + w[a]
<1> DEFINE old == Units(w, S)
           new == {a} \X (1 .. w[a])
<1>1. Units(w, S \cup {a}) = old \cup new /\ old \cap new = {}
  BY DEF Units
<1>2. IsFiniteSet(old) /\ Cardinality(old) \in Nat
  BY UnitsAreFinite
<1>3. IsFiniteSet(new) /\ Cardinality(new) = w[a] /\ w[a] \in Nat
  BY UnitsOfOne
<1> HIDE DEF old, new
<1>4. Cardinality(old \cup new) = Cardinality(old) + Cardinality(new) - Cardinality(old \cap new)
  BY <1>2, <1>3, FS_Union
<1>5. Cardinality(old \cap new) = 0
  BY <1>1, FS_EmptySet
<1>6. Cardinality(old \cup new) = Cardinality(old) + w[a]
  BY <1>2, <1>3, <1>4, <1>5
<1> QED BY <1>1, <1>6 DEF old

LEMMA UnitsShrink ==
  ASSUME NEW w, NEW S, IsFiniteSet(S), \A x \in S : w[x] \in Nat, NEW T \in SUBSET S
  PROVE  Cardinality(Units(w, T)) <= Cardinality(Units(w, S))
<1>1. Units(w, T) \in SUBSET Units(w, S)
  BY DEF Units
<1> QED BY <1>1, UnitsAreFinite, FS_Subset

LEMMA UnitsAgree ==
  ASSUME NEW v, NEW w, NEW S, \A x \in S : v[x] = w[x]
  PROVE  Units(v, S) = Units(w, S)
BY DEF Units

Paying  == {i \in Ids : decision[i].verdict = "ALLOW"}
Price   == [i \in Ids |-> Amount[decision[i].payload]]
Holding == {h \in Handlers : pc[h] = "record" /\ job[h].verdict = "ALLOW"}
Held    == [h \in Handlers |-> Amount[job[h].payload]]

Spent    == Cardinality(Units(Price, Paying))
Reserved == Cardinality(Units(Held, Holding))

\* Every unit that a budget has lost is authorised, reserved by a handler
\* that will record its decision, or lost for good.
BudgetsCover ==
  /\ IsFiniteSet(Paying) /\ IsFiniteSet(Holding)
  /\ \A b \in Budgets : remaining[b] + Spent + Reserved <= Limit[b]

\* The sum of the property is the number of units.
LEMMA AuthorisedIsSpent ==
  ASSUME IsFiniteSet(Paying), \A i \in Paying : Price[i] \in Nat
  PROVE  Authorised = Spent
<1> DEFINE S == Paying
           pick(s) == CHOOSE x \in s : TRUE
           Step(f, s) == IF s = {} THEN 0 ELSE Amount[decision[pick(s)].payload] + f[s \ {pick(s)}]
           count == [s \in SUBSET S |-> Cardinality(Units(Price, s))]
           sum[s \in SUBSET S] ==
             IF s = {} THEN 0 ELSE Amount[decision[pick(s)].payload] + sum[s \ {pick(s)}]
<1>1. Authorised = sum[S]
  BY DEF Authorised, Paying, MapThenSumSet, MapThenFoldSet
<1>2. \A i \in S : Price[i] = Amount[decision[i].payload] /\ Price[i] \in Nat
  BY DEF Price, Paying
<1> HIDE DEF S
<1>3. \A s \in SUBSET S : count[s] = Step(count, s)
  <2> SUFFICES ASSUME NEW s \in SUBSET S PROVE count[s] = Step(count, s)
    OBVIOUS
  <2>1. CASE s = {}
    <3>1. Units(Price, {}) = {}
      BY DEF Units
    <3> QED BY <2>1, <3>1, FS_EmptySet
  <2>2. CASE s # {}
    <3> DEFINE x == pick(s)
               r == s \ {x}
    <3>1. x \in s
      BY <2>2
    <3>2. x \in S /\ r \in SUBSET S /\ x \notin r /\ s = r \cup {x}
      BY <3>1
    <3>3. IsFiniteSet(r)
      BY <3>2, FS_Subset DEF S
    <3>4. count[s] = Cardinality(Units(Price, s)) /\ count[r] = Cardinality(Units(Price, r))
      BY <3>2
    <3>5. \A y \in r \cup {x} : Price[y] \in Nat
      BY <1>2, <3>2
    <3>6. Price[x] = Amount[decision[x].payload] /\ Price[x] \in Nat
      BY <1>2, <3>2
    <3> HIDE DEF x, r
    <3>7. Cardinality(Units(Price, r \cup {x})) = Cardinality(Units(Price, r)) + Price[x]
      BY <3>2, <3>3, <3>5, UnitsGrow
    <3>8. Cardinality(Units(Price, r)) \in Nat
      BY <3>3, <3>5, UnitsAreFinite
    <3>9. count[s] = Amount[decision[x].payload] + count[r]
      BY <3>2, <3>4, <3>6, <3>7, <3>8
    <3> QED BY <2>2, <3>9 DEF x, r
  <2> QED BY <2>1, <2>2
<1>4. count = [s \in SUBSET S |-> Step(count, s)]
  BY <1>3
<1>5. sum = [s \in SUBSET S |-> Step(sum, s)]
  BY <1>4
\* A least set on which the two differ: without one of its elements they agree.
<1>6. \A s \in SUBSET S : sum[s] = count[s]
  <2> SUFFICES ASSUME NEW t \in SUBSET S, sum[t] # count[t] PROVE FALSE
    OBVIOUS
  <2> DEFINE B == {s \in SUBSET S : sum[s] # count[s]}
             R == StrictSubsetOrdering(S)
  <2>1. IsWellFoundedOn(R, SUBSET S)
    BY FS_StrictSubsetOrderingWellFounded, FS_FiniteSubsetsOfFinite DEF S
  <2>2. B \subseteq SUBSET S /\ B # {}
    OBVIOUS
  <2>3. PICK s \in B : \A y \in B : ~(<<y, s>> \in R)
    <3> HIDE DEF B, R
    <3> QED BY <2>1, <2>2, WFMin
  <2>4. s # {}
    BY <1>3, <1>5
  <2>5. pick(s) \in s
    BY <2>4
  <2>6. s \ {pick(s)} \in SUBSET S /\ s \ {pick(s)} # s
    BY <2>5
  <2>7. <<s \ {pick(s)}, s>> \in R
    BY <2>6 DEF StrictSubsetOrdering
  <2>8. sum[s \ {pick(s)}] = count[s \ {pick(s)}]
    BY <2>3, <2>6, <2>7
  <2>9. sum[s] = Step(sum, s) /\ count[s] = Step(count, s)
    BY <1>3, <1>5
  <2> QED BY <2>4, <2>8, <2>9
<1> QED BY <1>1, <1>6 DEF S, Spent

LEMMA PricesKnown ==
  IInv => (\A i \in Paying : Price[i] \in Nat) /\ (\A h \in Holding : Held[h] \in Nat)
<1> SUFFICES ASSUME IInv PROVE (\A i \in Paying : Price[i] \in Nat) /\ (\A h \in Holding : Held[h] \in Nat)
  OBVIOUS
<1>1. \A i \in Paying : decision[i].payload \in Payloads
  BY DEF IInv, Rows, Recorded, Paying
<1>2. \A h \in Holding : job[h].payload \in Payloads
  BY DEF IInv, Phases, Evaluating, Holding
<1> QED BY <1>1, <1>2, AmountAssumption DEF Price, Held, Paying, Holding

\* A step that authorises nothing, reserves nothing new and gives no budget anything.
LEMMA CoverStays ==
  ASSUME IInv, BudgetsCover, IInv',
         Paying' = Paying, \A i \in Paying : decision'[i].payload = decision[i].payload,
         Holding' \subseteq Holding, \A h \in Holding' : job'[h].payload = job[h].payload,
         \A b \in Budgets : remaining'[b] <= remaining[b]
  PROVE  BudgetsCover'
<1>1. \A i \in Paying : Price'[i] = Price[i]
  BY DEF Price, Paying
<1>2. \A h \in Holding' : Held'[h] = Held[h]
  BY DEF Held, Holding
<1>3. Spent' = Spent
  BY <1>1, UnitsAgree DEF Spent
<1>4. IsFiniteSet(Holding) /\ IsFiniteSet(Holding') /\ IsFiniteSet(Paying')
  BY FS_Subset DEF BudgetsCover
<1>5. Reserved' = Cardinality(Units(Held, Holding'))
  BY <1>2, UnitsAgree DEF Reserved
<1>6. Reserved' <= Reserved
  BY <1>4, <1>5, PricesKnown, UnitsShrink DEF Reserved
<1>7. Spent \in Nat /\ Reserved \in Nat
  BY PricesKnown, UnitsAreFinite DEF BudgetsCover, Spent, Reserved
<1>8. Reserved' \in Nat
  BY <1>2, <1>4, <1>5, PricesKnown, UnitsAreFinite
<1>9. \A b \in Budgets : remaining[b] \in Nat /\ remaining'[b] \in Nat /\ Limit[b] \in Nat
  BY LimitAssumption DEF IInv, TypeOK
<1>10. \A b \in Budgets : remaining'[b] + Spent' + Reserved' <= Limit[b]
  BY <1>3, <1>6, <1>7, <1>8, <1>9 DEF BudgetsCover
<1> QED BY <1>4, <1>10 DEF BudgetsCover

\* The Lua script takes from every budget what the handler holds afterwards.
LEMMA ReserveCovers ==
  ASSUME IInv, BudgetsCover, IInv', NEW h \in Handlers, Reserve(h)
  PROVE  BudgetsCover'
<1>1. JobType /\ PcType
  BY LocalTypes
<1>2. /\ pc[h] = "budget" /\ pc'[h] = "record"
      /\ \A k \in Handlers \ {h} : pc'[k] = pc[k] /\ job'[k] = job[k]
      /\ job'[h].payload = job[h].payload /\ UNCHANGED decision
      /\ remaining' = [b \in Budgets |-> remaining[b] - Amount[job[h].payload]]
  BY <1>1 DEF Reserve, Decide, Goto, JobType, PcType, dbVars
<1>3. Paying' = Paying
  BY <1>2 DEF Paying
<1>4. h \notin Holding
  BY <1>2 DEF Holding
<1>5. job[h].payload \in Payloads /\ Amount[job[h].payload] \in Nat
  BY <1>2, AmountAssumption DEF IInv, Phases, Evaluating
<1>6. \A b \in Budgets : remaining[b] \in Nat /\ remaining'[b] = remaining[b] - Amount[job[h].payload]
                         /\ remaining'[b] \in Nat /\ Limit[b] \in Nat
  BY <1>2, LimitAssumption DEF IInv, TypeOK
<1>7. CASE job'[h].verdict = "ALLOW"
  <2>1. Holding' = Holding \cup {h}
    BY <1>2, <1>7 DEF Holding
  <2>2. \A k \in Holding \cup {h} : Held'[k] = Held[k]
    BY <1>2 DEF Held, Holding
  <2>3. \A k \in Holding \cup {h} : Held[k] \in Nat
    BY <1>5, PricesKnown DEF Held
  <2>4. Reserved' = Cardinality(Units(Held, Holding \cup {h}))
    BY <2>1, <2>2, UnitsAgree DEF Reserved
  <2>5. IsFiniteSet(Holding) /\ IsFiniteSet(Holding') /\ IsFiniteSet(Paying')
    BY <1>3, <2>1, FS_AddElement DEF BudgetsCover
  <2>6. Reserved' = Reserved + Held[h]
    BY <1>4, <2>3, <2>4, <2>5, UnitsGrow DEF Reserved
  <2>7. Held[h] = Amount[job[h].payload]
    BY DEF Held
  <2>8. Spent' = Spent
    BY <1>2, <1>3 DEF Spent, Price
  <2>9. Spent \in Nat /\ Reserved \in Nat
    BY PricesKnown, UnitsAreFinite DEF BudgetsCover, Spent, Reserved
  <2>10. \A b \in Budgets : remaining'[b] + Spent' + Reserved' <= Limit[b]
    BY <1>5, <1>6, <2>6, <2>7, <2>8, <2>9 DEF BudgetsCover
  <2> QED BY <2>5, <2>10 DEF BudgetsCover
<1>8. CASE job'[h].verdict # "ALLOW"
  <2>1. Holding' \subseteq Holding /\ \A k \in Holding' : job'[k].payload = job[k].payload
    BY <1>2, <1>8 DEF Holding
  <2>2. \A b \in Budgets : remaining'[b] <= remaining[b]
    BY <1>5, <1>6
  <2> QED BY <1>2, <1>3, <2>1, <2>2, CoverStays
<1> QED BY <1>7, <1>8

\* The decision is recorded: what was reserved for it is now authorised.
LEMMA RecordCovers ==
  ASSUME IInv, BudgetsCover, IInv', NEW h \in Handlers, Record(h)
  PROVE  BudgetsCover'
<1> DEFINE i == job[h].id
           v == job[h].verdict
<1>1. JobType /\ PcType
  BY LocalTypes
<1>2. pc[h] = "record" /\ ~Recorded(i) /\ UNCHANGED remaining
      /\ i \in Ids /\ job[h].payload \in Payloads /\ v \in Verdicts
  BY DEF Record, IInv, Phases, Evaluating
<1>3. decision' = [decision EXCEPT ![i] = [verdict |-> v, payload |-> job[h].payload]]
  BY DEF Record
<1>4. /\ decision'[i].verdict = v /\ decision'[i].payload = job[h].payload
      /\ \A k \in Ids \ {i} : decision'[k] = decision[k]
      /\ decision[i].verdict = "none"
  BY <1>2, <1>3 DEF IInv, TypeOK, Recorded
<1>5. /\ pc'[h] # "record"
      /\ \A k \in Handlers \ {h} : pc'[k] = pc[k] /\ job'[k] = job[k]
  <2>1. CASE job[h].kind = "approve"
    BY <1>1, <2>1 DEF Record, Goto, PcType
  <2>2. CASE job[h].kind # "approve"
    BY <1>1, <2>2 DEF Record, Answer, Goto, PcType, JobType
  <2> QED BY <2>1, <2>2
<1>6. Holding' = Holding \ {h} /\ \A k \in Holding' : job'[k].payload = job[k].payload
  BY <1>5 DEF Holding
<1>7. i \notin Paying
  BY <1>4 DEF Paying
<1>8. \A b \in Budgets : remaining[b] \in Nat /\ remaining'[b] = remaining[b] /\ Limit[b] \in Nat
  BY <1>2, LimitAssumption DEF IInv, TypeOK
<1>9. CASE v = "ALLOW"
  <2>1. Paying' = Paying \cup {i} /\ h \in Holding /\ Holding = (Holding \ {h}) \cup {h}
    BY <1>2, <1>4, <1>9 DEF Paying, Holding
  <2>2. \A k \in Paying : Price'[k] = Price[k]
    BY <1>4, <1>7 DEF Price, Paying
  <2>3. Price'[i] = Held[h] /\ Held[h] \in Nat
    BY <1>2, <1>4, AmountAssumption DEF Price, Held
  <2>4. IsFiniteSet(Paying) /\ IsFiniteSet(Paying') /\ IsFiniteSet(Holding) /\ IsFiniteSet(Holding')
    BY <1>6, <2>1, FS_AddElement, FS_RemoveElement DEF BudgetsCover
  <2>5. Units(Price', Paying) = Units(Price, Paying)
    BY <2>2, UnitsAgree
  <2>6. \A k \in Paying \cup {i} : Price'[k] \in Nat
    BY <2>2, <2>3, PricesKnown
  <2>7. Spent' = Cardinality(Units(Price', Paying \cup {i}))
    BY <2>1 DEF Spent
  <2>8. Spent' = Spent + Held[h]
    <3> HIDE DEF i
    <3> QED BY <1>7, <2>3, <2>4, <2>5, <2>6, <2>7, UnitsGrow DEF Spent
  <2>9. \A k \in (Holding \ {h}) \cup {h} : Held[k] \in Nat
    BY <2>3, PricesKnown
  <2>10. Cardinality(Units(Held, (Holding \ {h}) \cup {h})) = Cardinality(Units(Held, Holding \ {h})) + Held[h]
    BY <1>6, <2>4, <2>9, UnitsGrow
  <2>11. Reserved = Cardinality(Units(Held, Holding \ {h})) + Held[h]
    BY <2>1, <2>10 DEF Reserved
  <2>12. \A k \in Holding \ {h} : Held'[k] = Held[k]
    BY <1>6 DEF Held, Holding
  <2>13. Reserved' = Cardinality(Units(Held, Holding \ {h}))
    BY <1>6, <2>12, UnitsAgree DEF Reserved
  <2>14. Spent \in Nat /\ Reserved' \in Nat
    BY <1>6, <2>4, <2>9, <2>13, PricesKnown, UnitsAreFinite DEF Spent
  <2>15. Reserved = Reserved' + Held[h]
    BY <2>11, <2>13
  <2>16. \A b \in Budgets : remaining'[b] + Spent' + Reserved' <= Limit[b]
    BY <1>8, <2>3, <2>8, <2>14, <2>15 DEF BudgetsCover
  <2> QED BY <2>4, <2>16 DEF BudgetsCover
<1>10. CASE v # "ALLOW"
  <2>1. Paying' = Paying /\ \A k \in Paying : decision'[k].payload = decision[k].payload
    BY <1>4, <1>7, <1>10 DEF Paying
  <2>2. Holding' \subseteq Holding /\ \A b \in Budgets : remaining'[b] <= remaining[b]
    BY <1>6, <1>8
  <2> QED BY <1>6, <2>1, <2>2, CoverStays
<1> QED BY <1>9, <1>10

\* A handler that leaves the row of its decision alone holds nothing afterwards.
LEMMA QuietCovers ==
  ASSUME IInv, BudgetsCover, IInv', NEW h \in Handlers,
         \A k \in Handlers \ {h} : pc'[k] = pc[k] /\ job'[k] = job[k],
         pc'[h] # "record" \/ job'[h].verdict # "ALLOW",
         UNCHANGED <<decision, remaining>>
  PROVE  BudgetsCover'
<1>1. Paying' = Paying /\ \A i \in Paying : decision'[i].payload = decision[i].payload
  BY DEF Paying
<1>2. Holding' \subseteq Holding /\ \A k \in Holding' : job'[k].payload = job[k].payload
  BY DEF Holding
<1>3. \A b \in Budgets : remaining[b] \in Nat /\ remaining'[b] = remaining[b]
  BY DEF IInv, TypeOK
<1>4. \A b \in Budgets : remaining'[b] <= remaining[b]
  BY <1>3
<1> QED BY <1>1, <1>2, <1>4, CoverStays

\* A denial by an operator takes the place of a decision that nobody recorded.
LEMMA DenialCovers ==
  ASSUME IInv, BudgetsCover, IInv', NEW h \in Handlers, DenyRequest(h)
  PROVE  BudgetsCover'
<1>1. JobType /\ PcType
  BY LocalTypes
<1>2. /\ pc'[h] = "idle" /\ \A k \in Handlers \ {h} : pc'[k] = pc[k] /\ job'[k] = job[k]
      /\ UNCHANGED remaining
  BY <1>1 DEF DenyRequest, Answer, Goto, PcType, JobType
<1>3. Holding' \subseteq Holding /\ \A k \in Holding' : job'[k].payload = job[k].payload
  BY <1>2 DEF Holding
<1>4. \A b \in Budgets : remaining[b] \in Nat /\ remaining'[b] = remaining[b]
  BY <1>2 DEF IInv, TypeOK
<1>5. \A b \in Budgets : remaining'[b] <= remaining[b]
  BY <1>4
<1>6. CASE Recorded(job[h].id)
  <2>1. UNCHANGED decision
    BY <1>6 DEF DenyRequest
  <2> QED BY <1>2, <2>1, QuietCovers
<1>7. CASE ~Recorded(job[h].id)
  <2>1. job[h].id \in Ids
    BY DEF DenyRequest, IInv, Phases
  <2>2. decision[job[h].id].verdict = "none"
    BY <1>7 DEF Recorded
  <2>3. decision' = [decision EXCEPT ![job[h].id] = [verdict |-> "DENY", payload |-> job[h].payload]]
    BY <1>7 DEF DenyRequest
  <2>4. /\ decision'[job[h].id].verdict = "DENY"
        /\ \A k \in Ids \ {job[h].id} : decision'[k] = decision[k]
    BY <2>1, <2>3 DEF IInv, TypeOK
  <2>5. Paying' = Paying /\ \A i \in Paying : decision'[i].payload = decision[i].payload
    BY <2>2, <2>4 DEF Paying
  <2> QED BY <1>3, <1>5, <2>5, CoverStays
<1> QED BY <1>6, <1>7

LEMMA NextCovers ==
  ASSUME IInv, BudgetsCover, IInv', [Next]_vars
  PROVE  BudgetsCover'
<1>1. JobType /\ PcType
  BY LocalTypes
<1> USE DEF JobType, PcType, Goto, dbVars
<1>2. ASSUME NEW h \in Handlers, Arrive(h) PROVE BudgetsCover'
  <2>1. /\ \A k \in Handlers \ {h} : pc'[k] = pc[k] /\ job'[k] = job[k]
        /\ pc'[h] # "record" /\ UNCHANGED <<decision, remaining>>
    BY <1>1, <1>2 DEF Arrive, StartAuthorize, StartApprove, StartDeny, StartVerify, Start
  <2> QED BY <2>1, QuietCovers
<1>3. ASSUME NEW h \in Handlers, NEW v, Answer(h, v), UNCHANGED <<decision, remaining>>
      PROVE  BudgetsCover'
  <2>1. pc'[h] = "idle" /\ \A k \in Handlers \ {h} : pc'[k] = pc[k] /\ job'[k] = job[k]
    BY <1>1, <1>3 DEF Answer
  <2> QED BY <1>3, <2>1, QuietCovers
<1>4. ASSUME NEW h \in Handlers,
             \/ NoReplay(h) \/ PassGate(h) \/ MeetClosedGate(h) \/ PolicyDenies(h) \/ PolicyAllows(h)
             \/ RefuseBudget(h) \/ ClaimToApprove(h) \/ ClaimAuthorization(h)
      PROVE  BudgetsCover'
  <2>1. \A k \in Handlers \ {h} : pc'[k] = pc[k] /\ job'[k] = job[k]
    BY <1>1, <1>4 DEF NoReplay, PassGate, MeetClosedGate, PolicyDenies, PolicyAllows, RefuseBudget,
       ClaimToApprove, ClaimAuthorization, Decide
  <2>2. pc'[h] # "record" \/ job'[h].verdict # "ALLOW"
    BY <1>1, <1>4 DEF NoReplay, PassGate, MeetClosedGate, PolicyDenies, PolicyAllows, RefuseBudget,
       ClaimToApprove, ClaimAuthorization, Decide
  <2>3. UNCHANGED <<decision, remaining>>
    BY <1>4 DEF NoReplay, PassGate, MeetClosedGate, PolicyDenies, PolicyAllows, RefuseBudget,
       ClaimToApprove, ClaimAuthorization
  <2> QED BY <2>1, <2>2, <2>3, QuietCovers
<1>5. ASSUME NEW h \in Handlers,
             \/ Replay(h) \/ RecordConflicts(h) \/ ExpireApproval(h) \/ RefuseClaim(h)
             \/ CloseApproval(h) \/ ExpireAuthorization(h) \/ RefuseAuthorization(h)
             \/ ConsumeAuthorization(h) \/ Crash(h)
      PROVE  BudgetsCover'
  <2>1. (\E v : Answer(h, v)) /\ UNCHANGED <<decision, remaining>>
    BY <1>5 DEF Replay, RecordConflicts, ExpireApproval, RefuseClaim, CloseApproval,
       ExpireAuthorization, RefuseAuthorization, ConsumeAuthorization, Crash
  <2> QED BY <1>3, <2>1
<1>6. ASSUME Environment PROVE BudgetsCover'
  <2>1. UNCHANGED <<decision, remaining, pc>> /\ \A k \in Handlers : /\ job'[k].verdict = job[k].verdict
                                                                    /\ job'[k].payload = job[k].payload
    BY <1>1, <1>6 DEF Environment, CloseGate, OpenGate, LapseApproval, LapseAuthorization
  <2>2. Paying' = Paying /\ Holding' = Holding
    BY <2>1 DEF Paying, Holding
  <2>3. \A b \in Budgets : remaining[b] \in Nat /\ remaining'[b] = remaining[b]
    BY <2>1 DEF IInv, TypeOK
  <2>4. \A b \in Budgets : remaining'[b] <= remaining[b]
    BY <2>3
  <2> QED BY <2>1, <2>2, <2>4, CoverStays DEF Holding
<1>7. CASE UNCHANGED vars
  BY <1>7 DEF vars, BudgetsCover, Paying, Holding, Spent, Reserved, Price, Held
<1> QED BY <1>2, <1>4, <1>5, <1>6, <1>7, ReserveCovers, RecordCovers, DenialCovers
        DEF Next, Evaluate, Await

(* The units that are authorised and what is left of a budget never exceed *)
(* its limit: reservations that conflicts, crashes or lost answers leave   *)
(* behind only ever make the budget smaller (reserve_budget and the        *)
(* commit of the decision in evaluate_request).                            *)
THEOREM BudgetsAreNotOverspent == Spec => []NoOverspend
<1>1. Init => BudgetsCover
  <2> SUFFICES ASSUME Init PROVE BudgetsCover
    OBVIOUS
  <2>1. Paying = {} /\ Holding = {}
    BY DEF Init, NoDecision, Paying, Holding
  <2>2. Units(Price, {}) = {} /\ Units(Held, {}) = {}
    BY DEF Units
  <2>3. Spent = 0 /\ Reserved = 0 /\ IsFiniteSet(Paying) /\ IsFiniteSet(Holding)
    BY <2>1, <2>2, FS_EmptySet DEF Spent, Reserved
  <2>4. \A b \in Budgets : remaining[b] = Limit[b] /\ Limit[b] \in Nat
    BY LimitAssumption DEF Init
  <2> QED BY <2>3, <2>4 DEF BudgetsCover
<1>2. IInv /\ BudgetsCover /\ IInv' /\ [Next]_vars => BudgetsCover'
  BY NextCovers
<1>3. IInv /\ BudgetsCover => NoOverspend
  <2> SUFFICES ASSUME IInv, BudgetsCover, NEW b \in Budgets
               PROVE  remaining[b] + Authorised <= Limit[b]
    BY DEF NoOverspend
  <2>1. Authorised = Spent
    BY PricesKnown, AuthorisedIsSpent DEF BudgetsCover
  <2>2. Spent \in Nat /\ Reserved \in Nat
    BY PricesKnown, UnitsAreFinite DEF BudgetsCover, Spent, Reserved
  <2>3. remaining[b] \in Nat /\ Limit[b] \in Nat
    BY LimitAssumption DEF IInv, TypeOK
  <2> QED BY <2>1, <2>2, <2>3 DEF BudgetsCover
<1> QED BY <1>1, <1>2, <1>3, InductiveInvariant, PTL DEF Spec
=============================================================================
