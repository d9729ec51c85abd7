--------------------------- MODULE InvocationProofs ---------------------------
(***************************************************************************)
(* Proofs about AgentRuntime, for any number of runs and transfers, about  *)
(* AuthzPolicy, for any rows, permissions and requests, and about          *)
(* AgentInvocation, which composes them: a run reports what the ledger     *)
(* says, what gets past the policy is granted by an enabled permission,    *)
(* and nothing else is executed.                                           *)
(***************************************************************************)
EXTENDS AgentInvocation, TLAPS

(* Runs. Every step concerns one run, so the invariant speaks of one run,  *)
(* its entry and its call at a time.                                       *)

Stages == {"ready", "authorizing", "verifying", "ended"}
Statuses == {"none", "ERROR", "REJECTED", "NETWORK_FAILURE", "DENIED", "PENDING_APPROVAL",
             "EXECUTED", "EXECUTION_FAILED", "exception"}
Runs == [stage : Stages, transfer : Payloads \cup {NoPayload}, status : Statuses]

Calls == [path : {"none", "authorize", "verify"},
          answer : Outcomes \cup {"none", "VERIFIED", "refused", Broken}]

Entries == [verdict : Outcomes \cup {"none"}, payload : Payloads \cup {NoPayload},
            use : {"none", "ISSUED", "CONSUMED", "EXPIRED"}, uses : Nat]

RuntimeTypes ==
  ledger \in [Ids -> Entries] /\ run \in [Ids -> Runs] /\ wire \in [Ids -> Calls]

\* An entry: only what was allowed is used, and used once.
EntryHolds(e, r) ==
  /\ e.verdict # "none" => e.payload = r.transfer
  /\ e.use = "ISSUED" => e.verdict = "ALLOW" /\ e.uses = 0
  /\ e.uses > 0 => e.verdict = "ALLOW"

\* A call under way: what its answer says was so, and a verification that has
\* not been answered has not used the entry.
WireHolds(e, w) ==
  /\ w.path # "verify" => w.answer # "VERIFIED"
  /\ w.path = "authorize" /\ w.answer \in {"none", "refused"} => e.verdict = "none"
  /\ w.path # "authorize" => w.answer \notin Outcomes
  /\ w.path = "authorize" => e.uses = 0
  /\ w.path = "verify" /\ w.answer = "none" => e.uses = 0
  /\ w.answer \in Outcomes => e.verdict = w.answer
  /\ w.answer = "VERIFIED" => e.verdict = "ALLOW" /\ e.uses = 1

\* A run that waits has the call it waits for; one that has ended told the
\* truth, and left no call behind that could change it.
StatusHolds(e, r, w) ==
  /\ r.stage = "ready" => e.verdict = "none" /\ e.uses = 0 /\ w.path = "none"
  /\ r.stage = "authorizing" => w.path = "authorize"
  /\ r.stage = "verifying" => w.path = "verify"
  /\ r.stage # "ended" <=> r.status = "none"
  /\ r.status = "EXECUTED" => e.verdict = "ALLOW" /\ e.uses = 1 /\ w.path = "none"
  /\ r.status \in {"DENIED", "PENDING_APPROVAL"} =>
       e.verdict # "ALLOW" /\ e.uses = 0 /\ w.path = "none"
  /\ r.status \in {"ERROR", "REJECTED"} => e.uses = 0 /\ w.path = "none"
  /\ r.status = "NETWORK_FAILURE" => e.uses = 0 /\ w.path = "authorize"

RunHolds(e, r, w) == EntryHolds(e, r) /\ WireHolds(e, w) /\ StatusHolds(e, r, w)

RuntimeInv == RuntimeTypes /\ \A i \in Ids : RunHolds(ledger[i], run[i], wire[i])

-----------------------------------------------------------------------------
(* A step that changes at most entry, run and call of one id keeps the     *)
(* invariant when it keeps it for that id.                                 *)
LEMMA OneRunChanges ==
  ASSUME RuntimeInv, NEW i \in Ids, NEW e \in Entries, NEW r \in Runs, NEW w \in Calls,
         ledger' = [ledger EXCEPT ![i] = e], run' = [run EXCEPT ![i] = r],
         wire' = [wire EXCEPT ![i] = w], RunHolds(e, r, w)
  PROVE  RuntimeInv'
<1>1. RuntimeTypes'
  BY DEF RuntimeInv, RuntimeTypes
<1>2. ASSUME NEW j \in Ids PROVE RunHolds(ledger'[j], run'[j], wire'[j])
  <2>1. CASE j = i BY <2>1 DEF RuntimeInv, RuntimeTypes
  <2>2. CASE j # i BY <2>2 DEF RuntimeInv, RuntimeTypes
  <2>3. QED BY <2>1, <2>2
<1>3. QED BY <1>1, <1>2 DEF RuntimeInv

LEMMA Unchanged ==
  ASSUME RuntimeInv, NEW i \in Ids
  PROVE  /\ ledger[i] \in Entries /\ run[i] \in Runs /\ wire[i] \in Calls
         /\ RunHolds(ledger[i], run[i], wire[i])
         /\ UNCHANGED ledger => ledger' = [ledger EXCEPT ![i] = ledger[i]]
         /\ UNCHANGED run => run' = [run EXCEPT ![i] = run[i]]
         /\ UNCHANGED wire => wire' = [wire EXCEPT ![i] = wire[i]]
BY DEF RuntimeInv, RuntimeTypes

LEMMA AnsweredType ==
  ASSUME NEW path \in {"authorize", "verify"},
         NEW a \in Outcomes \cup {"none", "VERIFIED", "refused", Broken}
  PROVE  /\ Answered(path, a) \in Calls
         /\ Answered(path, a).path = path /\ Answered(path, a).answer = a
BY DEF Answered, Calls

LEMMA CallTypes ==
  /\ NoCall \in Calls /\ NoCall.path = "none" /\ NoCall.answer = "none"
  /\ \A path \in {"authorize", "verify"} :
       Sent(path) \in Calls /\ Sent(path).path = path /\ Sent(path).answer = "none"
  /\ Broken \notin Outcomes /\ Broken \notin {"none", "VERIFIED", "refused"}
BY DEF NoCall, Sent, Calls, Broken, Outcomes

-----------------------------------------------------------------------------
(* Server                                                                  *)

LEMMA AuthorizeStep ==
  ASSUME RuntimeInv, NEW i \in Ids, Authorize(i)
  PROVE  RuntimeInv'
<1>1. PICK verdict \in Outcomes, a \in Outcomes \cup {Broken} :
        /\ a \in {verdict, Broken}
        /\ ledger' = [ledger EXCEPT ![i] = Entry(verdict, run[i].transfer)]
        /\ wire' = [wire EXCEPT ![i] = Answered("authorize", a)]
  BY DEF Authorize
<1>2. /\ wire[i].path = "authorize" /\ wire[i].answer = "none"
      /\ run' = [run EXCEPT ![i] = run[i]]
  BY Unchanged, CallTypes DEF Authorize
<1>3. PICK e \in Entries : e = Entry(verdict, run[i].transfer)
  BY Unchanged DEF Entry, Entries, Runs, Outcomes
<1>4. e.verdict = verdict /\ e.payload = run[i].transfer /\ e.uses = 0
      /\ (e.use = "ISSUED" => verdict = "ALLOW")
  BY <1>3 DEF Entry
<1>5. PICK w \in Calls : w = Answered("authorize", a) /\ w.path = "authorize" /\ w.answer = a
  BY AnsweredType
<1>6. RunHolds(e, run[i], w)
  <2>1. EntryHolds(e, run[i]) BY <1>4 DEF EntryHolds
  <2>2. WireHolds(e, w)
    BY <1>1, <1>4, <1>5, CallTypes DEF WireHolds, Outcomes, Broken
  <2>3. StatusHolds(ledger[i], run[i], wire[i])
    BY Unchanged DEF RunHolds
  <2>4. StatusHolds(e, run[i], w)
    BY <1>2, <1>4, <1>5, <2>3 DEF StatusHolds
  <2>5. QED BY <2>1, <2>2, <2>4 DEF RunHolds
<1>7. QED BY <1>1, <1>2, <1>3, <1>5, <1>6, Unchanged, OneRunChanges

LEMMA VerifyStep ==
  ASSUME RuntimeInv, NEW i \in Ids, Verify(i)
  PROVE  RuntimeInv'
<1>1. PICK a \in {"VERIFIED", Broken} : wire' = [wire EXCEPT ![i] = Answered("verify", a)]
  BY DEF Verify
<1>2. /\ wire[i].path = "verify" /\ wire[i].answer = "none" /\ ledger[i].use = "ISSUED"
      /\ run' = [run EXCEPT ![i] = run[i]]
  BY Unchanged, CallTypes DEF Verify, Verified
<1>3. ledger' = [ledger EXCEPT ![i] = Used(ledger[i])]
  BY DEF Verify, UseEntry
<1>4. ledger[i] \in Entries /\ ledger[i].uses = 0 /\ ledger[i].verdict = "ALLOW"
      /\ ledger[i].payload = run[i].transfer
  BY <1>2, Unchanged DEF RunHolds, EntryHolds
<1>5. PICK e \in Entries : e = Used(ledger[i])
  <2>1. Used(ledger[i]) \in Entries
    BY <1>4 DEF Used, Entries
  <2>2. QED BY <2>1
<1>6. e.verdict = "ALLOW" /\ e.payload = run[i].transfer /\ e.uses = 1 /\ e.use = "CONSUMED"
  BY <1>4, <1>5 DEF Used
<1>7. PICK w \in Calls : w = Answered("verify", a) /\ w.path = "verify" /\ w.answer = a
  BY AnsweredType
<1>8. RunHolds(e, run[i], w)
  BY <1>2, <1>6, <1>7, Unchanged, CallTypes
  DEF RunHolds, EntryHolds, WireHolds, StatusHolds, Outcomes
<1>9. QED BY <1>1, <1>2, <1>3, <1>5, <1>7, <1>8, Unchanged, OneRunChanges

\* An entry that has expired.
Lapsed(e) == [e EXCEPT !.use = "EXPIRED"]

LEMMA RefuseStep ==
  ASSUME RuntimeInv, NEW i \in Ids, RefuseToVerify(i)
  PROVE  RuntimeInv'
<1>1. PICK a \in {"refused", Broken} : wire' = [wire EXCEPT ![i] = Answered("verify", a)]
  BY DEF RefuseToVerify
<1>2. /\ wire[i].path = "verify" /\ wire[i].answer = "none"
      /\ run' = [run EXCEPT ![i] = run[i]]
  BY Unchanged, CallTypes DEF RefuseToVerify
<1>3. ledger[i] \in Entries /\ ledger[i].uses = 0
  BY <1>2, Unchanged DEF RunHolds, WireHolds
<1>4. PICK e \in Entries :
        /\ ledger' = [ledger EXCEPT ![i] = e]
        /\ e.verdict = ledger[i].verdict /\ e.payload = ledger[i].payload /\ e.uses = 0
        /\ e.use = "ISSUED" => ledger[i].use = "ISSUED"
  <2>1. CASE ExpireEntry(i)
    <3>1. ledger' = [ledger EXCEPT ![i] = Lapsed(ledger[i])]
      BY <2>1, <1>3 DEF ExpireEntry, Lapsed
    <3>2. Lapsed(ledger[i]) \in Entries
      BY <1>3 DEF Lapsed, Entries
    <3>3. /\ Lapsed(ledger[i]).verdict = ledger[i].verdict /\ Lapsed(ledger[i]).uses = 0
          /\ Lapsed(ledger[i]).payload = ledger[i].payload
          /\ Lapsed(ledger[i]).use = "EXPIRED"
      BY <1>3 DEF Lapsed, Entries
    <3>4. QED BY <3>1, <3>2, <3>3
  <2>2. CASE UNCHANGED ledger
    BY <2>2, <1>3, Unchanged
  <2>3. QED BY <2>1, <2>2 DEF RefuseToVerify
<1>5. PICK w \in Calls : w = Answered("verify", a) /\ w.path = "verify" /\ w.answer = a
  BY AnsweredType
<1>6. RunHolds(e, run[i], w)
  <2>1. RunHolds(ledger[i], run[i], wire[i])
    BY Unchanged
  <2>2. EntryHolds(e, run[i])
    BY <1>3, <1>4, <2>1 DEF RunHolds, EntryHolds
  <2>3. WireHolds(e, w)
    BY <1>3, <1>4, <1>5, CallTypes DEF WireHolds, Outcomes, Broken
  <2>4. StatusHolds(e, run[i], w)
    BY <1>2, <1>3, <1>4, <1>5, <2>1 DEF RunHolds, StatusHolds
  <2>5. QED BY <2>2, <2>3, <2>4 DEF RunHolds
<1>7. QED BY <1>1, <1>2, <1>4, <1>5, <1>6, Unchanged, OneRunChanges

LEMMA RefuseAuthorizationStep ==
  ASSUME RuntimeInv, NEW i \in Ids, RefuseToAuthorize(i)
  PROVE  RuntimeInv'
<1>1. /\ wire[i].path = "authorize" /\ wire[i].answer = "none"
      /\ ledger' = [ledger EXCEPT ![i] = ledger[i]] /\ run' = [run EXCEPT ![i] = run[i]]
      /\ wire' = [wire EXCEPT ![i] = Answered("authorize", "refused")]
  BY Unchanged, CallTypes DEF RefuseToAuthorize
<1>2. PICK w \in Calls :
        w = Answered("authorize", "refused") /\ w.path = "authorize" /\ w.answer = "refused"
  BY AnsweredType
<1>3. RunHolds(ledger[i], run[i], w)
  BY <1>1, <1>2, Unchanged DEF RunHolds, EntryHolds, WireHolds, StatusHolds, Outcomes
<1>4. QED BY <1>1, <1>2, <1>3, Unchanged, OneRunChanges

LEMMA FailStep ==
  ASSUME RuntimeInv, NEW i \in Ids, FailCall(i)
  PROVE  RuntimeInv'
<1>1. /\ wire[i] \in Calls /\ wire[i].path \in {"authorize", "verify"} /\ wire[i].answer = "none"
      /\ ledger' = [ledger EXCEPT ![i] = ledger[i]] /\ run' = [run EXCEPT ![i] = run[i]]
  BY Unchanged DEF FailCall, Calls
<1>2. PICK w \in Calls :
        w = Answered(wire[i].path, Broken) /\ w.path = wire[i].path /\ w.answer = Broken
  BY <1>1, AnsweredType
<1>3. [wire[i] EXCEPT !.answer = Broken] = Answered(wire[i].path, Broken)
  BY <1>1 DEF Answered, Calls
<1>4. wire' = [wire EXCEPT ![i] = w]
  BY <1>1, <1>2, <1>3 DEF FailCall
<1>5. RunHolds(ledger[i], run[i], w)
  BY <1>1, <1>2, Unchanged, CallTypes
  DEF RunHolds, EntryHolds, WireHolds, StatusHolds, Outcomes
<1>6. QED BY <1>1, <1>2, <1>4, <1>5, Unchanged, OneRunChanges

-----------------------------------------------------------------------------
(* Run                                                                     *)

\* A run at another stage.
Ended(r, status) == [r EXCEPT !.stage = "ended", !.status = status]

LEMMA EndedType ==
  ASSUME NEW r \in Runs, NEW status \in Statuses
  PROVE  /\ Ended(r, status) \in Runs /\ Ended(r, status).transfer = r.transfer
         /\ Ended(r, status).stage = "ended" /\ Ended(r, status).status = status
<1>1. Ended(r, status) \in Runs
  BY DEF Ended, Runs, Stages
<1>2. QED BY <1>1 DEF Ended, Runs, Stages

LEMMA EndStep ==
  ASSUME NEW i \in Ids, NEW status, End(i, status)
  PROVE  run' = [run EXCEPT ![i] = Ended(run[i], status)]
BY DEF End, Ended

(* A run that ends without hearing anything.                               *)
LEMMA SilentEnd ==
  ASSUME RuntimeInv, NEW i \in Ids, run[i].stage \in {"ready", "authorizing", "verifying"},
         NEW status \in {"ERROR", "REJECTED", "NETWORK_FAILURE", "EXECUTION_FAILED", "exception"},
         status \in {"ERROR", "REJECTED"} => run[i].stage = "ready",
         status = "NETWORK_FAILURE" => run[i].stage = "authorizing",
         End(i, status), UNCHANGED <<ledger, wire>>
  PROVE  RuntimeInv'
<1>1. PICK r \in Runs : /\ r = Ended(run[i], status) /\ r.transfer = run[i].transfer
                        /\ r.stage = "ended" /\ r.status = status
  BY Unchanged, EndedType DEF Statuses
<1>2. run' = [run EXCEPT ![i] = r]
  BY <1>1, EndStep
<1>3. ledger[i] \in Entries /\ wire[i] \in Calls
      /\ ledger' = [ledger EXCEPT ![i] = ledger[i]] /\ wire' = [wire EXCEPT ![i] = wire[i]]
  BY Unchanged
<1>4. RunHolds(ledger[i], r, wire[i])
  BY <1>1, Unchanged, CallTypes DEF RunHolds, EntryHolds, WireHolds, StatusHolds
<1>5. QED BY <1>2, <1>3, <1>4, OneRunChanges

LEMMA RequestStep ==
  ASSUME RuntimeInv, NEW i \in Ids, NEW p \in Payloads, RequestAuthorization(i, p)
  PROVE  RuntimeInv'
<1>1. PICK r \in Runs :
        /\ run' = [run EXCEPT ![i] = r]
        /\ r.stage = "authorizing" /\ r.transfer = p /\ r.status = run[i].status
  <2>1. [run[i] EXCEPT !.stage = "authorizing", !.transfer = p] \in Runs
    BY Unchanged DEF Runs, Stages
  <2>2. run' = [run EXCEPT ![i] = [run[i] EXCEPT !.stage = "authorizing", !.transfer = p]]
    BY DEF RequestAuthorization
  <2>3. QED BY <2>1, <2>2, Unchanged DEF Runs
<1>2. run[i].stage = "ready" /\ wire' = [wire EXCEPT ![i] = Sent("authorize")]
      /\ ledger' = [ledger EXCEPT ![i] = ledger[i]]
  <2>1. run[i] = Ready /\ wire' = [wire EXCEPT ![i] = Sent("authorize")] /\ UNCHANGED ledger
    BY DEF RequestAuthorization
  <2>2. run[i].stage = "ready" BY <2>1 DEF Ready
  <2>3. QED BY <2>1, <2>2, Unchanged
<1>3. PICK w \in Calls : w = Sent("authorize") /\ w.path = "authorize" /\ w.answer = "none"
  BY CallTypes
<1>4. ledger[i].verdict = "none" /\ ledger[i].uses = 0 /\ run[i].status = "none"
  BY <1>2, Unchanged DEF RunHolds, StatusHolds
<1>5. RunHolds(ledger[i], r, w)
  BY <1>1, <1>3, <1>4, Unchanged DEF RunHolds, EntryHolds, WireHolds, StatusHolds, Outcomes
<1>6. QED BY <1>1, <1>2, <1>3, <1>5, Unchanged, OneRunChanges

(* A run that ends with what it hears: the call is over.                   *)
LEMMA HeardEnd ==
  ASSUME RuntimeInv, NEW i \in Ids, run[i].stage \in {"authorizing", "verifying"},
         NEW status \in {"DENIED", "PENDING_APPROVAL", "EXECUTED", "EXECUTION_FAILED", "exception"},
         status = "DENIED" =>
           run[i].stage = "authorizing" /\ wire[i].answer \in {"DENY", "refused"},
         status = "PENDING_APPROVAL" => wire[i].answer = "PENDING_APPROVAL",
         status = "EXECUTED" => wire[i].answer = "VERIFIED",
         End(i, status), wire' = [wire EXCEPT ![i] = NoCall], UNCHANGED ledger
  PROVE  RuntimeInv'
<1>1. PICK r \in Runs : /\ r = Ended(run[i], status) /\ r.transfer = run[i].transfer
                        /\ r.stage = "ended" /\ r.status = status
  <2>1. status \in Statuses BY DEF Statuses
  <2>2. run[i] \in Runs BY Unchanged
  <2>3. QED BY <2>1, <2>2, EndedType
<1>2. run' = [run EXCEPT ![i] = r] /\ ledger' = [ledger EXCEPT ![i] = ledger[i]]
  BY <1>1, EndStep, Unchanged
<1>3. PICK w \in Calls : w = NoCall /\ w.path = "none" /\ w.answer = "none"
  BY CallTypes
<1>4. RunHolds(ledger[i], r, w)
  BY <1>1, <1>3, Unchanged DEF RunHolds, EntryHolds, WireHolds, StatusHolds, Outcomes
<1>5. QED BY <1>2, <1>3, <1>4, Unchanged, OneRunChanges

LEMMA HearDecisionStep ==
  ASSUME RuntimeInv, NEW i \in Ids, HearDecision(i)
  PROVE  RuntimeInv'
<1>1. CASE wire[i].answer = "ALLOW"
  <2>1. /\ run' = [run EXCEPT ![i] = [run[i] EXCEPT !.stage = "verifying"]]
        /\ wire' = [wire EXCEPT ![i] = Sent("verify")]
        /\ ledger' = [ledger EXCEPT ![i] = ledger[i]]
        /\ run[i].stage = "authorizing"
    BY <1>1, Unchanged DEF HearDecision
  <2>2. PICK r \in Runs : /\ r = [run[i] EXCEPT !.stage = "verifying"]
                          /\ r.stage = "verifying" /\ r.transfer = run[i].transfer
                          /\ r.status = run[i].status
    <3>1. [run[i] EXCEPT !.stage = "verifying"] \in Runs
      BY Unchanged DEF Runs, Stages
    <3>2. QED BY <3>1, Unchanged DEF Runs
  <2>3. PICK w \in Calls : w = Sent("verify") /\ w.path = "verify" /\ w.answer = "none"
    BY CallTypes
  <2>4. RunHolds(ledger[i], r, w)
    BY <2>1, <2>2, <2>3, Unchanged DEF RunHolds, EntryHolds, WireHolds, StatusHolds, Outcomes
  <2>5. QED BY <2>1, <2>2, <2>3, <2>4, Unchanged, OneRunChanges
<1>2. CASE wire[i].answer # "ALLOW"
  <2>1. PICK status \in {"DENIED", "PENDING_APPROVAL", "exception"} :
          /\ End(i, status)
          /\ status = "DENIED" =>
               run[i].stage = "authorizing" /\ wire[i].answer \in {"DENY", "refused"}
          /\ status = "PENDING_APPROVAL" => wire[i].answer = "PENDING_APPROVAL"
    BY <1>2 DEF HearDecision
  <2>2. QED BY <1>2, <2>1, HeardEnd DEF HearDecision
<1>3. QED BY <1>1, <1>2

LEMMA HearVerificationStep ==
  ASSUME RuntimeInv, NEW i \in Ids, HearVerification(i)
  PROVE  RuntimeInv'
<1>1. PICK status \in {"EXECUTED", "EXECUTION_FAILED", "exception"} :
        End(i, status) /\ (status = "EXECUTED" => wire[i].answer = "VERIFIED")
  BY DEF HearVerification
<1>2. QED BY <1>1, HeardEnd DEF HearVerification

LEMMA EndStatusStep ==
  ASSUME RuntimeInv, NEW i \in Ids, EndWithoutTransfer(i) \/ GiveUp(i) \/ CrashRun(i)
  PROVE  RuntimeInv'
<1>1. CASE EndWithoutTransfer(i)
  BY <1>1, SilentEnd DEF EndWithoutTransfer, Ready
<1>2. CASE GiveUp(i)
  BY <1>2, SilentEnd DEF GiveUp
<1>3. CASE CrashRun(i)
  BY <1>3, SilentEnd DEF CrashRun
<1>4. QED BY <1>1, <1>2, <1>3

-----------------------------------------------------------------------------
LEMMA RuntimeInitInv == RunInit => RuntimeInv
<1>1. SUFFICES ASSUME RunInit PROVE RuntimeInv
  OBVIOUS
<1>2. Open \in Entries /\ Ready \in Runs
  BY DEF Open, Entries, Ready, Runs, Stages, Statuses
<1>3. RuntimeTypes
  BY <1>1, <1>2, CallTypes DEF RunInit, LedgerInit, RuntimeTypes
<1>4. RunHolds(Open, Ready, NoCall)
  BY DEF RunHolds, EntryHolds, WireHolds, StatusHolds, Open, Ready, NoCall, Outcomes
<1>5. QED BY <1>1, <1>3, <1>4 DEF RuntimeInv, RunInit, LedgerInit

LEMMA RuntimeNextInv == RuntimeInv /\ [RunNext]_runtimeVars => RuntimeInv'
<1>1. SUFFICES ASSUME RuntimeInv, [RunNext]_runtimeVars PROVE RuntimeInv'
  OBVIOUS
<1>2. CASE RunNext
  BY <1>1, <1>2, AuthorizeStep, VerifyStep, RefuseAuthorizationStep, RefuseStep, FailStep,
     RequestStep, HearDecisionStep, HearVerificationStep, EndStatusStep DEF RunNext
<1>3. CASE UNCHANGED runtimeVars
  BY <1>1, <1>3 DEF RuntimeInv, RuntimeTypes, runtimeVars
<1>4. QED BY <1>1, <1>2, <1>3

LEMMA RuntimeInvImplies == RuntimeInv => ReportsAgreeWithLedger
<1>1. SUFFICES ASSUME RuntimeInv, NEW i \in Ids
      PROVE  /\ run[i].status = "EXECUTED" =>
                  /\ ledger[i].verdict = "ALLOW" /\ ledger[i].payload = run[i].transfer
                  /\ ledger[i].uses = 1
             /\ run[i].status \in {"DENIED", "PENDING_APPROVAL"} =>
                  ledger[i].verdict # "ALLOW" /\ ledger[i].uses = 0
             /\ run[i].status \in {"ERROR", "REJECTED", "NETWORK_FAILURE"} => ledger[i].uses = 0
             /\ ledger[i].uses > 0 =>
                  \/ run[i].stage = "verifying"
                  \/ run[i].status \in {"EXECUTED", "EXECUTION_FAILED", "exception"}
  BY DEF ReportsAgreeWithLedger
<1>2. run[i] \in Runs /\ ledger[i] \in Entries /\ RunHolds(ledger[i], run[i], wire[i])
  BY <1>1, Unchanged
<1>3. QED BY <1>2 DEF RunHolds, EntryHolds, WireHolds, StatusHolds, Runs, Stages, Statuses,
                      Entries

(* What a run reports agrees with the ledger, now and ever after, although *)
(* the server executes calls that the run has given up (agent/runtime.py,  *)
(* routers/execution.py).                                                  *)
THEOREM ReportsAgree == RunSpec => []ReportsAgreeWithLedger
<1>1. RunSpec => []RuntimeInv
  BY RuntimeInitInv, RuntimeNextInv, PTL DEF RunSpec
<1>2. QED BY <1>1, RuntimeInvImplies, PTL

-----------------------------------------------------------------------------
(* The policy. The invariant follows a permission from the table into the  *)
(* answer of the query and from there into the verdict; the invariant of   *)
(* the composition follows the verdict into the ledger.                    *)

\* Every row there is has been seen, and what stayed is there.
TableSeen ==
  /\ table \in [Rows -> Permissions \cup {Gone}]
  /\ seen \subseteq Permissions
  /\ stayed \subseteq Present
  /\ job # Idle => \A r \in Present : table[r] \in seen

\* The query returned enabled permissions only, and those that stayed among them.
QuerySeen ==
  job.stage = "resolved" =>
    /\ \A p \in job.permissions : p \in seen /\ p.enabled
    /\ \A r \in stayed : table[r].enabled => table[r] \in job.permissions

Permitted == {"permitted", "ALLOW", "PENDING_APPROVAL"}

OnAction(q) == {p \in seen : p.action = q.action}

\* The threshold that was compared is the one of a row, or there was no row.
ThresholdSeen ==
  /\ job.stage = "PENDING_APPROVAL" =>
       \E p \in OnAction(job.request) : Exceeds(job.request, p.requires_approval_above)
  /\ job.stage = "ALLOW" /\ ~job.request.skip_approval_check =>
       \/ \E p \in OnAction(job.request) : ~Exceeds(job.request, p.requires_approval_above)
       \/ \A r \in stayed : table[r].action # job.request.action

VerdictSeen ==
  /\ job.stage \in Permitted => \E p \in seen : Grants(p, job.request)
  /\ job.reason = "PERMISSION_DENIED" => \A r \in stayed : ~Grants(table[r], job.request)

JobStages == Permitted \cup {"idle", "gated", "resolved", "DENY"}
Reasons == {"INFRASTRUCTURE_FAILURE", "PERMISSION_DENIED", "POLICY_EVALUATION_FAILED",
            "POLICY_DENY", "none"}

\* A request is denied with a reason.
JobType ==
  /\ job \in [stage : JobStages, request : Requests \cup {Null},
              permissions : SUBSET Permissions, reason : Reasons]
  /\ job.stage # "DENY" => job.reason = "none"

PolicyInv == JobType /\ TableSeen /\ QuerySeen /\ VerdictSeen /\ ThresholdSeen

-----------------------------------------------------------------------------
(* The rules of authz.rego and the direct reading agree about a permission *)
(* that is enabled.                                                        *)
LEMMA RulesGrant ==
  ASSUME NEW p \in Permissions, NEW q, p.enabled
  PROVE  Grants(p, q) <=> /\ p.action = q.action
                          /\ is_amount_allowed(p, q)
                          /\ is_currency_allowed(p, q)
                          /\ is_account_allowed(p, q)
<1>1. ~Missing(p, "max_amount") /\ ~Missing(p, "allowed_currencies")
      /\ ~Missing(p, "allowed_accounts")
  BY PermissionsAssumption DEF Missing
<1>2. is_currency_allowed(p, q) <=>
        /\ p.allowed_currencies # Null
        /\ p.allowed_currencies = {} \/ q.currency \in p.allowed_currencies
  BY <1>1, NullAssumption DEF is_currency_allowed, CountIsZero, In
<1>3. is_account_allowed(p, q) <=>
        /\ p.allowed_accounts # Null
        /\ p.allowed_accounts = {} \/ q.resource_id \in p.allowed_accounts
  BY <1>1, NullAssumption DEF is_account_allowed, CountIsZero, In
<1>4. is_amount_allowed(p, q) <=> p.max_amount # Null /\ q.amount <= p.max_amount
  BY <1>1 DEF is_amount_allowed, AtLeast
<1>5. QED BY <1>2, <1>3, <1>4 DEF Grants

LEMMA TableSteps ==
  ASSUME PolicyInv,
         \/ \E r \in Rows, p \in Permissions : CreatePermission(r, p)
         \/ \E r \in Rows : DeletePermission(r)
  PROVE  PolicyInv'
<1>1. CASE \E r \in Rows, p \in Permissions : CreatePermission(r, p)
  <2>1. PICK r \in Rows, p \in Permissions : CreatePermission(r, p)
    BY <1>1
  <2>2. /\ table' = [table EXCEPT ![r] = p] /\ table[r] = Gone
        /\ UNCHANGED <<job, stayed>>
        /\ job = Idle => UNCHANGED seen
        /\ job # Idle => seen' = seen \cup {p}
    BY <2>1 DEF CreatePermission
  <2>3. \A s \in stayed : table'[s] = table[s] /\ s # r
    BY <2>2 DEF PolicyInv, TableSeen, Present
  <2>4. seen \subseteq seen' /\ seen' \subseteq Permissions
    BY <2>2 DEF PolicyInv, TableSeen
  <2>5. TableSeen'
    <3>1. Present' = Present \cup {r}
      BY <2>2, NullAssumption DEF PolicyInv, TableSeen, Present, Gone
    <3>2. job' # Idle => \A s \in Present' : table'[s] \in seen'
      BY <2>2, <3>1 DEF PolicyInv, TableSeen
    <3>3. table' \in [Rows -> Permissions \cup {Gone}]
      BY <2>2 DEF PolicyInv, TableSeen
    <3>4. QED BY <2>2, <2>4, <3>1, <3>2, <3>3 DEF PolicyInv, TableSeen
  <2>6. QuerySeen'
    BY <2>2, <2>3, <2>4 DEF PolicyInv, QuerySeen
  <2>7. VerdictSeen'
    BY <2>2, <2>3, <2>4 DEF PolicyInv, VerdictSeen
  <2>8. ThresholdSeen'
    BY <2>2, <2>3, <2>4 DEF PolicyInv, ThresholdSeen, OnAction
  <2>9. QED BY <2>2, <2>5, <2>6, <2>7, <2>8 DEF PolicyInv, JobType
<1>2. CASE \E r \in Rows : DeletePermission(r)
  <2>1. PICK r \in Rows : DeletePermission(r)
    BY <1>2
  <2>2. /\ table' = [table EXCEPT ![r] = Gone] /\ stayed' = stayed \ {r}
        /\ UNCHANGED <<job, seen>>
    BY <2>1 DEF DeletePermission
  <2>3. \A s \in stayed' : s \in stayed /\ table'[s] = table[s]
    BY <2>2 DEF PolicyInv, TableSeen, Present
  <2>4. TableSeen'
    <3>1. Present' = Present \ {r} /\ \A s \in Present' : table'[s] = table[s]
      BY <2>2 DEF PolicyInv, TableSeen, Present
    <3>2. table' \in [Rows -> Permissions \cup {Gone}]
      BY <2>2 DEF PolicyInv, TableSeen
    <3>3. QED BY <2>2, <3>1, <3>2 DEF PolicyInv, TableSeen
  <2>5. QuerySeen'
    BY <2>2, <2>3 DEF PolicyInv, QuerySeen
  <2>6. VerdictSeen'
    BY <2>2, <2>3 DEF PolicyInv, VerdictSeen
  <2>7. ThresholdSeen'
    BY <2>2, <2>3 DEF PolicyInv, ThresholdSeen, OnAction
  <2>8. QED BY <2>2, <2>4, <2>5, <2>6, <2>7 DEF PolicyInv, JobType
<1>3. QED BY <1>1, <1>2

(* A denial for another reason than a missing permission claims nothing.   *)
LEMMA DenySteps ==
  ASSUME PolicyInv, job # Idle, UNCHANGED <<table, seen, stayed>>,
         NEW reason \in Reasons, Deny(reason), job.stage # "DENY",
         reason = "PERMISSION_DENIED" => \A r \in stayed : ~Grants(table[r], job.request)
  PROVE  PolicyInv'
<1>1. JobType' /\ job'.stage = "DENY" /\ job'.reason = reason /\ job'.request = job.request
  BY DEF Deny, PolicyInv, JobType, JobStages, Reasons, Permitted
<1>2. QED BY <1>1 DEF PolicyInv, TableSeen, QuerySeen, VerdictSeen, ThresholdSeen, Present,
                      Permitted

LEMMA ArriveStep ==
  ASSUME PolicyInv, NEW q \in Requests, Arrive(q)
  PROVE  PolicyInv'
<1>1. job' = [stage |-> "gated", request |-> q, permissions |-> {}, reason |-> "none"]
  BY DEF Arrive, Idle
<1>2. JobType' BY <1>1 DEF JobType, JobStages, Reasons
<1>3. TableSeen'
  BY DEF Arrive, PolicyInv, TableSeen, Present
<1>4. QuerySeen' /\ VerdictSeen' /\ ThresholdSeen'
  BY <1>1 DEF QuerySeen, VerdictSeen, ThresholdSeen, Permitted
<1>5. QED BY <1>2, <1>3, <1>4 DEF PolicyInv

LEMMA ReadStep ==
  ASSUME PolicyInv, ReadPermissions
  PROVE  PolicyInv'
<1>1. /\ job.stage = "gated" /\ job # Idle /\ UNCHANGED <<table, seen, stayed>>
  BY DEF ReadPermissions, At, Idle
<1>2. CASE Deny("INFRASTRUCTURE_FAILURE")
  BY <1>1, <1>2, DenySteps DEF Reasons
<1>3. CASE job' = [job EXCEPT !.stage = "resolved",
                     !.permissions = {table[r] : r \in {s \in Present : table[s].enabled}}]
  <2>1. {table[r] : r \in {s \in Present : table[s].enabled}} \subseteq Permissions
    BY DEF PolicyInv, TableSeen, Present
  <2>2. JobType'
    BY <1>1, <1>3, <2>1 DEF PolicyInv, JobType, JobStages
  <2>3. /\ job'.stage = "resolved" /\ job'.reason = "none"
        /\ job'.permissions = {table[r] : r \in {s \in Present : table[s].enabled}}
    BY <1>1, <1>3 DEF PolicyInv, JobType
  <2>4. QuerySeen'
    BY <1>1, <2>3 DEF PolicyInv, TableSeen, QuerySeen
  <2>5. TableSeen' BY <1>1 DEF PolicyInv, TableSeen, Present
  <2>6. VerdictSeen' /\ ThresholdSeen'
    BY <2>3 DEF VerdictSeen, ThresholdSeen, Permitted
  <2>7. QED BY <2>2, <2>4, <2>5, <2>6 DEF PolicyInv
<1>4. QED BY <1>2, <1>3 DEF ReadPermissions

LEMMA EvaluateStep ==
  ASSUME PolicyInv, EvaluatePolicy
  PROVE  PolicyInv'
<1>1. /\ job.stage = "resolved" /\ job # Idle /\ UNCHANGED <<table, seen, stayed>>
  BY DEF EvaluatePolicy, At, Idle
<1>2. CASE Deny("POLICY_EVALUATION_FAILED") \/ Deny("POLICY_DENY")
  BY <1>1, <1>2, DenySteps DEF Reasons
<1>3. CASE ~has_permission(job.permissions, job.request) /\ Deny("PERMISSION_DENIED")
  <2>1. \A r \in stayed : ~Grants(table[r], job.request)
    <3>1. SUFFICES ASSUME NEW r \in stayed, Grants(table[r], job.request) PROVE FALSE
      OBVIOUS
    <3>2. table[r] \in job.permissions /\ table[r].enabled /\ table[r] \in Permissions
      BY <1>1, <3>1 DEF PolicyInv, TableSeen, QuerySeen, Present, Grants
    <3>3. QED BY <1>3, <3>1, <3>2, RulesGrant DEF has_permission
  <2>2. QED BY <1>1, <1>3, <2>1, DenySteps DEF Reasons
<1>4. CASE has_permission(job.permissions, job.request)
           /\ job' = [job EXCEPT !.stage = "permitted"]
  <2>1. PICK p \in job.permissions :
          /\ p.action = job.request.action
          /\ is_amount_allowed(p, job.request)
          /\ is_currency_allowed(p, job.request)
          /\ is_account_allowed(p, job.request)
    BY <1>4 DEF has_permission
  <2>2. p \in seen /\ p.enabled /\ p \in Permissions
    BY <1>1 DEF PolicyInv, QuerySeen, TableSeen
  <2>3. Grants(p, job.request)
    BY <2>1, <2>2, RulesGrant
  <2>4. /\ JobType' /\ job'.stage = "permitted" /\ job'.request = job.request
        /\ job'.reason = "none"
    BY <1>1, <1>4 DEF PolicyInv, JobType, JobStages, Permitted
  <2>5. VerdictSeen'
    BY <1>1, <2>2, <2>3, <2>4 DEF PolicyInv, VerdictSeen
  <2>6. QED BY <1>1, <2>4, <2>5 DEF PolicyInv, TableSeen, QuerySeen, ThresholdSeen, Present
<1>5. QED BY <1>2, <1>3, <1>4 DEF EvaluatePolicy

LEMMA ThresholdStep ==
  ASSUME PolicyInv, CheckThreshold
  PROVE  PolicyInv'
<1>1. /\ job.stage = "permitted" /\ job # Idle /\ UNCHANGED <<table, seen, stayed>>
  BY DEF CheckThreshold, At, Idle
<1>2. CASE Deny("INFRASTRUCTURE_FAILURE")
  BY <1>1, <1>2, DenySteps DEF Reasons
<1>3. CASE \E threshold \in IF job.request.skip_approval_check THEN {Null}
                            ELSE Thresholds(job.request) :
             job' = [job EXCEPT !.stage = IF Exceeds(job.request, threshold)
                                          THEN "PENDING_APPROVAL" ELSE "ALLOW"]
  <2>1. PICK threshold \in IF job.request.skip_approval_check THEN {Null}
                           ELSE Thresholds(job.request) :
               job' = [job EXCEPT !.stage = IF Exceeds(job.request, threshold)
                                            THEN "PENDING_APPROVAL" ELSE "ALLOW"]
    BY <1>3
  <2>2. PICK stage \in {"PENDING_APPROVAL", "ALLOW"} :
          /\ job' = [job EXCEPT !.stage = stage]
          /\ stage = "PENDING_APPROVAL" <=> Exceeds(job.request, threshold)
    BY <2>1
  <2>3. /\ JobType' /\ job'.stage = stage /\ job'.request = job.request
        /\ job'.reason = job.reason
    BY <1>1, <2>2 DEF PolicyInv, JobType, JobStages, Permitted
  <2>4. ThresholdSeen'
    <3>1. CASE job.request.skip_approval_check
      BY <1>1, <2>1, <2>2, <2>3, <3>1 DEF Exceeds, ThresholdSeen
    <3>2. CASE ~job.request.skip_approval_check /\ {r \in Present : table[r].action = job.request.action} = {}
      <4>1. \A r \in stayed : table[r].action # job.request.action
        BY <3>2 DEF PolicyInv, TableSeen
      <4>2. threshold = Null
        BY <2>1, <3>2 DEF Thresholds
      <4>3. QED BY <1>1, <2>2, <2>3, <4>1, <4>2 DEF Exceeds, ThresholdSeen
    <3>3. CASE ~job.request.skip_approval_check /\ {r \in Present : table[r].action = job.request.action} # {}
      <4>1. PICK r \in Present : /\ table[r].action = job.request.action
                                 /\ threshold = table[r].requires_approval_above
        BY <2>1, <3>3 DEF Thresholds
      <4>2. table[r] \in OnAction(job.request)
        BY <1>1, <4>1 DEF PolicyInv, TableSeen, OnAction
      <4>3. OnAction(job.request)' = OnAction(job.request)
        BY <1>1, <2>3 DEF OnAction
      <4>4. QED BY <2>2, <2>3, <4>1, <4>2, <4>3 DEF Exceeds, ThresholdSeen
    <3>4. QED BY <3>1, <3>2, <3>3
  <2>5. QED BY <1>1, <2>3, <2>4 DEF PolicyInv, TableSeen, QuerySeen, VerdictSeen, Present, Permitted
<1>4. QED BY <1>2, <1>3 DEF CheckThreshold

LEMMA ResetStep ==
  ASSUME PolicyInv, job' = Idle, seen' = {}, stayed' = {}, UNCHANGED table
  PROVE  PolicyInv'
<1>1. /\ job' = [stage |-> "idle", request |-> Null, permissions |-> {}, reason |-> "none"]
      /\ job' = Idle'
  BY DEF Idle
<1>2. JobType' BY <1>1 DEF JobType, JobStages, Reasons
<1>3. TableSeen' BY <1>1 DEF PolicyInv, TableSeen, Present
<1>4. QuerySeen' /\ VerdictSeen' /\ ThresholdSeen'
  BY <1>1 DEF QuerySeen, VerdictSeen, ThresholdSeen, Permitted
<1>5. QED BY <1>2, <1>3, <1>4 DEF PolicyInv

LEMMA LeaveStep ==
  ASSUME PolicyInv, Leave
  PROVE  PolicyInv'
BY ResetStep DEF Leave

-----------------------------------------------------------------------------
LEMMA PolicyInitInv == AuthzInit => PolicyInv
<1>1. SUFFICES ASSUME AuthzInit PROVE PolicyInv
  OBVIOUS
<1>2. job = [stage |-> "idle", request |-> Null, permissions |-> {}, reason |-> "none"]
  BY <1>1 DEF AuthzInit, Idle
<1>3. JobType BY <1>2 DEF JobType, JobStages, Reasons
<1>4. TableSeen BY <1>1 DEF AuthzInit, TableSeen, Present
<1>5. QuerySeen /\ VerdictSeen /\ ThresholdSeen
  BY <1>1, <1>2 DEF AuthzInit, QuerySeen, VerdictSeen, ThresholdSeen, Permitted
<1>6. QED BY <1>3, <1>4, <1>5 DEF PolicyInv

LEMMA PolicyNextInv == PolicyInv /\ [AuthzNext]_authzVars => PolicyInv'
<1>1. SUFFICES ASSUME PolicyInv, [AuthzNext]_authzVars PROVE PolicyInv'
  OBVIOUS
<1>2. CASE AuthzNext
  BY <1>1, <1>2, TableSteps, ArriveStep, ReadStep, EvaluateStep, ThresholdStep, LeaveStep
  DEF AuthzNext
<1>3. CASE UNCHANGED authzVars
  BY <1>1, <1>3 DEF PolicyInv, JobType, TableSeen, QuerySeen, VerdictSeen, ThresholdSeen, OnAction,
                     Present, authzVars
<1>4. QED BY <1>1, <1>2, <1>3

LEMMA PolicyInvImplies == PolicyInv => PolicyFollowsPermissions
BY DEF PolicyInv, VerdictSeen, ThresholdSeen, OnAction, PolicyFollowsPermissions, Permitted, At

(* What gets past the policy is granted by one enabled permission that was *)
(* in the table while the request was evaluated, and what is denied for    *)
(* want of a permission by none that was there all the time; an operator   *)
(* is asked by the thresholds of the rows of the action (authz.rego,       *)
(* services/permission.py, evaluate_request).                              *)
THEOREM PolicyIsFollowed == AuthzSpec => []PolicyFollowsPermissions
<1>1. AuthzSpec => []PolicyInv
  BY PolicyInitInv, PolicyNextInv, PTL DEF AuthzSpec
<1>2. QED BY <1>1, PolicyInvImplies, PTL

-----------------------------------------------------------------------------
(* AgentInvocation                                                         *)

\* The run whose request is evaluated waits for it, or has given it up, and
\* whatever was allowed was granted.
GrantInv ==
  /\ \A i \in Ids : wire[i].path = "authorize" => run[i].transfer \in Payloads
  /\ \A i \in Ids : ledger[i].verdict = "ALLOW" => i \in granted
  /\ evaluating \in Ids =>
       run[evaluating].stage # "ready" /\ job.request = run[evaluating].transfer

InvocationInv == RuntimeInv /\ PolicyInv /\ GrantInv

(* Every step is one of the runs or leaves them alone.                     *)
LEMMA StepsOfRuns == InvocationNext => [RunNext]_runtimeVars
<1>1. SUFFICES ASSUME InvocationNext PROVE [RunNext]_runtimeVars
  OBVIOUS
<1>2. CASE \E i \in Ids : \/ DenyAtGate(i) \/ Decide(i) \/ DieEvaluating(i)
                          \/ RestOfServer(i) \/ RunStep(i) \/ RunTimer(i)
  BY <1>2 DEF DenyAtGate, Decide, DieEvaluating, RestOfServer, RunStep, RunTimer, RunNext
<1>3. CASE \/ \E i \in Ids : BeginEvaluation(i)
           \/ \E q \in Requests : BeginReevaluation(q)
           \/ Evaluate \/ EndReevaluation \/ ChangePermissions
  BY <1>3 DEF BeginEvaluation, BeginReevaluation, Evaluate, EndReevaluation, ChangePermissions
<1>4. QED BY <1>1, <1>2, <1>3 DEF InvocationNext

(* A run that has begun keeps its transfer, and a call for an              *)
(* authorization is one for a transfer.                                    *)
LEMMA TransfersStay ==
  ASSUME RuntimeInv, [RunNext]_runtimeVars, NEW j \in Ids
  PROVE  /\ run[j].stage # "ready" =>
              run'[j].stage # "ready" /\ run'[j].transfer = run[j].transfer
         /\ wire'[j].path = "authorize" =>
              \/ wire[j].path = "authorize" /\ run'[j].transfer = run[j].transfer
              \/ run'[j].transfer \in Payloads
<1>1. run \in [Ids -> Runs] /\ wire \in [Ids -> Calls]
  BY DEF RuntimeInv, RuntimeTypes
<1>2. wire[j].path = "authorize" => run[j].stage # "ready"
  BY Unchanged DEF RunHolds, StatusHolds
<1>3. CASE \E i \in Ids : Authorize(i) \/ RefuseToAuthorize(i) \/ Verify(i) \/ RefuseToVerify(i)
  <2>1. PICK i \in Ids :
          /\ UNCHANGED run
          /\ \E path \in {"authorize", "verify"}, a \in Outcomes \cup {"VERIFIED", "refused", Broken} :
               wire' = [wire EXCEPT ![i] = Answered(path, a)] /\ wire[i] = Sent(path)
    BY <1>3 DEF Authorize, RefuseToAuthorize, Verify, RefuseToVerify
  <2>2. PICK path \in {"authorize", "verify"}, a \in Outcomes \cup {"VERIFIED", "refused", Broken} :
          wire' = [wire EXCEPT ![i] = Answered(path, a)] /\ wire[i].path = path
    BY <2>1, CallTypes
  <2>3. wire'[j].path = wire[j].path
    BY <1>1, <2>2, AnsweredType
  <2>4. QED BY <2>1, <2>3
<1>4. CASE \E i \in Ids : FailCall(i)
  <2>1. PICK i \in Ids : UNCHANGED run /\ wire' = [wire EXCEPT ![i].answer = Broken]
    BY <1>4 DEF FailCall
  <2>2. wire'[j].path = wire[j].path
    BY <1>1, <2>1 DEF Calls
  <2>3. QED BY <2>1, <2>2
<1>5. CASE \E i \in Ids : EndWithoutTransfer(i) \/ HearDecision(i) \/ HearVerification(i)
                         \/ GiveUp(i) \/ CrashRun(i)
  <2>1. PICK i \in Ids :
          /\ wire' \in {wire, [wire EXCEPT ![i] = NoCall], [wire EXCEPT ![i] = Sent("verify")]}
          /\ \/ \E status : End(i, status)
             \/ run' = [run EXCEPT ![i] = [run[i] EXCEPT !.stage = "verifying"]]
    BY <1>5 DEF EndWithoutTransfer, HearDecision, HearVerification, GiveUp, CrashRun
  <2>2. wire'[j].path = "authorize" => wire[j].path = "authorize"
    BY <1>1, <2>1, CallTypes
  <2>3. run'[j].transfer = run[j].transfer /\ (run[j].stage # "ready" => run'[j].stage # "ready")
    <3>1. CASE run' = [run EXCEPT ![i] = [run[i] EXCEPT !.stage = "verifying"]]
      BY <1>1, <3>1 DEF Runs
    <3>2. CASE \E status : End(i, status)
      BY <1>1, <3>2 DEF Runs, End
    <3>3. QED BY <2>1, <3>1, <3>2
  <2>4. QED BY <2>2, <2>3
<1>6. CASE \E i \in Ids, p \in Payloads : RequestAuthorization(i, p)
  <2>1. PICK i \in Ids, p \in Payloads : RequestAuthorization(i, p)
    BY <1>6
  <2>2. /\ run[i].stage = "ready" /\ wire' = [wire EXCEPT ![i] = Sent("authorize")]
        /\ run' = [run EXCEPT ![i] = [run[i] EXCEPT !.stage = "authorizing", !.transfer = p]]
    BY <2>1 DEF RequestAuthorization, Ready
  <2>3. run'[i].transfer = p
    BY <1>1, <2>2 DEF Runs
  <2>4. j # i => run'[j] = run[j] /\ wire'[j] = wire[j]
    BY <1>1, <2>2
  <2>5. QED BY <2>2, <2>3, <2>4
<1>7. CASE UNCHANGED runtimeVars
  BY <1>7 DEF runtimeVars
<1>8. QED BY <1>3, <1>4, <1>5, <1>6, <1>7 DEF RunNext

(* Only the decision of an evaluation allows.                              *)
LEMMA OnlyDecisionsAllow ==
  ASSUME RuntimeInv, InvocationNext, NEW j \in Ids,
         ledger'[j].verdict = "ALLOW", ledger[j].verdict # "ALLOW"
  PROVE  Decide(j)
<1>1. ledger \in [Ids -> Entries]
  BY DEF RuntimeInv, RuntimeTypes
<1>2. CASE \E i \in Ids : DenyAtGate(i)
  BY <1>1, <1>2 DEF DenyAtGate, Authorize
<1>3. CASE \E i \in Ids : Decide(i)
  BY <1>1, <1>3 DEF Decide, Authorize
<1>4. CASE \E i \in Ids : RestOfServer(i)
  <2>1. PICK i \in Ids : UseEntry(i) \/ ExpireEntry(i) \/ UNCHANGED ledger
    BY <1>4 DEF RestOfServer, Verify, RefuseToVerify, RefuseToAuthorize, FailCall
  <2>2. CASE UseEntry(i)
    BY <1>1, <2>2 DEF UseEntry, Used
  <2>3. CASE ExpireEntry(i)
    BY <1>1, <2>3 DEF ExpireEntry, Entries
  <2>4. QED BY <2>1, <2>2, <2>3
<1>5. CASE \E i \in Ids : BeginEvaluation(i) \/ DieEvaluating(i) \/ RunStep(i) \/ RunTimer(i)
  BY <1>5 DEF BeginEvaluation, DieEvaluating, RunStep, RunTimer, FailCall, EndWithoutTransfer,
              RequestAuthorization, HearDecision, HearVerification, GiveUp, CrashRun, runtimeVars
<1>6. CASE \/ \E q \in Requests : BeginReevaluation(q)
           \/ Evaluate \/ EndReevaluation \/ ChangePermissions
  BY <1>6 DEF BeginReevaluation, Evaluate, EndReevaluation, ChangePermissions, runtimeVars
<1>7. QED BY <1>2, <1>3, <1>4, <1>5, <1>6 DEF InvocationNext

(* An evaluation keeps its request.                                        *)
LEMMA EvaluationKeepsRequest ==
  ASSUME PolicyInv, ReadPermissions \/ EvaluatePolicy \/ CheckThreshold
  PROVE  job'.request = job.request
<1>1. job \in [stage : JobStages, request : Requests \cup {Null},
              permissions : SUBSET Permissions, reason : Reasons]
  BY DEF PolicyInv, JobType
<1>2. CASE ReadPermissions
  BY <1>1, <1>2 DEF ReadPermissions, Deny
<1>3. CASE EvaluatePolicy
  BY <1>1, <1>3 DEF EvaluatePolicy, Deny
<1>4. CASE CheckThreshold
  BY <1>1, <1>4 DEF CheckThreshold, Deny
<1>5. QED BY <1>2, <1>3, <1>4

LEMMA InvocationKeepsPolicy ==
  ASSUME InvocationInv, InvocationNext
  PROVE  PolicyInv'
<1>1. PolicyInv BY DEF InvocationInv
<1>2. CASE \E i \in Ids : DenyAtGate(i) \/ RestOfServer(i) \/ RunStep(i) \/ RunTimer(i)
  BY <1>1, <1>2, PolicyNextInv DEF DenyAtGate, RestOfServer, RunStep, RunTimer
<1>3. CASE \E i \in Ids : BeginEvaluation(i)
  <2>1. PICK i \in Ids : BeginEvaluation(i)
    BY <1>3
  <2>2. wire[i].path = "authorize"
    BY <2>1, CallTypes DEF BeginEvaluation
  <2>3. run[i].transfer \in Requests
    BY <2>2, TransfersAssumption DEF InvocationInv, GrantInv
  <2>4. QED BY <1>1, <2>1, <2>3, ArriveStep DEF BeginEvaluation
<1>4. CASE \E i \in Ids : Decide(i)
  BY <1>1, <1>4, LeaveStep DEF Decide
<1>5. CASE \E i \in Ids : DieEvaluating(i)
  <2>1. job' = Idle /\ seen' = {} /\ stayed' = {} /\ UNCHANGED table
    BY <1>5 DEF DieEvaluating
  <2>2. QED BY <1>1, <2>1, ResetStep
<1>6. CASE \E q \in Requests : BeginReevaluation(q)
  BY <1>1, <1>6, ArriveStep DEF BeginReevaluation
<1>7. CASE Evaluate \/ EndReevaluation
  BY <1>1, <1>7, ReadStep, EvaluateStep, ThresholdStep, LeaveStep DEF Evaluate, EndReevaluation
<1>8. CASE ChangePermissions
  BY <1>1, <1>8, TableSteps DEF ChangePermissions
<1>9. QED BY <1>2, <1>3, <1>4, <1>5, <1>6, <1>7, <1>8 DEF InvocationNext

(* What a decision allows the policy has permitted.                        *)
LEMMA DecideGrants ==
  ASSUME InvocationInv, NEW i \in Ids, Decide(i), ledger'[i].verdict = "ALLOW"
  PROVE  i \in granted'
<1>1. job.stage = "ALLOW" /\ evaluating = i
  BY DEF Decide, Verdict, Verdicts, At
<1>2. \E p \in seen : Grants(p, job.request)
  BY <1>1 DEF InvocationInv, PolicyInv, VerdictSeen, Permitted
<1>3. job.request = run[i].transfer
  BY <1>1 DEF InvocationInv, GrantInv
<1>4. QED BY <1>2, <1>3 DEF Decide

LEMMA InvocationKeepsGrants ==
  ASSUME InvocationInv, InvocationNext
  PROVE  GrantInv'
<1>1. RuntimeInv /\ [RunNext]_runtimeVars /\ GrantInv /\ PolicyInv
  BY StepsOfRuns DEF InvocationInv
<1>2. ASSUME NEW i \in Ids, wire'[i].path = "authorize"
      PROVE  run'[i].transfer \in Payloads
  BY <1>1, <1>2, TransfersStay DEF GrantInv
<1>3. granted \subseteq granted'
  BY DEF InvocationNext, DenyAtGate, BeginEvaluation, Decide, DieEvaluating, RestOfServer, RunStep,
         RunTimer, BeginReevaluation, Evaluate, EndReevaluation, ChangePermissions
<1>4. ASSUME NEW i \in Ids, ledger'[i].verdict = "ALLOW"
      PROVE  i \in granted'
  BY <1>1, <1>3, <1>4, OnlyDecisionsAllow, DecideGrants DEF GrantInv
<1>5. ASSUME evaluating' \in Ids
      PROVE  /\ run'[evaluating'].stage # "ready"
             /\ job'.request = run'[evaluating'].transfer
  <2>1. CASE \E i \in Ids : BeginEvaluation(i)
    <3>1. PICK i \in Ids : BeginEvaluation(i)
      BY <2>1
    <3>2. run[i].stage # "ready"
      BY <1>1, <3>1, Unchanged, CallTypes DEF BeginEvaluation, RunHolds, StatusHolds
    <3>3. job'.request = run[i].transfer
      BY <3>1 DEF BeginEvaluation, Arrive, Idle
    <3>4. QED BY <3>1, <3>2, <3>3 DEF BeginEvaluation, runtimeVars
  <2>2. CASE Evaluate
    BY <1>1, <1>5, <2>2, EvaluationKeepsRequest DEF Evaluate, GrantInv, runtimeVars
  <2>3. CASE \/ \E i \in Ids : Decide(i) \/ DieEvaluating(i)
             \/ \E q \in Requests : BeginReevaluation(q)
             \/ EndReevaluation
    BY <1>5, <2>3, NoOneAssumption DEF Decide, DieEvaluating, BeginReevaluation, EndReevaluation
  <2>4. CASE \/ \E i \in Ids : DenyAtGate(i) \/ RestOfServer(i) \/ RunStep(i) \/ RunTimer(i)
             \/ ChangePermissions
    <3>1. UNCHANGED <<job, evaluating>>
      BY <2>4 DEF DenyAtGate, RestOfServer, RunStep, RunTimer, ChangePermissions,
                  CreatePermission, DeletePermission, authzVars
    <3>2. QED BY <1>1, <1>5, <3>1, TransfersStay DEF GrantInv
  <2>5. QED BY <2>1, <2>2, <2>3, <2>4 DEF InvocationNext
<1>6. QED BY <1>2, <1>4, <1>5 DEF GrantInv

-----------------------------------------------------------------------------
LEMMA InvocationInvariant == InvocationSpec => []InvocationInv
<1>1. InvocationInit => InvocationInv
  <2>1. SUFFICES ASSUME InvocationInit PROVE InvocationInv
    OBVIOUS
  <2>2. RuntimeInv /\ PolicyInv
    BY <2>1, RuntimeInitInv, PolicyInitInv DEF InvocationInit
  <2>3. GrantInv
    BY <2>1, NoOneAssumption
    DEF InvocationInit, RunInit, LedgerInit, NoCall, Open, GrantInv
  <2>4. QED BY <2>2, <2>3 DEF InvocationInv
<1>2. InvocationInv /\ [InvocationNext]_invocationVars => InvocationInv'
  <2>1. SUFFICES ASSUME InvocationInv, [InvocationNext]_invocationVars PROVE InvocationInv'
    OBVIOUS
  <2>2. CASE InvocationNext
    BY <2>1, <2>2, StepsOfRuns, RuntimeNextInv, InvocationKeepsPolicy, InvocationKeepsGrants
    DEF InvocationInv
  <2>3. CASE UNCHANGED invocationVars
    <3>1. UNCHANGED <<runtimeVars, authzVars, evaluating, granted>>
      BY <2>3 DEF invocationVars
    <3>2. RuntimeInv' /\ PolicyInv'
      BY <2>1, <3>1, RuntimeNextInv, PolicyNextInv DEF InvocationInv
    <3>3. GrantInv'
      BY <2>1, <3>1 DEF InvocationInv, GrantInv, runtimeVars, authzVars
    <3>4. QED BY <3>2, <3>3 DEF InvocationInv
  <2>4. QED BY <2>1, <2>2, <2>3
<1>3. QED BY <1>1, <1>2, PTL DEF InvocationSpec

(* Beside runs, what gets past the policy is granted by one enabled        *)
(* permission that was in the table while the request was evaluated, and   *)
(* what is denied for want of a permission by none that was there all the  *)
(* time; an operator is asked by the thresholds of the rows of the action  *)
(* (authz.rego, services/permission.py, evaluate_request).                 *)
THEOREM InvocationsFollowThePolicy == InvocationSpec => []PolicyFollowsPermissions
<1>1. InvocationInv => PolicyFollowsPermissions
  BY PolicyInvImplies DEF InvocationInv
<1>2. QED BY <1>1, InvocationInvariant, PTL

(* The runs of AgentInvocation are runs of AgentRuntime.                   *)
THEOREM InvocationsAreRuns == InvocationSpec => RunSpec
<1>1. InvocationInit => RunInit
  BY DEF InvocationInit
<1>2. [InvocationNext]_invocationVars => [RunNext]_runtimeVars
  BY StepsOfRuns DEF invocationVars
<1>3. QED BY <1>1, <1>2, PTL DEF InvocationSpec, RunSpec

(* What a run reports agrees with the ledger, whoever decides its request  *)
(* (agent/runtime.py, routers/execution.py).                               *)
THEOREM InvocationsReportTheLedger == InvocationSpec => []ReportsAgreeWithLedger
BY InvocationsAreRuns, ReportsAgree, PTL

(* What an agent executed one enabled permission granted, one that was in  *)
(* the table while the request was decided (evaluate_request, authz.rego,  *)
(* agent/runtime.py).                                                      *)
THEOREM ExecutedIsGranted == InvocationSpec => []ExecutionsAreGranted
<1>1. InvocationInv => ExecutionsAreGranted
  <2>1. InvocationInv => ReportsAgreeWithLedger
    BY RuntimeInvImplies DEF InvocationInv
  <2>2. QED BY <2>1
            DEF InvocationInv, GrantInv, ReportsAgreeWithLedger, ExecutionsAreGranted
<1>2. QED BY <1>1, InvocationInvariant, PTL
=============================================================================
