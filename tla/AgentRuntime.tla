----------------------------- MODULE AgentRuntime -----------------------------
(***************************************************************************)
(* Runs of agents (agent/runtime.py): a run asks for an authorization      *)
(* under a fresh request id, and its execution gateway verifies and        *)
(* consumes the authorization before it executes the transfer. Either      *)
(* call is given up after five seconds and never repeated, while the       *)
(* server may still execute it. The server is the ledger that              *)
(* Authorization implements.                                               *)
(***************************************************************************)
EXTENDS DecisionLedger

\* Transfers whose amount the column of the authorization rounds, so that
\* it is not the amount the gateway sends.
CONSTANT Rounded

VARIABLES
  run,    \* each run, named by its request id
  wire    \* the call of each run that is under way, if there is one

runtimeVars == <<ledger, run, wire>>

Ready == [stage |-> "ready", transfer |-> NoPayload, status |-> "none"]
NoCall == [path |-> "none", answer |-> "none"]
Sent(path) == [path |-> path, answer |-> "none"]
Answered(path, a) == [path |-> path, answer |-> a]

\* A plain 500: its body is not JSON, and the error of reading it as such is
\* caught by nobody.
Broken == "broken"

RunInit ==
  /\ LedgerInit
  /\ run = [i \in Ids |-> Ready] /\ wire = [i \in Ids |-> NoCall]

-----------------------------------------------------------------------------
(* Server                                                                  *)

\* A decision is committed; its answer may be lost.
Authorize(i) ==
  /\ wire[i] = Sent("authorize") /\ ledger[i] = Open
  /\ \E verdict \in Outcomes :
       /\ ledger' = [ledger EXCEPT ![i] = Entry(verdict, run[i].transfer)]
       /\ \E a \in {verdict, Broken} : wire' = [wire EXCEPT ![i] = Answered("authorize", a)]
  /\ UNCHANGED run

\* A source account that is no string: 422, and no decision.
RefuseToAuthorize(i) ==
  /\ wire[i] = Sent("authorize")
  /\ wire' = [wire EXCEPT ![i] = Answered("authorize", "refused")]
  /\ UNCHANGED <<ledger, run>>

Verified(i) == ledger[i].use = "ISSUED" /\ run[i].transfer \notin Rounded

\* Mutant: the gateway asks for the authorization without using it.
VerifyOnly(i) ==
  /\ wire[i] = Sent("verify") /\ Verified(i)
  /\ \E a \in {"VERIFIED", Broken} : wire' = [wire EXCEPT ![i] = Answered("verify", a)]
  /\ UNCHANGED <<ledger, run>>

Verify(i) ==
  /\ wire[i] = Sent("verify") /\ Verified(i)
  /\ UseEntry(i)
  /\ \E a \in {"VERIFIED", Broken} : wire' = [wire EXCEPT ![i] = Answered("verify", a)]
  /\ UNCHANGED run

\* The authorization has expired, is not to be used, or is for another amount.
RefuseToVerify(i) ==
  /\ wire[i] = Sent("verify")
  /\ \/ ExpireEntry(i)
     \/ ~Verified(i) /\ UNCHANGED ledger
  /\ \E a \in {"refused", Broken} : wire' = [wire EXCEPT ![i] = Answered("verify", a)]
  /\ UNCHANGED run

\* The handler dies, and its transaction with it.
FailCall(i) ==
  /\ wire[i].path # "none" /\ wire[i].answer = "none"
  /\ wire' = [wire EXCEPT ![i].answer = Broken]
  /\ UNCHANGED <<ledger, run>>

-----------------------------------------------------------------------------
(* Run                                                                     *)

End(i, status) == run' = [run EXCEPT ![i] = [@ EXCEPT !.stage = "ended", !.status = status]]

\* The language model fails, calls no tool, or proposes a transfer that is
\* not valid, or that passes for one and is not (a currency that is no string).
EndWithoutTransfer(i) ==
  /\ run[i] = Ready
  /\ \E status \in {"ERROR", "REJECTED", "exception"} : End(i, status)
  /\ UNCHANGED <<ledger, wire>>

RequestAuthorization(i, p) ==
  /\ run[i] = Ready
  /\ run' = [run EXCEPT ![i] = [@ EXCEPT !.stage = "authorizing", !.transfer = p]]
  /\ wire' = [wire EXCEPT ![i] = Sent("authorize")]
  /\ UNCHANGED ledger

HearDecision(i) ==
  /\ run[i].stage = "authorizing" /\ wire[i].answer # "none"
  /\ \/ /\ wire[i].answer = "ALLOW"
        /\ run' = [run EXCEPT ![i] = [@ EXCEPT !.stage = "verifying"]]
        /\ wire' = [wire EXCEPT ![i] = Sent("verify")]
     \/ /\ wire[i].answer # "ALLOW"
        /\ End(i, CASE wire[i].answer = "PENDING_APPROVAL" -> "PENDING_APPROVAL"
                    [] wire[i].answer \in {"DENY", "refused"} -> "DENIED"
                    [] OTHER -> "exception")
        /\ wire' = [wire EXCEPT ![i] = NoCall]
  /\ UNCHANGED ledger

\* execute_transfer: the transfer is executed behind an answer of success.
HearVerification(i) ==
  /\ run[i].stage = "verifying" /\ wire[i].answer # "none"
  /\ End(i, CASE wire[i].answer = "VERIFIED" -> "EXECUTED"
              [] wire[i].answer = "refused" -> "EXECUTION_FAILED"
              [] OTHER -> "exception")
  /\ wire' = [wire EXCEPT ![i] = NoCall]
  /\ UNCHANGED ledger

\* Mutant: the gateway waits for ever.
GiveUpAuthorizing(i) ==
  /\ run[i].stage = "authorizing" /\ End(i, "NETWORK_FAILURE")
  /\ UNCHANGED <<ledger, wire>>

\* A timeout, or no connection. The server may still get the call.
GiveUp(i) ==
  /\ \/ run[i].stage = "authorizing" /\ End(i, "NETWORK_FAILURE")
     \/ run[i].stage = "verifying" /\ End(i, "EXECUTION_FAILED")
  /\ UNCHANGED <<ledger, wire>>

\* A run lives in the handler of POST /agents/{id}/invoke and dies with it.
CrashRun(i) ==
  /\ run[i].stage \in {"authorizing", "verifying"} /\ End(i, "exception")
  /\ UNCHANGED <<ledger, wire>>

-----------------------------------------------------------------------------
RunNext ==
  \E i \in Ids :
    \/ Authorize(i) \/ RefuseToAuthorize(i) \/ Verify(i) \/ RefuseToVerify(i) \/ FailCall(i)
    \/ EndWithoutTransfer(i) \/ (\E p \in Payloads : RequestAuthorization(i, p))
    \/ HearDecision(i) \/ HearVerification(i) \/ GiveUp(i) \/ CrashRun(i)

RunSpec == RunInit /\ [][RunNext]_runtimeVars

-----------------------------------------------------------------------------
(* Properties                                                              *)

\* What a run reports agrees with the ledger, now and ever after, although
\* the server executes calls that the run has given up: an executed transfer
\* used its authorization, exactly once; what was denied or left to an operator has
\* none; what ended before the gateway never uses it. An authorization that
\* was used and executed nothing belongs to a run that said it failed.
ReportsAgreeWithLedger ==
  \A i \in Ids :
    LET e == ledger[i]
        status == run[i].status
    IN  /\ status = "EXECUTED" =>
             e.verdict = "ALLOW" /\ e.payload = run[i].transfer /\ e.uses = 1
        /\ status \in {"DENIED", "PENDING_APPROVAL"} => e.verdict # "ALLOW" /\ e.uses = 0
        /\ status \in {"ERROR", "REJECTED", "NETWORK_FAILURE"} => e.uses = 0
        /\ e.uses > 0 => \/ run[i].stage = "verifying"
                         \/ status \in {"EXECUTED", "EXECUTION_FAILED", "exception"}

\* A run that has begun ends, whether or not the server answers.
RunsEnd == \A i \in Ids : run[i].stage = "authorizing" ~> run[i].stage = "ended"
=============================================================================
