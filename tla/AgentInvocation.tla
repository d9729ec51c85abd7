---------------------------- MODULE AgentInvocation ----------------------------
(***************************************************************************)
(* Runs of agents against the pipeline that decides their requests:        *)
(* AgentRuntime with the verdicts of AuthzPolicy. The authorize call of a  *)
(* run is evaluated over the permissions of the agent, which operators     *)
(* change meanwhile, and goes on being evaluated after the run has given   *)
(* it up. Approved requests are evaluated again beside the runs. One       *)
(* evaluation is under way at a time: they share only what they read.      *)
(***************************************************************************)
EXTENDS AgentRuntime, AuthzPolicy

CONSTANT NoOne

ASSUME NoOneAssumption == NoOne \notin Ids

\* A run proposes requests whose threshold is looked up.
ASSUME TransfersAssumption ==
  Payloads \subseteq {q \in Requests : ~q.skip_approval_check}

VARIABLES
  evaluating,   \* the run whose request is evaluated, if it is one's
  granted       \* history: runs allowed while some permission granted the transfer

invocationVars == <<runtimeVars, authzVars, evaluating, granted>>

InvocationInit == RunInit /\ AuthzInit /\ evaluating = NoOne /\ granted = {}

-----------------------------------------------------------------------------
(* POST /authorize                                                         *)

\* The gates deny before any permission is read, and so does a failure to
\* read the gates.
DenyAtGate(i) ==
  /\ evaluating # i /\ Authorize(i) /\ ledger'[i].verdict = "DENY"
  /\ UNCHANGED <<authzVars, evaluating, granted>>

BeginEvaluation(i) ==
  /\ evaluating = NoOne /\ wire[i] = Sent("authorize") /\ ledger[i] = Open
  /\ Arrive(run[i].transfer) /\ evaluating' = i
  /\ UNCHANGED <<runtimeVars, granted>>

Evaluate ==
  /\ ReadPermissions \/ EvaluatePolicy \/ CheckThreshold
  /\ UNCHANGED <<runtimeVars, evaluating, granted>>

\* Behind the policy only the budgets can still deny.
Verdict == {job.stage} \cup IF At("ALLOW") THEN {"DENY"} ELSE {}

Decide(i) ==
  /\ evaluating = i /\ job.stage \in Verdicts
  /\ Authorize(i) /\ ledger'[i].verdict \in Verdict
  /\ granted' = IF ledger'[i].verdict = "ALLOW" /\ \E p \in seen : Grants(p, run[i].transfer)
                THEN granted \cup {i} ELSE granted
  /\ Leave /\ evaluating' = NoOne

\* The handler dies during its evaluation.
DieEvaluating(i) ==
  /\ evaluating = i /\ FailCall(i)
  /\ job' = Idle /\ seen' = {} /\ stayed' = {} /\ evaluating' = NoOne
  /\ UNCHANGED <<table, granted>>

\* POST /approvals/{id}/approve evaluates an approved request once more.
BeginReevaluation(q) ==
  /\ evaluating = NoOne /\ q.skip_approval_check /\ Arrive(q)
  /\ UNCHANGED <<runtimeVars, evaluating, granted>>

EndReevaluation ==
  /\ evaluating = NoOne /\ Leave
  /\ UNCHANGED <<runtimeVars, evaluating, granted>>

-----------------------------------------------------------------------------
RestOfServer(i) ==
  /\ \/ Verify(i) \/ RefuseToVerify(i)
     \/ evaluating # i /\ (RefuseToAuthorize(i) \/ FailCall(i))
  /\ UNCHANGED <<authzVars, evaluating, granted>>

RunStep(i) ==
  /\ \/ EndWithoutTransfer(i) \/ \E p \in Payloads : RequestAuthorization(i, p)
     \/ HearDecision(i) \/ HearVerification(i) \/ CrashRun(i)
  /\ UNCHANGED <<authzVars, evaluating, granted>>

RunTimer(i) == GiveUp(i) /\ UNCHANGED <<authzVars, evaluating, granted>>

ChangePermissions ==
  /\ \/ \E r \in Rows, p \in Permissions : CreatePermission(r, p)
     \/ \E r \in Rows : DeletePermission(r)
  /\ UNCHANGED <<runtimeVars, evaluating, granted>>

InvocationNext ==
  \/ \E i \in Ids : \/ DenyAtGate(i) \/ BeginEvaluation(i) \/ Decide(i) \/ DieEvaluating(i)
                    \/ RestOfServer(i) \/ RunStep(i) \/ RunTimer(i)
  \/ \E q \in Requests : BeginReevaluation(q)
  \/ Evaluate \/ EndReevaluation \/ ChangePermissions

\* The timer of a call runs out if nothing else ends it.
InvocationSpec ==
  /\ InvocationInit /\ [][InvocationNext]_invocationVars
  /\ \A i \in Ids : WF_invocationVars(RunTimer(i))

-----------------------------------------------------------------------------
(* Properties                                                              *)

\* What an agent executed one enabled permission granted, one that was in the
\* table while the request was decided: however late the decision was heard,
\* whatever else was evaluated, approved, created or deleted meanwhile, and
\* whichever calls were answered or lost.
ExecutionsAreGranted == \A i \in Ids : run[i].status = "EXECUTED" => i \in granted
=============================================================================
