---------------------------- MODULE SimulatorPage ----------------------------
(***************************************************************************)
(* The test harness of the console (Simulator.tsx): it sends requests to   *)
(* POST /authorize, as a dry run or for real, under a request id that is   *)
(* renewed only when an answer came. How a request is decided is the       *)
(* business of Authorization; here a verdict is any, and a request has two *)
(* steps, because the idempotency check does not lock what it looked for.  *)
(***************************************************************************)
EXTENDS ApiClient

CONSTANTS
  Payloads,      \* what the form may ask for: agent, action, resource, amount
  Verdicts,      \* ALLOW and others; here DENY and PENDING_APPROVAL are alike
  MaxRequestId   \* bound: generated request ids

ASSUME MaxRequestIdAssumption == MaxRequestId \in Nat \ {0}
ASSUME VerdictsAssumption == "ALLOW" \in Verdicts /\ "none" \notin Verdicts

VARIABLES
  decided,          \* recorded decision of each request id
  requestCounter    \* next request id to generate

simulatorVars == <<route, page, calls, decided, requestCounter>>

SimulatorPath == "/simulator"

RequestIds == 1..MaxRequestId
NoPayload == "none"
ASSUME NoPayloadAssumption == NoPayload \notin Payloads
ASSUME PayloadsAssumption == Payloads # {}

Decision(p, verdict) == [payload |-> p, decision |-> verdict]
Undecided == Decision(NoPayload, "none")
NoResult == [id |-> 0, payload |-> NoPayload, simulate |-> FALSE, decision |-> "none",
             authorization_id |-> FALSE]

\* No agent is selected, and nothing can be sent, until the agents are loaded.
SimulatorMounted(id) ==
  [loadingAgents |-> TRUE, agentSelected |-> FALSE, requestId |-> id,
   isSubmitting |-> FALSE, result |-> NoResult]

LoadAgents == Request("getAgents", NoPayload, "page")

-----------------------------------------------------------------------------
(* Server                                                                  *)

ServeAgentOptions(i) ==
  /\ calls[i].op = "getAgents" /\ calls[i].stage = "sent"
  /\ calls' = Served(i, Ok("agents"))
  /\ UNCHANGED <<page, decided, requestCounter>>

Submitted(i) == calls[i].op = "authorizeRequest" /\ calls[i].stage = "sent"

\* The id was decided before, a dry run finds that too. Only an ALLOW of the
\* same request can be answered (see Replay of Authorization).
AnswerFromLog(i) ==
  /\ Submitted(i)
  /\ LET asked == calls[i].arg
         found == decided[asked.id]
     IN  /\ found # Undecided
         /\ calls' = Served(i, IF found = Decision(asked.payload, "ALLOW")
                               THEN Ok([decision |-> "ALLOW", authorization_id |-> TRUE])
                               ELSE Failed("IDEMPOTENCY_CONFLICT"))
  /\ UNCHANGED <<page, decided, requestCounter>>

\* A verdict is reached, or the handler fails.
ReachVerdict(i) ==
  /\ Submitted(i) /\ decided[calls[i].arg.id] = Undecided
  /\ \/ \E v \in Verdicts :
          calls' = [calls EXCEPT ![i].stage = "evaluated",
                      ![i].answer = Ok([decision |-> v, authorization_id |-> v = "ALLOW"])]
     \/ calls' = Served(i, ServerError)
  /\ UNCHANGED <<page, decided, requestCounter>>

\* A dry run is answered like a real one, also with an authorization id.
AnswerDryRun(i) ==
  /\ calls[i].stage = "evaluated" /\ calls[i].arg.simulate
  /\ calls' = Served(i, calls[i].answer)
  /\ UNCHANGED <<page, decided, requestCounter>>

\* Mutant: the request id of a decision is not unique.
RecordOver(i) ==
  /\ calls[i].stage = "evaluated" /\ ~calls[i].arg.simulate
  /\ decided' = [decided EXCEPT ![calls[i].arg.id] =
                   Decision(calls[i].arg.payload, calls[i].answer.value.decision)]
  /\ calls' = Served(i, calls[i].answer)
  /\ UNCHANGED <<page, requestCounter>>

\* The decision is committed, or the unique index rejects it.
RecordDecision(i) ==
  /\ calls[i].stage = "evaluated" /\ ~calls[i].arg.simulate
  /\ LET asked == calls[i].arg
     IN  IF decided[asked.id] = Undecided
         THEN /\ decided' = [decided EXCEPT ![asked.id] =
                               Decision(asked.payload, calls[i].answer.value.decision)]
              /\ calls' = Served(i, calls[i].answer)
         ELSE calls' = Served(i, ServerError) /\ UNCHANGED decided
  /\ UNCHANGED <<page, requestCounter>>

\* An agent sends a request of its own, under any id.
ForeignAuthorize ==
  /\ Room
  /\ \E id \in RequestIds, p \in Payloads :
       calls' = ForeignCall("authorizeRequest", [id |-> id, payload |-> p, simulate |-> FALSE])
  /\ UNCHANGED <<page, decided, requestCounter>>

-----------------------------------------------------------------------------
(* Page                                                                    *)

AgentsLoaded(i, a, rest) ==
  /\ calls[i].op = "getAgents"
  /\ page' = [page EXCEPT !.loadingAgents = FALSE, !.agentSelected = @ \/ a.ok]
  /\ calls' = rest
  /\ UNCHANGED <<decided, requestCounter>>

\* The fields are disabled while a request is under way, the mode is not.
\* Only the request id is state: the mode and the other fields may have any
\* value when the form is submitted.
ExecutionModes == {"SIMULATION", "SANDBOX"}

EditForm ==
  /\ ~page.isSubmitting
  /\ \E id \in RequestIds \ {page.requestId} : page' = [page EXCEPT !.requestId = id]
  /\ UNCHANGED <<calls, decided, requestCounter>>

HandleSubmit ==
  /\ ~page.isSubmitting /\ ~page.loadingAgents /\ page.agentSelected /\ Room
  /\ page' = [page EXCEPT !.isSubmitting = TRUE, !.result = NoResult]
  /\ \E p \in Payloads, mode \in ExecutionModes :
       calls' = Append(calls, Request("authorizeRequest",
                  [id |-> page.requestId, payload |-> p,
                   simulate |-> mode = "SIMULATION"], "handler"))
  /\ UNCHANGED <<decided, requestCounter>>

\* What the result panel shows, with the request it belongs to, which for a
\* dry run does not matter.
Result(asked, value) ==
  IF asked.simulate
  THEN [NoResult EXCEPT !.simulate = TRUE, !.decision = value.decision,
                        !.authorization_id = value.authorization_id]
  ELSE [id |-> asked.id, payload |-> asked.payload, simulate |-> FALSE,
        decision |-> value.decision, authorization_id |-> value.authorization_id]

\* After an answer the form gets a new id.
SubmitAnswered(i, a, rest) ==
  /\ calls[i].op = "authorizeRequest" /\ calls[i].by = "handler" /\ a.ok
  /\ requestCounter \in RequestIds /\ requestCounter' = requestCounter + 1
  /\ page' = [page EXCEPT !.isSubmitting = FALSE, !.requestId = requestCounter,
                          !.result = Result(calls[i].arg, a.value)]
  /\ calls' = rest /\ UNCHANGED decided

\* Without one it keeps its id, so that the request may be repeated.
SubmitFailed(i, a, rest) ==
  /\ calls[i].op = "authorizeRequest" /\ calls[i].by = "handler" /\ ~a.ok
  /\ page' = [page EXCEPT !.isSubmitting = FALSE]
  /\ calls' = rest /\ UNCHANGED <<decided, requestCounter>>

SubmitEnds(i, a, rest) == SubmitAnswered(i, a, rest) \/ SubmitFailed(i, a, rest)

HearSimulator(i) ==
  /\ calls[i].stage = "served"
  /\ \/ AgentsLoaded(i, calls[i].answer, Heard(i))
     \/ SubmitEnds(i, calls[i].answer, Heard(i))

GiveUpSimulator(i) ==
  \/ AgentsLoaded(i, NoResponse, GivenUp(i))
  \/ SubmitEnds(i, NoResponse, GivenUp(i))

-----------------------------------------------------------------------------
SimulatorServerInit ==
  /\ decided \in [RequestIds -> {Undecided, Decision(CHOOSE p \in Payloads : TRUE, "ALLOW")}]
  /\ decided[1] = Undecided

ReturnToSimulator ==
  /\ requestCounter \in RequestIds /\ requestCounter' = requestCounter + 1
  /\ Remount(SimulatorMounted(requestCounter), LoadAgents)
  /\ UNCHANGED decided

SimulatorMount ==
  /\ route = SimulatorPath
  /\ page = SimulatorMounted(1)
  /\ calls = <<LoadAgents>>
  /\ requestCounter = 2

SimulatorInit == SimulatorMount /\ SimulatorServerInit

ServeSimulator(i) ==
  \/ ServeAgentOptions(i) \/ AnswerFromLog(i) \/ ReachVerdict(i) \/ AnswerDryRun(i) \/ RecordDecision(i)

SimulatorNext ==
  /\ On(SimulatorPath)
  /\ \/ EditForm \/ HandleSubmit \/ ForeignAuthorize \/ ReturnToSimulator
     \/ \E i \in DOMAIN calls : ServeSimulator(i) \/ HearSimulator(i) \/ GiveUpSimulator(i)
     \/ \E i \in DOMAIN calls : LoseRequest(i) /\ UNCHANGED <<decided, requestCounter>>

SimulatorSpec == SimulatorInit /\ [][SimulatorNext]_simulatorVars

-----------------------------------------------------------------------------
(* Properties                                                              *)

SimulatorTypeOK ==
  /\ route = SimulatorPath =>
     page \in [loadingAgents : BOOLEAN, agentSelected : BOOLEAN, requestId : RequestIds,
               isSubmitting : BOOLEAN,
               result : [id : RequestIds \cup {0}, payload : Payloads \cup {NoPayload},
                         simulate : BOOLEAN, decision : Verdicts \cup {"none"},
                         authorization_id : BOOLEAN]]
  /\ decided \in [RequestIds -> [payload : Payloads, decision : Verdicts] \cup {Undecided}]
  /\ requestCounter \in 2..(MaxRequestId + 1)

\* What the harness shows of a request that was sent for real is the decision
\* in the log for that id and payload, although earlier copies of the request,
\* given up by the page, and requests of agents race for the id.
SandboxResultIsRecorded ==
  LET shown == page.result
  IN  route = SimulatorPath /\ shown # NoResult /\ ~shown.simulate =>
        decided[shown.id] = Decision(shown.payload, shown.decision)
=============================================================================
