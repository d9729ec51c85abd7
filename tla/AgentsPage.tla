------------------------------ MODULE AgentsPage ------------------------------
(***************************************************************************)
(* The registry of agents (Agents.tsx) with the answers of the endpoints   *)
(* behind it. The page does not poll: it fetches when it is mounted, on a  *)
(* click, and after each command. How the status of an agent reaches the   *)
(* decisions is the business of AgentStatus; here a quarantine has two     *)
(* steps, because Kubernetes is called before the transaction commits.     *)
(***************************************************************************)
EXTENDS ApiClient

CONSTANT Agents   \* ids of agents, each with a deployment of its own

VARIABLES
  row,        \* committed status of each agent
  replicas,   \* replicas the deployment of each agent should have
  \* History.
  excused,    \* agents that were set to active, or whose quarantine died, since
              \* they were last revoked
  overtaken   \* since the last fetch that was sent alone: an answer overtook an
              \* older fetch, none came, or somebody else changed an agent

agentRows == <<row, replicas, excused>>
agentsVars == <<route, page, calls, agentRows, overtaken>>

AgentsPath == "/agents"

NoAgent == "none"
ASSUME NoAgentAssumption == NoAgent \notin Agents

AgentStatuses == {"ACTIVE", "REVOKED"}
AgentCommands == {"quarantineAgent", "restoreAgent"}
NoTarget == [agent |-> NoAgent, action |-> "none"]
NoReport == [agent |-> NoAgent, containment |-> "none", overall |-> "none"]
Report(a, contained) ==
  [agent |-> a, containment |-> IF contained THEN "SUCCESS" ELSE "FAILED",
   overall |-> IF contained THEN "SUCCESS" ELSE "PARTIAL_SUCCESS"]

AgentsMounted ==
  [agents |-> [a \in Agents |-> "none"], loading |-> TRUE, isRefreshing |-> FALSE,
   actionInProgressId |-> NoAgent, confirmTarget |-> NoTarget,
   quarantineModalResult |-> NoReport]

FetchAgents(by) == Request("getAgents", NoAgent, by)

-----------------------------------------------------------------------------
(* Server                                                                  *)

AgentsServerInit ==
  /\ row \in [Agents -> AgentStatuses]
  /\ replicas = [a \in Agents |-> 1]
  /\ excused = {} /\ overtaken = FALSE

ServeAgents(i) ==
  /\ calls[i].op = "getAgents" /\ calls[i].stage = "sent"
  /\ calls' = Served(i, Ok(row))
  /\ UNCHANGED <<page, agentRows, overtaken>>

\* The head of the audit chain is locked while Kubernetes is called.
ChainFree == \A i \in DOMAIN calls : calls[i].stage \notin {"contained", "uncontained"}

\* Mutant: the scaling is not verified.
ContainUnverified(i) ==
  /\ calls[i].op = "quarantineAgent" /\ calls[i].stage = "sent" /\ ChainFree
  /\ replicas' \in {replicas, [replicas EXCEPT ![calls[i].arg] = 0]}
  /\ calls' = [calls EXCEPT ![i].stage = "contained"]
  /\ UNCHANGED <<page, row, excused, overtaken>>

\* The deployment is scaled to zero and verified; when Kubernetes fails, the
\* scaling may have happened.
ContainAgent(i) ==
  /\ calls[i].op = "quarantineAgent" /\ calls[i].stage = "sent" /\ ChainFree
  /\ \E scaled, verified \in BOOLEAN :
       /\ verified => scaled
       /\ replicas' = IF scaled THEN [replicas EXCEPT ![calls[i].arg] = 0] ELSE replicas
       /\ calls' = [calls EXCEPT ![i].stage = IF verified THEN "contained" ELSE "uncontained"]
  /\ UNCHANGED <<page, row, excused, overtaken>>

\* Mutant: the transaction with the status is not committed.
AnswerUncommitted(i) ==
  /\ calls[i].stage \in {"contained", "uncontained"}
  /\ \/ calls' = Served(i, Ok(Report(calls[i].arg, calls[i].stage = "contained")))
        /\ UNCHANGED excused
     \/ calls' = Served(i, ServerError) /\ excused' = excused \cup {calls[i].arg}
  /\ UNCHANGED <<page, row, replicas, overtaken>>

\* Status and events are committed, or the handler dies and leaves the
\* deployment as it is.
CommitQuarantine(i) ==
  /\ calls[i].stage \in {"contained", "uncontained"}
  /\ \/ /\ row' = [row EXCEPT ![calls[i].arg] = "REVOKED"]
        /\ calls' = Served(i, Ok(Report(calls[i].arg, calls[i].stage = "contained")))
        /\ overtaken' = (overtaken \/ calls[i].by = "nobody")
        /\ excused' = excused \ {calls[i].arg}
     \/ /\ calls' = Served(i, ServerError)
        /\ excused' = excused \cup {calls[i].arg}
        /\ UNCHANGED <<row, overtaken>>
  /\ UNCHANGED <<page, replicas>>

\* A restored agent is active again; its deployment stays as it is.
RestoreAgent(i) ==
  /\ calls[i].op = "restoreAgent" /\ calls[i].stage = "sent" /\ ChainFree
  /\ \/ /\ row' = [row EXCEPT ![calls[i].arg] = "ACTIVE"]
        /\ excused' = excused \cup {calls[i].arg}
        /\ calls' = Served(i, Ok("ACTIVE"))
        /\ overtaken' = (overtaken \/ calls[i].by = "nobody")
     \/ /\ calls' = Served(i, ServerError)
        /\ UNCHANGED <<row, excused, overtaken>>
  /\ UNCHANGED <<page, replicas>>

ForeignAgentCommand ==
  /\ Room
  /\ \E op \in AgentCommands, a \in Agents : calls' = ForeignCall(op, a)
  /\ UNCHANGED <<page, agentRows, overtaken>>

\* PATCH of another operator.
PatchAgent(a) ==
  /\ \E s \in AgentStatuses \ {row[a]} :
       /\ row' = [row EXCEPT ![a] = s]
       /\ excused' = IF s = "ACTIVE" THEN excused \cup {a} ELSE excused \ {a}
  /\ overtaken' = TRUE
  /\ UNCHANGED <<page, calls, replicas>>

-----------------------------------------------------------------------------
(* Page                                                                    *)

RefreshAgents ==
  /\ ~page.isRefreshing /\ Room
  /\ page' = [page EXCEPT !.isRefreshing = TRUE]
  /\ calls' = Append(calls, FetchAgents("page"))
  /\ overtaken' = (overtaken /\ calls # <<>>)
  /\ UNCHANGED agentRows

\* An active agent can be quarantined, any other restored.
OpenAgentDialog ==
  /\ ~page.loading
  /\ \E a \in Agents :
       /\ page.agents[a] # "none" /\ page.actionInProgressId # a
       /\ page' = [page EXCEPT !.confirmTarget =
            [agent |-> a, action |-> IF page.agents[a] = "ACTIVE" THEN "quarantine" ELSE "restore"]]
  /\ UNCHANGED <<calls, agentRows, overtaken>>

CancelAgentDialog ==
  /\ page.confirmTarget # NoTarget /\ page.actionInProgressId = NoAgent
  /\ DialogAnswers(page.actionInProgressId = page.confirmTarget.agent)
  /\ page' = [page EXCEPT !.confirmTarget = NoTarget]
  /\ UNCHANGED <<calls, agentRows, overtaken>>

CloseReport ==
  /\ page.quarantineModalResult # NoReport
  /\ page' = [page EXCEPT !.quarantineModalResult = NoReport]
  /\ UNCHANGED <<calls, agentRows, overtaken>>

ExecuteAgentAction ==
  /\ page.confirmTarget # NoTarget /\ page.actionInProgressId = NoAgent
  /\ DialogAnswers(page.actionInProgressId = page.confirmTarget.agent) /\ Room
  /\ LET target == page.confirmTarget
     IN  /\ page' = [page EXCEPT !.actionInProgressId = target.agent]
         /\ calls' = Append(calls,
              Request(IF target.action = "quarantine" THEN "quarantineAgent" ELSE "restoreAgent",
                      target.agent, "handler"))
  /\ UNCHANGED <<agentRows, overtaken>>

\* Whether an answer to fetch i leaves an older fetch under way.
Overtakes(i) == \E j \in CallsOf("getAgents") : j < i

RosterAnswered(i, a, rest) ==
  /\ calls[i].op = "getAgents" /\ calls[i].by \in Waiting
  /\ page' = [page EXCEPT
                !.agents = IF a.ok THEN a.value ELSE @,
                !.loading = FALSE, !.isRefreshing = FALSE,
                !.actionInProgressId = IF calls[i].by = "handler" THEN NoAgent ELSE @]
  /\ calls' = rest
  /\ overtaken' = (overtaken \/ ~a.ok \/ Overtakes(i))
  /\ UNCHANGED agentRows

\* Mutant: the roster is not fetched again after a restore.
RestoreWithoutFetch(i, a, rest) ==
  /\ calls[i].op \in AgentCommands /\ calls[i].by = "handler"
  /\ page' = [page EXCEPT
                !.confirmTarget = NoTarget,
                !.quarantineModalResult =
                   IF a.ok /\ calls[i].op = "quarantineAgent" THEN a.value ELSE @,
                !.actionInProgressId = IF calls[i].op = "restoreAgent" THEN NoAgent ELSE @]
  /\ calls' = IF calls[i].op = "restoreAgent" THEN rest ELSE Append(rest, FetchAgents("handler"))
  /\ overtaken' = (overtaken \/ calls[i].stage # "served")
  /\ UNCHANGED agentRows

\* A quarantine shows its report; any command, also one that failed, closes
\* the dialog and awaits the roster.
AgentCommandAnswered(i, a, rest) ==
  /\ calls[i].op \in AgentCommands /\ calls[i].by = "handler"
  /\ page' = [page EXCEPT
                !.confirmTarget = NoTarget,
                !.quarantineModalResult =
                   IF a.ok /\ calls[i].op = "quarantineAgent" THEN a.value ELSE @]
  /\ calls' = Append(rest, FetchAgents("handler"))
  /\ overtaken' = (overtaken /\ rest # <<>>)
  /\ UNCHANGED agentRows

HearAgents(i) ==
  /\ calls[i].stage = "served"
  /\ \/ RosterAnswered(i, calls[i].answer, Heard(i))
     \/ AgentCommandAnswered(i, calls[i].answer, Heard(i))

GiveUpAgents(i) ==
  \/ RosterAnswered(i, NoResponse, GivenUp(i))
  \/ AgentCommandAnswered(i, NoResponse, GivenUp(i))

-----------------------------------------------------------------------------
ReturnToAgents ==
  Remount(AgentsMounted, FetchAgents("page")) /\ overtaken' = FALSE /\ UNCHANGED agentRows

AgentsMount ==
  /\ route = AgentsPath
  /\ page = AgentsMounted
  /\ calls = <<FetchAgents("page")>>

AgentsInit == AgentsMount /\ AgentsServerInit

ServeAgent(i) ==
  ServeAgents(i) \/ ContainAgent(i) \/ CommitQuarantine(i) \/ RestoreAgent(i)

AgentsPageNext ==
  \/ RefreshAgents \/ OpenAgentDialog \/ CancelAgentDialog \/ CloseReport \/ ExecuteAgentAction
  \/ \E i \in DOMAIN calls : HearAgents(i) \/ GiveUpAgents(i)

AgentsNext ==
  /\ On(AgentsPath)
  /\ \/ AgentsPageNext \/ ForeignAgentCommand \/ ReturnToAgents
     \/ \E a \in Agents : PatchAgent(a)
     \/ \E i \in DOMAIN calls : ServeAgent(i)
     \/ \E i \in DOMAIN calls : LoseRequest(i) /\ UNCHANGED <<agentRows, overtaken>>

AgentsSpec == AgentsInit /\ [][AgentsNext]_agentsVars

-----------------------------------------------------------------------------
(* Properties                                                              *)

AgentsTypeOK ==
  /\ route = AgentsPath =>
     page \in [agents : [Agents -> AgentStatuses \cup {"none"}], loading : BOOLEAN,
               isRefreshing : BOOLEAN, actionInProgressId : Agents \cup {NoAgent},
               confirmTarget : [agent : Agents, action : {"quarantine", "restore"}] \cup {NoTarget},
               quarantineModalResult : {Report(a, c) : a \in Agents, c \in BOOLEAN} \cup {NoReport}]
  /\ row \in [Agents -> AgentStatuses] /\ replicas \in [Agents -> {0, 1}]
  /\ excused \subseteq Agents /\ overtaken \in BOOLEAN

\* One quarantine or restore of the page at a time, whichever agent it is for.
OneAgentCommand ==
  LET handled == {i \in DOMAIN calls : calls[i].by = "handler"}
  IN  route = AgentsPath =>
      /\ \A i, j \in handled : i = j
      /\ page.actionInProgressId # NoAgent <=> handled # {}

\* When nothing is under way, the roster is the table, unless an answer
\* overtook a newer one or failed, or somebody else changed an agent: the page
\* shows what its own commands did although it never polls.
RosterIsExplained ==
  route = AgentsPath /\ calls = <<>> => overtaken \/ page.agents = row

\* The report never claims success for a deployment that runs.
ReportIsTrue ==
  LET report == page.quarantineModalResult
  IN  route = AgentsPath /\ report.overall = "SUCCESS" => replicas[report.agent] = 0

\* An active agent whose deployment is stopped was set to active afterwards, or
\* its quarantine is under way or died before the commit.
StoppedIsExplained ==
  route = AgentsPath => \A a \in Agents : replicas[a] = 0 /\ row[a] = "ACTIVE" =>
    \/ a \in excused
    \/ \E i \in DOMAIN calls : calls[i].arg = a /\ calls[i].stage \in {"contained", "uncontained"}
=============================================================================
