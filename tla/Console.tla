------------------------------- MODULE Console -------------------------------
(***************************************************************************)
(* The operator console (App.tsx): one of seven pages is mounted at a      *)
(* time, and each of them works on a part of the server of its own. The    *)
(* part of the mounted page is modelled in full; the others rest, since    *)
(* no page shows them and what a page left under way is modelled where     *)
(* the operator returns to it (Remount).                                   *)
(***************************************************************************)
EXTENDS EmergencyPage, ApprovalsPage, AgentsPage, OverviewPage, AuditPage,
        SimulatorPage, PoliciesPage

\* Server parts with the history that belongs to them.
overviewPart  == <<published, overviewHooks>>
agentsPart    == <<agentRows, overtaken>>
auditPart     == <<auditRows, eventsStale>>
simulatorPart == <<decided, requestCounter>>

consoleVars == <<route, page, calls, fleet, approvalRows, agentsPart, overviewPart,
                 auditPart, simulatorPart, versions>>

Paths == {EmergencyPath, ApprovalsPath, AgentsPath, OverviewPath, AuditPath,
          SimulatorPath, PoliciesPath}

MountedPage(path) ==
  CASE path = EmergencyPath -> EmergencyMounted
    [] path = ApprovalsPath -> ApprovalsMounted
    [] path = AgentsPath    -> AgentsMounted
    [] path = OverviewPath  -> OverviewMounted
    [] path = AuditPath     -> AuditMounted
    [] path = SimulatorPath -> SimulatorMounted(1)
    [] path = PoliciesPath  -> PoliciesMounted

\* What the effect of a page that was just mounted asks for.
FirstFetch(path) ==
  CASE path = EmergencyPath -> FetchStatus("page")
    [] path = ApprovalsPath -> FetchApprovalList("PENDING", "page")
    [] path = AgentsPath    -> FetchAgents("page")
    [] path = OverviewPath  -> FetchAll(FALSE)
    [] path = AuditPath     -> FetchEvents(AnyDecision, 1)
    [] path = SimulatorPath -> LoadAgents
    [] path = PoliciesPath  -> FetchPolicies

\* The parts of the server at rest.
FleetRests(key, up, recorded, excuse) ==
  key = "none" /\ up = TRUE /\ recorded = "ACTIVE" /\ excuse = FALSE
InboxRests(status, allowed) == status = [r \in Approvals |-> "absent"] /\ allowed = {}
RosterRests(rows, scale, excuses, stale) ==
  /\ rows = [a \in Agents |-> "ACTIVE"] /\ scale = [a \in Agents |-> 1]
  /\ excuses = {} /\ stale = FALSE
DashboardRests(current, fetching, due, synced) ==
  current = [r \in Resources |-> 1] /\ fetching = TRUE /\ due = FALSE /\ synced = FALSE
LogRests(events, sound, stale) == events = <<>> /\ sound = TRUE /\ stale = FALSE
HarnessRests(decisions, next) == decisions = [id \in RequestIds |-> Undecided] /\ next = 2
StoreRests(numbers) == numbers = [p \in Policies |-> <<>>]

-----------------------------------------------------------------------------
\* The first page finds its part of the server in any state of its own Init.
ConsoleInit ==
  /\ route \in Paths
  /\ page = MountedPage(route) /\ calls = <<FirstFetch(route)>>
  /\ IF route = EmergencyPath THEN FleetInit ELSE FleetRests(fleetKey, redisUp, fleetLog, fleetExcuse)
  /\ IF route = ApprovalsPath THEN InboxInit ELSE InboxRests(approval, authorized)
  /\ IF route = AgentsPath THEN AgentsServerInit ELSE RosterRests(row, replicas, excused, overtaken)
  /\ DashboardRests(published, isFetching, effectDue, timerSynced)
  /\ IF route = AuditPath THEN AuditServerInit ELSE LogRests(log, intact, eventsStale)
  /\ IF route = SimulatorPath THEN SimulatorServerInit /\ requestCounter = 2
                              ELSE HarnessRests(decided, requestCounter)
  /\ IF route = PoliciesPath THEN PoliciesServerInit ELSE StoreRests(versions)

\* A link of the sidebar: the page is unmounted, another one is mounted.
Navigate(path) ==
  /\ path # route /\ route' = path
  /\ page' = MountedPage(path) /\ calls' = <<FirstFetch(path)>>
  /\ FleetRests(fleetKey', redisUp', fleetLog', fleetExcuse')
  /\ InboxRests(approval', authorized')
  /\ RosterRests(row', replicas', excused', overtaken')
  /\ DashboardRests(published', isFetching', effectDue', timerSynced')
  /\ LogRests(log', intact', eventsStale')
  /\ HarnessRests(decided', requestCounter')
  /\ StoreRests(versions')

ConsoleNext ==
  \/ EmergencyNext /\ UNCHANGED <<approvalRows, agentsPart, overviewPart, auditPart, simulatorPart, versions>>
  \/ ApprovalsNext /\ UNCHANGED <<fleet, agentsPart, overviewPart, auditPart, simulatorPart, versions>>
  \/ AgentsNext /\ UNCHANGED <<fleet, approvalRows, overviewPart, auditPart, simulatorPart, versions>>
  \/ OverviewNext /\ UNCHANGED <<fleet, approvalRows, agentsPart, auditPart, simulatorPart, versions>>
  \/ AuditNext /\ UNCHANGED <<fleet, approvalRows, agentsPart, overviewPart, simulatorPart, versions>>
  \/ SimulatorNext /\ UNCHANGED <<fleet, approvalRows, agentsPart, overviewPart, auditPart, versions>>
  \/ PoliciesNext /\ UNCHANGED <<fleet, approvalRows, agentsPart, overviewPart, auditPart, simulatorPart>>
  \/ \E path \in Paths : Navigate(path)

ConsoleSpec == ConsoleInit /\ [][ConsoleNext]_consoleVars

ConsoleFairSpec ==
  ConsoleSpec /\ EmergencyFairness /\ ApprovalsFairness /\ OverviewFairness

-----------------------------------------------------------------------------
(* Properties                                                              *)

\* Type invariant of the console: of the mounted page and of every part of
\* the server.
ConsoleTypeOK ==
  /\ route \in Paths
  /\ EmergencyTypeOK /\ ApprovalsTypeOK /\ AgentsTypeOK /\ OverviewTypeOK
  /\ AuditTypeOK /\ SimulatorTypeOK /\ PoliciesTypeOK

\* Whatever page is mounted, at most one command of its handler is under way,
\* and its controls know: polls, refreshes, other operators and the commands
\* of earlier visits never let the operator send a second one meanwhile.
OneCommandAtATime == OneEmergencyCommand /\ OneApprovalCommand /\ OneAgentCommand
=============================================================================
