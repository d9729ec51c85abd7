---------------------------- MODULE ConsoleProofs ----------------------------
(***************************************************************************)
(* Theorems about the console as a whole: what the invariants of the seven *)
(* pages say holds however the operator moves between the pages. The       *)
(* invariant is the one of the mounted page, and that the parts of the     *)
(* other pages rest.                                                       *)
(***************************************************************************)
EXTENDS Console, PageProofs

FleetPart ==
  IF route = EmergencyPath THEN EmergencyInv
  ELSE FleetRests(fleetKey, redisUp, fleetLog, fleetExcuse)

InboxPart ==
  IF route = ApprovalsPath THEN InboxInv ELSE InboxRests(approval, authorized)

RosterPart ==
  IF route = AgentsPath THEN RosterInv /\ RosterFresh
  ELSE RosterRests(row, replicas, excused, overtaken)

DashboardPart ==
  IF route = OverviewPath THEN DashboardInv
  ELSE DashboardRests(published, isFetching, effectDue, timerSynced)

LogPart ==
  IF route = AuditPath THEN AuditInv ELSE LogRests(log, intact, eventsStale)

HarnessPart ==
  IF route = SimulatorPath THEN HarnessInv ELSE HarnessRests(decided, requestCounter)

StorePart ==
  IF route = PoliciesPath THEN StoreInv /\ ListInv ELSE StoreRests(versions)

ConsoleInv ==
  /\ route \in Paths
  /\ FleetPart /\ InboxPart /\ RosterPart /\ DashboardPart /\ LogPart /\ HarnessPart
  /\ StorePart

\* What a step of another page leaves alone.
fleetRows == <<fleetKey, redisUp, fleetLog, fleetExcuse>>
inboxRows == <<approval, authorized>>
rosterRows == <<row, replicas, excused, overtaken>>
dashboardRows == <<published, isFetching, effectDue, timerSynced>>
logRows == <<log, intact, eventsStale>>
harnessRows == <<decided, requestCounter>>

-----------------------------------------------------------------------------
LEMMA PathsDiffer ==
  /\ EmergencyPath \notin {ApprovalsPath, AgentsPath, OverviewPath, AuditPath, SimulatorPath,
                           PoliciesPath}
  /\ ApprovalsPath \notin {AgentsPath, OverviewPath, AuditPath, SimulatorPath, PoliciesPath}
  /\ AgentsPath \notin {OverviewPath, AuditPath, SimulatorPath, PoliciesPath}
  /\ OverviewPath \notin {AuditPath, SimulatorPath, PoliciesPath}
  /\ AuditPath \notin {SimulatorPath, PoliciesPath}
  /\ SimulatorPath # PoliciesPath
BY DEF EmergencyPath, PoliciesPath, ApprovalsPath, AgentsPath, OverviewPath, AuditPath,
       SimulatorPath

LEMMA Mounts ==
  /\ MountedPage(EmergencyPath) = EmergencyMounted
  /\ MountedPage(ApprovalsPath) = ApprovalsMounted
  /\ MountedPage(AgentsPath) = AgentsMounted
  /\ MountedPage(OverviewPath) = OverviewMounted
  /\ MountedPage(AuditPath) = AuditMounted
  /\ MountedPage(SimulatorPath) = SimulatorMounted(1)
  /\ MountedPage(PoliciesPath) = PoliciesMounted
  /\ FirstFetch(EmergencyPath) = FetchStatus("page")
  /\ FirstFetch(ApprovalsPath) = FetchApprovalList("PENDING", "page")
  /\ FirstFetch(AgentsPath) = FetchAgents("page")
  /\ FirstFetch(OverviewPath) = FetchAll(FALSE)
  /\ FirstFetch(AuditPath) = FetchEvents(AnyDecision, 1)
  /\ FirstFetch(SimulatorPath) = LoadAgents
  /\ FirstFetch(PoliciesPath) = FetchPolicies
BY DEF MountedPage, FirstFetch, EmergencyPath, PoliciesPath, ApprovalsPath, AgentsPath,
       OverviewPath, AuditPath, SimulatorPath

(* A page is mounted, in a part of the server that rests or, at the start, *)
(* is in one of its initial states.                                        *)
Mount ==
  /\ route \in Paths
  /\ page = MountedPage(route) /\ calls = <<FirstFetch(route)>>
  /\ IF route = EmergencyPath THEN FleetInit
     ELSE FleetRests(fleetKey, redisUp, fleetLog, fleetExcuse)
  /\ IF route = ApprovalsPath THEN InboxInit \/ InboxRests(approval, authorized)
     ELSE InboxRests(approval, authorized)
  /\ IF route = AgentsPath
     THEN AgentsServerInit \/ RosterRests(row, replicas, excused, overtaken)
     ELSE RosterRests(row, replicas, excused, overtaken)
  /\ DashboardRests(published, isFetching, effectDue, timerSynced)
  /\ IF route = AuditPath THEN AuditServerInit \/ LogRests(log, intact, eventsStale)
     ELSE LogRests(log, intact, eventsStale)
  /\ IF route = SimulatorPath
     THEN \/ SimulatorServerInit /\ requestCounter = 2
          \/ HarnessRests(decided, requestCounter)
     ELSE HarnessRests(decided, requestCounter)
  /\ IF route = PoliciesPath THEN PoliciesServerInit \/ StoreRests(versions)
     ELSE StoreRests(versions)

LEMMA MountInv == Mount => ConsoleInv
<1>1. SUFFICES ASSUME Mount PROVE ConsoleInv
  OBVIOUS
<1>2. FleetPart
  BY <1>1, Mounts, EmergencyMountInv DEF FleetPart, Mount
<1>3. InboxPart
  BY <1>1, Mounts, ApprovalsMountInv DEF InboxPart, InboxRests, Mount
<1>4. RosterPart
  <2>1. CASE route = AgentsPath
    <3>1. page = AgentsMounted /\ calls = <<FetchAgents("page")>> /\ overtaken = FALSE
      BY <1>1, <2>1, Mounts DEF Mount, AgentsServerInit, RosterRests
    <3>2. RosterFresh BY <3>1, FreshMountInv
    <3>3. QED BY <1>1, <2>1, <3>1, <3>2, AgentsMountInv DEF RosterPart, RosterRests, Mount
  <2>2. CASE route # AgentsPath BY <1>1, <2>2 DEF RosterPart, Mount
  <2>3. QED BY <2>1, <2>2
<1>5. DashboardPart
  <2>1. CASE route = OverviewPath
    <3>1. published \in [Resources -> Versions]
      BY <1>1, MaxVersionAssumption DEF Mount, DashboardRests, Versions
    <3>2. OverviewStarts
      BY <1>1, <2>1, <3>1, Mounts DEF Mount, DashboardRests, OverviewStarts
    <3>3. QED BY <2>1, <3>2, OverviewMountInv DEF DashboardPart
  <2>2. CASE route # OverviewPath BY <1>1, <2>2 DEF DashboardPart, Mount
  <2>3. QED BY <2>1, <2>2
<1>6. LogPart
  BY <1>1, Mounts, AuditMountInv DEF LogPart, LogRests, Mount
<1>7. HarnessPart
  BY <1>1, Mounts, SimulatorMountInv DEF HarnessPart, HarnessRests, Mount
<1>8. StorePart
  BY <1>1, Mounts, PoliciesMountInv, ListMountInv DEF StorePart, StoreRests, Mount
<1>9. QED BY <1>1, <1>2, <1>3, <1>4, <1>5, <1>6, <1>7, <1>8 DEF ConsoleInv, Mount

LEMMA MountInvAfterAStep == Mount' => ConsoleInv'
BY MountInv, PTL

LEMMA ConsoleInitInv ==
  ASSUME ConsoleInit
  PROVE  ConsoleInv
BY MountInv DEF ConsoleInit, Mount

LEMMA NavigateInv ==
  ASSUME NEW path \in Paths, Navigate(path)
  PROVE  ConsoleInv'
<1>1. /\ route' \in Paths
      /\ page' = MountedPage(route') /\ calls' = <<FirstFetch(route')>>
      /\ FleetRests(fleetKey', redisUp', fleetLog', fleetExcuse')
      /\ InboxRests(approval', authorized')
      /\ RosterRests(row', replicas', excused', overtaken')
      /\ DashboardRests(published', isFetching', effectDue', timerSynced')
      /\ LogRests(log', intact', eventsStale')
      /\ HarnessRests(decided', requestCounter')
      /\ StoreRests(versions')
  BY DEF Navigate
<1>2. FleetInit'
  BY <1>1 DEF FleetRests, FleetInit, FleetStates
<1>3. Mount'
  BY <1>1, <1>2 DEF Mount
<1>4. QED BY <1>3, MountInvAfterAStep

-----------------------------------------------------------------------------
(* A part whose page is not mounted keeps resting.                         *)
LEMMA OthersKeepResting ==
  ASSUME ConsoleInv, route' = route
  PROVE  /\ route # EmergencyPath /\ UNCHANGED fleetRows => FleetPart'
         /\ route # ApprovalsPath /\ UNCHANGED inboxRows => InboxPart'
         /\ route # AgentsPath /\ UNCHANGED rosterRows => RosterPart'
         /\ route # OverviewPath /\ UNCHANGED dashboardRows => DashboardPart'
         /\ route # AuditPath /\ UNCHANGED logRows => LogPart'
         /\ route # SimulatorPath /\ UNCHANGED harnessRows => HarnessPart'
         /\ route # PoliciesPath /\ UNCHANGED versions => StorePart'
<1>1. route # EmergencyPath /\ UNCHANGED fleetRows => FleetPart'
  BY DEF ConsoleInv, FleetPart, FleetRests, fleetRows
<1>2. route # ApprovalsPath /\ UNCHANGED inboxRows => InboxPart'
  BY DEF ConsoleInv, InboxPart, InboxRests, inboxRows
<1>3. route # AgentsPath /\ UNCHANGED rosterRows => RosterPart'
  BY DEF ConsoleInv, RosterPart, RosterRests, rosterRows
<1>4. route # OverviewPath /\ UNCHANGED dashboardRows => DashboardPart'
  BY DEF ConsoleInv, DashboardPart, DashboardRests, dashboardRows
<1>5. route # AuditPath /\ UNCHANGED logRows => LogPart'
  BY DEF ConsoleInv, LogPart, LogRests, logRows
<1>6. route # SimulatorPath /\ UNCHANGED harnessRows => HarnessPart'
  BY DEF ConsoleInv, HarnessPart, HarnessRests, harnessRows
<1>7. route # PoliciesPath /\ UNCHANGED versions => StorePart'
  BY DEF ConsoleInv, StorePart, StoreRests
<1>8. QED BY <1>1, <1>2, <1>3, <1>4, <1>5, <1>6, <1>7

(* A step of the page of one part, while the other parts rest.             *)
LEMMA EmergencyPageStep ==
  ASSUME ConsoleInv, EmergencyNext,
         UNCHANGED <<inboxRows, rosterRows, dashboardRows, logRows, harnessRows, versions>>
  PROVE  ConsoleInv'
<1>1. route = EmergencyPath /\ route' = route
  BY DEF EmergencyNext, On
<1>2. FleetPart'
  BY <1>1, EmergencyNextInv DEF ConsoleInv, FleetPart
<1>3. QED BY <1>1, <1>2, PathsDiffer, OthersKeepResting DEF ConsoleInv

LEMMA ApprovalsPageStep ==
  ASSUME ConsoleInv, ApprovalsNext,
         UNCHANGED <<fleetRows, rosterRows, dashboardRows, logRows, harnessRows, versions>>
  PROVE  ConsoleInv'
<1>1. route = ApprovalsPath /\ route' = route
  BY DEF ApprovalsNext, On
<1>2. InboxPart'
  BY <1>1, ApprovalsNextInv DEF ConsoleInv, InboxPart
<1>3. QED BY <1>1, <1>2, PathsDiffer, OthersKeepResting DEF ConsoleInv

LEMMA AgentsPageStep ==
  ASSUME ConsoleInv, AgentsNext,
         UNCHANGED <<fleetRows, inboxRows, dashboardRows, logRows, harnessRows, versions>>
  PROVE  ConsoleInv'
<1>1. route = AgentsPath /\ route' = route
  BY DEF AgentsNext, On
<1>2. RosterPart'
  BY <1>1, AgentsNextInv, FreshNextInv DEF ConsoleInv, RosterPart
<1>3. QED BY <1>1, <1>2, PathsDiffer, OthersKeepResting DEF ConsoleInv

LEMMA OverviewPageStep ==
  ASSUME ConsoleInv, OverviewNext,
         UNCHANGED <<fleetRows, inboxRows, rosterRows, logRows, harnessRows, versions>>
  PROVE  ConsoleInv'
<1>1. route = OverviewPath /\ route' = route
  BY DEF OverviewNext, On
<1>2. DashboardPart'
  BY <1>1, OverviewNextInv DEF ConsoleInv, DashboardPart
<1>3. QED BY <1>1, <1>2, PathsDiffer, OthersKeepResting DEF ConsoleInv

LEMMA AuditPageStep ==
  ASSUME ConsoleInv, AuditNext,
         UNCHANGED <<fleetRows, inboxRows, rosterRows, dashboardRows, harnessRows, versions>>
  PROVE  ConsoleInv'
<1>1. route = AuditPath /\ route' = route
  BY DEF AuditNext, On
<1>2. LogPart'
  BY <1>1, AuditNextInv DEF ConsoleInv, LogPart
<1>3. QED BY <1>1, <1>2, PathsDiffer, OthersKeepResting DEF ConsoleInv

LEMMA SimulatorPageStep ==
  ASSUME ConsoleInv, SimulatorNext,
         UNCHANGED <<fleetRows, inboxRows, rosterRows, dashboardRows, logRows, versions>>
  PROVE  ConsoleInv'
<1>1. route = SimulatorPath /\ route' = route
  BY DEF SimulatorNext, On
<1>2. HarnessPart'
  BY <1>1, SimulatorNextInv DEF ConsoleInv, HarnessPart
<1>3. QED BY <1>1, <1>2, PathsDiffer, OthersKeepResting DEF ConsoleInv

LEMMA PoliciesPageStep ==
  ASSUME ConsoleInv, PoliciesNext,
         UNCHANGED <<fleetRows, inboxRows, rosterRows, dashboardRows, logRows, harnessRows>>
  PROVE  ConsoleInv'
<1>1. route = PoliciesPath /\ route' = route
  BY DEF PoliciesNext, On
<1>2. StorePart'
  BY <1>1, PoliciesNextInv, ListNextInv DEF ConsoleInv, StorePart
<1>3. QED BY <1>1, <1>2, PathsDiffer, OthersKeepResting DEF ConsoleInv

(* A stuttering step: nothing that the invariant mentions changes.         *)
LEMMA StutterInv == ConsoleInv /\ UNCHANGED consoleVars => ConsoleInv'
<1>1. SUFFICES ASSUME ConsoleInv, UNCHANGED consoleVars PROVE ConsoleInv'
  OBVIOUS
<1>2. /\ route' = route /\ page' = page /\ calls' = calls
      /\ UNCHANGED <<fleetRows, inboxRows, rosterRows, dashboardRows, logRows, harnessRows,
                     versions>>
  BY <1>1 DEF consoleVars, fleet, approvalRows, agentsPart, agentRows, overviewPart,
              overviewHooks, auditPart, auditRows, simulatorPart, fleetRows, inboxRows,
              rosterRows, dashboardRows, logRows, harnessRows
<1>3. FleetPart'
  <2>1. FleetTypes' = FleetTypes /\ FleetLedger' = FleetLedger
    BY <1>2 DEF FleetTypes, FleetLedger, Matches, fleetRows
  <2>2. QED BY <1>1, <1>2, <2>1 DEF ConsoleInv, FleetPart, FleetRests, EmergencyInv, fleetRows
<1>4. InboxPart'
  BY <1>1, <1>2 DEF ConsoleInv, InboxPart, InboxRests, InboxInv, InboxRows, inboxRows
<1>5. RosterPart'
  BY <1>1, <1>2 DEF ConsoleInv, RosterPart, RosterRests, RosterInv, RosterFresh, AgentTypes,
                    rosterRows
<1>6. DashboardPart'
  BY <1>1, <1>2 DEF ConsoleInv, DashboardPart, DashboardRests, DashboardInv, dashboardRows
<1>7. LogPart'
  BY <1>1, <1>2 DEF ConsoleInv, LogPart, LogRests, AuditInv, logRows
<1>8. HarnessPart'
  BY <1>1, <1>2 DEF ConsoleInv, HarnessPart, HarnessRests, HarnessInv, harnessRows
<1>9. StorePart'
  BY <1>1, <1>2 DEF ConsoleInv, StorePart, StoreRests, StoreInv, ListInv,
                    VersionsAreConsecutive, UpdatesNamePolicies, NumbersAreBounded
<1>10. QED BY <1>1, <1>2, <1>3, <1>4, <1>5, <1>6, <1>7, <1>8, <1>9 DEF ConsoleInv

LEMMA ConsoleNextInv == ConsoleInv /\ [ConsoleNext]_consoleVars => ConsoleInv'
<1>1. SUFFICES ASSUME ConsoleInv, [ConsoleNext]_consoleVars PROVE ConsoleInv'
  OBVIOUS
<1> USE <1>1 DEF fleet, approvalRows, agentsPart, agentRows, overviewPart, overviewHooks,
                 auditPart, auditRows, simulatorPart, fleetRows, inboxRows, rosterRows,
                 dashboardRows, logRows, harnessRows
<1>2. CASE /\ EmergencyNext
           /\ UNCHANGED <<approvalRows, agentsPart, overviewPart, auditPart, simulatorPart, versions>>
  BY <1>2, EmergencyPageStep
<1>3. CASE /\ ApprovalsNext
           /\ UNCHANGED <<fleet, agentsPart, overviewPart, auditPart, simulatorPart, versions>>
  BY <1>3, ApprovalsPageStep
<1>4. CASE /\ AgentsNext
           /\ UNCHANGED <<fleet, approvalRows, overviewPart, auditPart, simulatorPart, versions>>
  BY <1>4, AgentsPageStep
<1>5. CASE /\ OverviewNext
           /\ UNCHANGED <<fleet, approvalRows, agentsPart, auditPart, simulatorPart, versions>>
  BY <1>5, OverviewPageStep
<1>6. CASE /\ AuditNext
           /\ UNCHANGED <<fleet, approvalRows, agentsPart, overviewPart, simulatorPart, versions>>
  BY <1>6, AuditPageStep
<1>7. CASE /\ SimulatorNext
           /\ UNCHANGED <<fleet, approvalRows, agentsPart, overviewPart, auditPart, versions>>
  BY <1>7, SimulatorPageStep
<1>8. CASE /\ PoliciesNext
           /\ UNCHANGED <<fleet, approvalRows, agentsPart, overviewPart, auditPart, simulatorPart>>
  BY <1>8, PoliciesPageStep
<1>9. ASSUME NEW path \in Paths, Navigate(path) PROVE ConsoleInv'
  BY <1>9, NavigateInv
<1>10. CASE UNCHANGED consoleVars
  BY <1>10, StutterInv
<1>11. QED
  BY <1>2, <1>3, <1>4, <1>5, <1>6, <1>7, <1>8, <1>9, <1>10 DEF ConsoleNext

LEMMA ConsoleInvHolds == ConsoleSpec => []ConsoleInv
<1>1. ConsoleInit => ConsoleInv BY ConsoleInitInv
<1>2. QED BY <1>1, ConsoleNextInv, PTL DEF ConsoleSpec

-----------------------------------------------------------------------------
(* The types of a part, whether its page is mounted or not.                *)
LEMMA ConsoleTypes == ConsoleInv => ConsoleTypeOK
<1>1. SUFFICES ASSUME ConsoleInv PROVE ConsoleTypeOK
  OBVIOUS
<1> USE <1>1 DEF ConsoleInv
<1>2. EmergencyTypeOK
  <2>1. CASE route = EmergencyPath
    BY <2>1 DEF FleetPart, EmergencyInv, FleetTypes, EmergencyPages, EmergencyTypeOK
  <2>2. CASE route # EmergencyPath
    BY <2>2 DEF FleetPart, FleetRests, EmergencyTypeOK, FleetStates
  <2>3. QED BY <2>1, <2>2
<1>3. ApprovalsTypeOK
  <2>1. CASE route = ApprovalsPath
    BY <2>1 DEF InboxPart, InboxInv, InboxRows, InboxPages, Lists, StatusFilters, Ids, Notices,
                ApprovalsTypeOK
  <2>2. CASE route # ApprovalsPath
    BY <2>2 DEF InboxPart, InboxRests, ApprovalsTypeOK, ApprovalStatuses
  <2>3. QED BY <2>1, <2>2
<1>4. AgentsTypeOK
  <2>1. CASE route = AgentsPath
    BY <2>1 DEF RosterPart, RosterInv, RosterFresh, AgentTypes, AgentPages, Roster, AgentIds,
                Reports, AgentsTypeOK
  <2>2. CASE route # AgentsPath
    <3>1. row = [a \in Agents |-> "ACTIVE"] /\ replicas = [a \in Agents |-> 1]
      BY <2>2 DEF RosterPart, RosterRests
    <3>2. row \in [Agents -> AgentStatuses] BY <3>1 DEF AgentStatuses
    <3>3. replicas \in [Agents -> {0, 1}] BY <3>1
    <3>4. excused \subseteq Agents /\ overtaken \in BOOLEAN
      BY <2>2 DEF RosterPart, RosterRests
    <3>5. QED BY <2>2, <3>2, <3>3, <3>4 DEF AgentsTypeOK
  <2>3. QED BY <2>1, <2>2
<1>5. OverviewTypeOK
  <2>1. CASE route = OverviewPath
    BY <2>1, DashboardInvImplies DEF DashboardPart
  <2>2. CASE route # OverviewPath
    <3>1. published = [r \in Resources |-> 1] BY <2>2 DEF DashboardPart, DashboardRests
    <3>2. published \in [Resources -> Versions] BY <3>1, MaxVersionAssumption DEF Versions
    <3>3. isFetching = TRUE /\ effectDue = FALSE /\ timerSynced = FALSE
      BY <2>2 DEF DashboardPart, DashboardRests
    <3>4. QED BY <2>2, <3>2, <3>3 DEF OverviewTypeOK
  <2>3. QED BY <2>1, <2>2
<1>6. AuditTypeOK
  <2>1. CASE route = AuditPath
    BY <2>1, AuditInvImplies DEF LogPart
  <2>2. CASE route # AuditPath
    <3>1. log = <<>> /\ intact = TRUE /\ eventsStale = FALSE BY <2>2 DEF LogPart, LogRests
    <3>2. log \in Seq(Decisions) BY <3>1
    <3>3. QED BY <2>2, <3>1, <3>2 DEF AuditTypeOK
  <2>3. QED BY <2>1, <2>2
<1>7. SimulatorTypeOK
  <2>1. CASE route = SimulatorPath
    BY <2>1, HarnessInvImplies DEF HarnessPart
  <2>2. CASE route # SimulatorPath
    BY <2>2, MaxRequestIdAssumption DEF HarnessPart, HarnessRests, SimulatorTypeOK
  <2>3. QED BY <2>1, <2>2
<1>8. PoliciesTypeOK
  <2>1. CASE route = PoliciesPath
    BY <2>1, StoreTypes DEF StorePart, ListInv, PolicyPages, PoliciesTypeOK
  <2>2. CASE route # PoliciesPath
    <3>1. versions = [p \in Policies |-> <<>>] BY <2>2 DEF StorePart, StoreRests
    <3>2. <<>> \in Seq(Nat \ {0}) OBVIOUS
    <3>3. versions \in [Policies -> Seq(Nat \ {0})] BY <3>1, <3>2
    <3>4. QED BY <2>2, <3>3 DEF PoliciesTypeOK
  <2>3. QED BY <2>1, <2>2
<1>9. QED BY <1>2, <1>3, <1>4, <1>5, <1>6, <1>7, <1>8 DEF ConsoleTypeOK

(* What the invariant says in the words of the properties, each of which   *)
(* is about one page.                                                      *)
LEMMA ConsoleInvImplies ==
  ConsoleInv => /\ FleetKeyIsRecorded /\ OneCommandAtATime /\ NoticesAreTrue
                /\ ReportIsTrue /\ StoppedIsExplained /\ RosterIsExplained
                /\ EventsAreExplained /\ SandboxResultIsRecorded /\ VersionsAreConsecutive
<1>1. SUFFICES ASSUME ConsoleInv
               PROVE  /\ FleetKeyIsRecorded /\ OneCommandAtATime /\ NoticesAreTrue
                      /\ ReportIsTrue /\ StoppedIsExplained /\ RosterIsExplained
                      /\ EventsAreExplained /\ SandboxResultIsRecorded /\ VersionsAreConsecutive
  OBVIOUS
<1>2. FleetKeyIsRecorded /\ OneEmergencyCommand
  <2>1. CASE route = EmergencyPath
    BY <1>1, <2>1, EmergencyInvImplies DEF ConsoleInv, FleetPart
  <2>2. CASE route # EmergencyPath
    BY <1>1, <2>2 DEF ConsoleInv, FleetPart, FleetRests, FleetKeyIsRecorded, OneEmergencyCommand
  <2>3. QED BY <2>1, <2>2
<1>3. OneApprovalCommand /\ NoticesAreTrue
  <2>1. CASE route = ApprovalsPath
    BY <1>1, <2>1, InboxInvImplies DEF ConsoleInv, InboxPart
  <2>2. CASE route # ApprovalsPath
    BY <2>2 DEF OneApprovalCommand, NoticesAreTrue
  <2>3. QED BY <2>1, <2>2
<1>4. OneAgentCommand /\ ReportIsTrue /\ StoppedIsExplained /\ RosterIsExplained
  <2>1. CASE route = AgentsPath
    BY <1>1, <2>1, RosterInvImplies, RosterFreshImplies DEF ConsoleInv, RosterPart
  <2>2. CASE route # AgentsPath
    BY <2>2 DEF OneAgentCommand, ReportIsTrue, StoppedIsExplained, RosterIsExplained
  <2>3. QED BY <2>1, <2>2
<1>5. EventsAreExplained
  <2>1. CASE route = AuditPath
    BY <1>1, <2>1, AuditInvImplies DEF ConsoleInv, LogPart
  <2>2. CASE route # AuditPath BY <2>2 DEF EventsAreExplained
  <2>3. QED BY <2>1, <2>2
<1>6. SandboxResultIsRecorded
  <2>1. CASE route = SimulatorPath
    BY <1>1, <2>1, HarnessInvImplies DEF ConsoleInv, HarnessPart
  <2>2. CASE route # SimulatorPath BY <2>2 DEF SandboxResultIsRecorded
  <2>3. QED BY <2>1, <2>2
<1>7. VersionsAreConsecutive
  <2>1. CASE route = PoliciesPath
    BY <1>1, <2>1 DEF ConsoleInv, StorePart, StoreInv
  <2>2. CASE route # PoliciesPath
    BY <1>1, <2>2 DEF ConsoleInv, StorePart, StoreRests, VersionsAreConsecutive
  <2>3. QED BY <2>1, <2>2
<1>8. QED BY <1>2, <1>3, <1>4, <1>5, <1>6, <1>7 DEF OneCommandAtATime

(* A step on the dashboard: the other pages take no step there, and a link *)
(* leaves it.                                                              *)
LEMMA DashboardStep ==
  ASSUME ConsoleInv, [ConsoleNext]_consoleVars, On(OverviewPath), ~ReturnToOverview
  PROVE  \/ \A r \in Resources : page.shown[r] <= page'.shown[r]
         \/ UNCHANGED overviewVars
<1>1. route = OverviewPath /\ route' = route
  BY DEF On
<1>2. CASE OverviewNext
  BY <1>1, <1>2, OverviewNextInv DEF ConsoleInv, DashboardPart
<1>3. CASE EmergencyNext \/ ApprovalsNext \/ AgentsNext \/ AuditNext \/ SimulatorNext \/ PoliciesNext
  BY <1>1, <1>3, PathsDiffer
  DEF EmergencyNext, ApprovalsNext, AgentsNext, AuditNext, SimulatorNext, PoliciesNext, On
<1>4. ASSUME NEW path \in Paths, Navigate(path) PROVE FALSE
  BY <1>1, <1>4 DEF Navigate
<1>5. CASE UNCHANGED consoleVars
  BY <1>5 DEF consoleVars, overviewPart, overviewVars
<1>6. QED BY <1>2, <1>3, <1>4, <1>5 DEF ConsoleNext

-----------------------------------------------------------------------------
(* Every part of the server, and the page that is mounted, keep their      *)
(* types: the versions of a policy are positive, the report of a           *)
(* quarantine is one that the service can build, the table of the events   *)
(* lists events of the log (Console.tla, App.tsx and the pages).           *)
THEOREM TheConsoleTypeIsInvariant == ConsoleSpec => []ConsoleTypeOK
BY ConsoleInvHolds, ConsoleTypes, PTL

(* The status that the gates read is the one of the last event of the log, *)
(* unless commands overlapped, an event was not recorded or Redis lost its *)
(* key (routers/fleet.py sets the key before it records).                  *)
THEOREM TheFleetKeyIsRecorded == ConsoleSpec => []FleetKeyIsRecorded
BY ConsoleInvHolds, ConsoleInvImplies, PTL

(* Whatever page is mounted, at most one command of its handler is under   *)
(* way and its controls are locked exactly then: polls, other operators    *)
(* and earlier visits never let a second one out (Emergency.tsx,           *)
(* Approvals.tsx, Agents.tsx).                                             *)
THEOREM TheHandlersRunOneAtATime == ConsoleSpec => []OneCommandAtATime
BY ConsoleInvHolds, ConsoleInvImplies, PTL

(* The toast says approved of a request with an authorization only, and    *)
(* approved, denied or expired of one that is no longer pending, although  *)
(* another operator, an expiry or a lost answer comes between              *)
(* (Approvals.tsx, routers/approval.py).                                   *)
THEOREM TheNoticesAreTrue == ConsoleSpec => []NoticesAreTrue
BY ConsoleInvHolds, ConsoleInvImplies, PTL

(* The report of a quarantine never claims success for a deployment that   *)
(* runs (services/quarantine.py, Agents.tsx).                              *)
THEOREM TheReportIsTrue == ConsoleSpec => []ReportIsTrue
BY ConsoleInvHolds, ConsoleInvImplies, PTL

(* An active agent with a stopped deployment was set to active since, or   *)
(* its quarantine is between Kubernetes and its commit, or died there.     *)
THEOREM StoppedAgentsAreExplained == ConsoleSpec => []StoppedIsExplained
BY ConsoleInvHolds, ConsoleInvImplies, PTL

(* The registry never polls; still, when nothing is under way it shows the *)
(* table, with what its own commands did, unless an answer overtook a      *)
(* newer one or failed, or somebody else changed an agent (Agents.tsx).    *)
THEOREM TheRosterIsExplained == ConsoleSpec => []RosterIsExplained
BY ConsoleInvHolds, ConsoleInvImplies, PTL

(* When no fetch is under way, the events on screen are those that the     *)
(* filter and the page number of the screen ask for, unless an answer      *)
(* overtook a newer one or failed, or the log grew (Audit.tsx).            *)
THEOREM TheEventsAreExplained == ConsoleSpec => []EventsAreExplained
BY ConsoleInvHolds, ConsoleInvImplies, PTL

(* The decision that the harness shows of a request sent for real is the   *)
(* one in the log for its id and payload, although copies that the page    *)
(* gave up and requests of agents race for the id (Simulator.tsx,          *)
(* routers/authorize.py).                                                  *)
THEOREM TheSandboxResultIsRecorded == ConsoleSpec => []SandboxResultIsRecorded
BY ConsoleInvHolds, ConsoleInvImplies, PTL

(* Whatever updates read and insert at the same time, the versions of a    *)
(* policy are numbered without a gap (routers/policies.py).                *)
THEOREM TheVersionsAreConsecutive == ConsoleSpec => []VersionsAreConsecutive
BY ConsoleInvHolds, ConsoleInvImplies, PTL

(* The dashboard never shows a resource in an older version than before,   *)
(* although effect, interval and button all fetch: the flag isFetching     *)
(* lets one fetch out at a time (FleetOverview.tsx).                       *)
THEOREM TheDashboardNeverGoesBack == ConsoleSpec => NeverGoesBack
<1>1. ConsoleInv /\ [ConsoleNext]_consoleVars =>
        [On(OverviewPath) /\ ~ReturnToOverview =>
           \A r \in Resources : page.shown[r] <= page'.shown[r]]_overviewVars
  BY DashboardStep
<1>2. QED BY <1>1, ConsoleInvHolds, PTL DEF ConsoleSpec, NeverGoesBack
=============================================================================
