\* Every page of the console, with its part of the server.
SPECIFICATION ConsoleFairSpec
CONSTANTS
  MaxCalls = 2
  Approvals = {r1}
  Agents = {a1}
  Resources = {m1, m2}
  MaxVersion = 2
  Decisions = {allow, deny}
  PageSize = 1
  MaxEvents = 2
  Payloads = {p1, p2}
  Verdicts = {"ALLOW", "DENY"}
  MaxRequestId = 2
  Policies = {q1}
  MaxRevision = 2
INVARIANTS
  ConsoleTypeOK
  OneCommandAtATime
  FleetKeyIsRecorded
  
  RosterIsExplained
  ReportIsTrue
  
  
  SandboxResultIsRecorded
  VersionsAreConsecutive
PROPERTIES
  FleetViewSettles
  InboxSettles
  NeverGoesBack
  DashboardSettles
