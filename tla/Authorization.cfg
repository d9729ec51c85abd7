\* One request id, two handlers, every interleaving of all endpoints.
SPECIFICATION Spec
CONSTANTS
  h1 = h1
  h2 = h2
  small = small
  large = large
  fleetBudget = fleetBudget
  agentBudget = agentBudget
  NoHandler = NoHandler
  NoPayload = NoPayload
  r1 = r1
  Handlers = {h1, h2}
  Requests = {r1}
  Payloads = {small, large}
  Amount <- MCAmount
  Threshold = 1
  Budgets = {fleetBudget, agentBudget}
  Limit <- MCLimit
  MaxAttempt = 3
  Closable = {"fleet", "agent"}
SYMMETRY Symmetric
INVARIANTS
  TypeOK
  AnswersMatchTheLog
  AuthorizationsAreDecided
  SingleUse
  
  
  ClosedGateBlocks
  LateCallsAreRefused
  
PROPERTIES
  NoAttemptAfterOutcome
  RefinesLedger
