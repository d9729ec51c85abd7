\* Two operators approve the same request.
SPECIFICATION Spec
CONSTANTS
  h1 = h1
  h2 = h2
  small = small
  large = large
  fleetBudget = fleetBudget
  agentBudget = agentBudget
  NoHandler = NoHandler
  NoPayload = NoPayload
  r1 = r1
  Handlers = {h1, h2}
  Requests = {r1}
  Payloads = {small}
  Amount <- MCAmount
  Threshold = 0
  Budgets = {fleetBudget, agentBudget}
  Limit <- MCLimit
  MaxAttempt = 3
  Closable = {"fleet", "agent"}
SYMMETRY Symmetric
INVARIANTS
  OneAuthorizationPerApproval
