\* An operator denies a pending request.
SPECIFICATION Spec
CONSTANTS
  h1 = h1
  h2 = h2
  small = small
  large = large
  fleetBudget = fleetBudget
  agentBudget = agentBudget
  NoHandler = NoHandler
  NoPayload = NoPayload
  r1 = r1
  Handlers = {h1}
  Requests = {r1}
  Payloads = {large}
  Amount <- MCAmount
  Threshold = 1
  Budgets = {fleetBudget, agentBudget}
  Limit <- MCLimit
  MaxAttempt = 1
  Closable = {"fleet", "agent"}
PROPERTIES
  OperatorDenialTakesEffect
