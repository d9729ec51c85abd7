\* One run beside re-evaluations, with two permissions of five contents that
\* operators create and delete.
SPECIFICATION InvocationSpec
CONSTANTS
  Ids = {i1}
  Payloads <- MCPayloads
  NoPayload = NoPayload
  Rounded <- MCRounded
  Rows = {r1, r2}
  Permissions <- MCPermissions
  Requests <- MCRequests
  Null = Null
  MaxSeen = 3
  NoOne = NoOne
  pay = pay
  INR = INR
  USD = USD
  A1 = A1
  A2 = A2
INVARIANTS
  
  ReportsAgreeWithLedger
  ExecutionsAreGranted
PROPERTIES
  RunsEnd
