\* Two handlers append, one amount is rounded by its column, a budget row may
\* come in, and one change is made to the table.
SPECIFICATION TamperSpec
CONSTANTS
  w1 = w1
  w2 = w2
  c1 = c1
  c2 = c2
  c3 = c3
  NoWriter = NoWriter
  Writers = {w1, w2}
  Contents = {c1, c2, c3}
  Stored <- StoredRounded
  MaxTx = 2
  MaxPerTx = 2
  MaxUnchained = 1
  MinLeft = 1
INVARIANTS
  HonestAlarmsAreExplained
  
\* The bound on transactions lets the model stop.
CHECK_DEADLOCK FALSE
