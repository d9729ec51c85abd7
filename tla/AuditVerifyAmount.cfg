\* One handler whose amount is hashed with one decimal.
SPECIFICATION VerifySpec
CONSTANTS
  w1 = w1
  w2 = w2
  c1 = c1
  c2 = c2
  NoWriter = NoWriter
  Writers = {w1}
  Contents = {c1, c2}
  Stored <- StoredRounded
  MaxTx = 1
  MaxPerTx = 2
  MaxUnchained = 0
INVARIANTS
  UntamperedChainVerifies
\* The bound on transactions lets the model stop.
CHECK_DEADLOCK FALSE
