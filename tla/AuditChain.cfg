\* Three handlers append one or two events each while the head row may not
\* exist yet; two budget rows are inserted beside the chain.
SPECIFICATION FairSpec
CONSTANTS
  w1 = w1
  w2 = w2
  w3 = w3
  c1 = c1
  c2 = c2
  NoWriter = NoWriter
  Writers = {w1, w2, w3}
  Contents = {c1, c2}
  Stored <- StoredExact
  MaxTx = 4
  MaxPerTx = 2
  MaxUnchained = 1
INVARIANTS
  TypeOK
  ChainIntegrity
PROPERTIES
  CommitsExtendTip
  WriterFinishes
\* The bound on transactions lets the model stop.
CHECK_DEADLOCK FALSE
