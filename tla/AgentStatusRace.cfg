\* A revocation beside requests that fill the cache.
SPECIFICATION Spec
CONSTANTS
  h1 = h1
  h2 = h2
  NoHandler = NoHandler
  Handlers = {h1, h2}
  Commands = {"quarantine"}
  MaxCommands = 1
  MaxLosses = 1
SYMMETRY Symmetric
INVARIANTS
  RevocationBlocks
