\* Two handlers under the fairness of threads and locks, two commands of any
\* kind, two losses of Redis.
SPECIFICATION FairSpec
CONSTANTS
  h1 = h1
  h2 = h2
  NoHandler = NoHandler
  Handlers = {h1, h2}
  Commands = {"quarantine", "restore", "patch"}
  MaxCommands = 2
  MaxLosses = 2
INVARIANTS
  SettledCommandHolds
PROPERTIES
  HandlerFinishes
