\* Two handlers, one agent and the fleet, limits of 1 and 2 minor units,
\* amounts of one minor unit and of one and a half.
SPECIFICATION Spec
CONSTANTS
  h1 = h1
  h2 = h2
  a1 = a1
  Fleet = Fleet
  None = None
  Handlers = {h1, h2}
  Agents = {a1}
  Limits = {1, 2}
  Amounts = {2, 5}
  Fine = 2
SYMMETRY Symmetric
INVARIANTS
  TypeOK
  EveryGrantIsPaid
