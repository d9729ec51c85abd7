--------------------------- MODULE MCAuthorization --------------------------
(* Instances of Authorization for TLC. *)
EXTENDS Authorization, TLC

CONSTANTS small, large, fleetBudget, agentBudget, h1, h2

\* A transfer below the threshold of 1 and one above it.
MCAmount == [p \in Payloads |-> IF p = small THEN 1 ELSE 2]

\* Enough for one large transfer, or for two large ones of which the agent's
\* own budget takes only one.
MCLimit == (fleetBudget :> 4) @@ (agentBudget :> 3)

Symmetric == Permutations({h1, h2})
=============================================================================
