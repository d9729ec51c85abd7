-------------------------- MODULE MCAgentInvocation --------------------------
(* Instances of AgentInvocation for TLC. *)
EXTENDS AgentInvocation

CONSTANTS pay, INR, USD, A1, A2

Permission(max, currencies, accounts, threshold, enabled) ==
  [action |-> pay, max_amount |-> max, allowed_currencies |-> currencies,
   allowed_accounts |-> accounts, requires_approval_above |-> threshold, enabled |-> enabled]

\* One permission that grants a payment of 2 above a threshold of 1, and what
\* differs from it in one or two places.
MCPermissions ==
  {Permission(2, {INR}, {A1}, 1, TRUE),    Permission(1, {}, {}, Null, TRUE),
   Permission(2, {USD}, {A2}, Null, TRUE), Permission(Null, {}, {}, 1, TRUE),
   Permission(2, {}, {}, Null, FALSE)}

Request(amount, skip) ==
  [action |-> pay, amount |-> amount, currency |-> INR, resource_id |-> A1,
   skip_approval_check |-> skip]

MCPayloads == {Request(1, FALSE), Request(2, FALSE)}
MCRequests == MCPayloads \cup {Request(2, TRUE)}
\* The column of the authorization rounds the amount of the first.
MCRounded == {Request(1, FALSE)}
=============================================================================
