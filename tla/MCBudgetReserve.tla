--------------------------- MODULE MCBudgetReserve --------------------------
(* Instances of BudgetReserve for TLC. *)
EXTENDS BudgetReserve, TLC

CONSTANTS h1, h2

Symmetric == Permutations({h1, h2})
=============================================================================
