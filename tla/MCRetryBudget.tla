----------------------------- MODULE MCRetryBudget -----------------------------
(***************************************************************************)
(* An instance of RetryBudget for TLC: two budgets and two tokens, so that *)
(* tokens meet foreign budgets and outlive their own, with few enough      *)
(* addresses that they are reused.  Names of a kind are interchangeable.   *)
(***************************************************************************)
EXTENDS RetryBudget, TLC

TwoPolicies ==
    { [max_attempts |-> 2, operation_time_budget |-> 1, total_time_budget |-> None],
      [max_attempts |-> 2, operation_time_budget |-> None, total_time_budget |-> 2] }

Symmetry == Permutations(Budgets) \union Permutations(Attempts)
                \union Permutations(Owners)
=============================================================================
