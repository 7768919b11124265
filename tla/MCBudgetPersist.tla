-------------------------- MODULE MCBudgetPersist --------------------------
(***************************************************************************)
(* BudgetPersist for TLC: two finalized budgets, f1 for the cycle at 8     *)
(* (erased once the tip passes 8) and f2 for the cycle at 12, so a dump   *)
(* can hold a budget that has expired by the time it is loaded.          *)
(***************************************************************************)
EXTENDS BudgetPersist, TLC

CONSTANTS f1, f2, pa

MCFStart == (f1 :> 8) @@ (f2 :> 12)

MCFPay == [f \in {f1, f2} |-> <<[prop |-> pa, amount |-> 5]>>]
=============================================================================
