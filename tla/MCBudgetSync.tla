---------------------------- MODULE MCBudgetSync ----------------------------
(***************************************************************************)
(* Instance of BudgetSync for TLC: two nodes, two masternodes voting, two  *)
(* proposals and one finalized budget.                                     *)
(***************************************************************************)
EXTENDS BudgetSync

CONSTANTS a, b, m1, m2, p1, p2, f1

\* Masternode m1's key is at node b, the node that is not local.
MCHome == [m \in {m1, m2} |-> b]
=============================================================================
