--------------------------- MODULE MCBudgetUpkeep ---------------------------
(***************************************************************************)
(* BudgetUpkeep for TLC: two proposals, the node's own budget and a       *)
(* peer's, a masternode in "suggest" mode, three blocks.                  *)
(***************************************************************************)
EXTENDS BudgetUpkeep

CONSTANTS p1, p2, fOwn, fPeer
=============================================================================
