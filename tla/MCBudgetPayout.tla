--------------------------- MODULE MCBudgetPayout ---------------------------
(***************************************************************************)
(* BudgetPayout for TLC: two nodes, two voting masternodes, two finalized *)
(* budgets for the cycle starting at 8 (CycleBlocks 4) that pay the same  *)
(* heights, so ties and disagreements between views happen, and blocks   *)
(* built from tip 6 up to 10, past the end of both windows.               *)
(***************************************************************************)
EXTENDS BudgetPayout, TLC

CONSTANTS n1, n2, v1, v2, fA, fB, pa, pb

MCFinalOrder == <<fA, fB>>

MCFStart == (fA :> 8) @@ (fB :> 8)

\* fA pays pa then pb at heights 8 and 9; fB pays pb at height 8.
MCFPay == (fA :> <<[prop |-> pa, amount |-> 5], [prop |-> pb, amount |-> 5]>>)
       @@ (fB :> <<[prop |-> pb, amount |-> 7]>>)

\* fA pays three blocks, 8 to 10.
MCFPayLong == (fA :> <<[prop |-> pa, amount |-> 5], [prop |-> pb, amount |-> 5],
                       [prop |-> pa, amount |-> 5]>>)
           @@ (fB :> <<[prop |-> pb, amount |-> 7]>>)

\* n1 counts 10 enabled masternodes, n2 counts 25.
MCEnabled == (n1 :> 10) @@ (n2 :> 25)
=============================================================================
