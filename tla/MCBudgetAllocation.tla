------------------------- MODULE MCBudgetAllocation -------------------------
(* Model of GetBudget: cycle of 4 blocks, a cap of 30 for the cycle at 8   *)
(* falling to 20 for the cycle at 12 (the subsidy declines at height 10),  *)
(* three proposals whose requests can exhaust the cap part-way.            *)
EXTENDS BudgetAllocation

MCPropOrder == <<1, 2, 3>>
\* Ends of proposals submitted from block 4 for one or two payments
\* (CBudgetProposalBroadcast's nBlockEnd): 10 and 14.
MCEnds == {ProposalEnd(4, n) : n \in {1, 2}}
\* Requests as the network can send them: nAmount is never checked >= 0.
MCSignedAmounts == {-10, 10, 20, 30}
=============================================================================
