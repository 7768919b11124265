---------------------------- MODULE MCBudgetNode ----------------------------
(***************************************************************************)
(* Instance of BudgetNode for TLC: two masternodes, two proposals that     *)
(* between them ask for more than one cycle's cap, and the finalized       *)
(* budgets a peer may broadcast for the cycle starting at block 8.         *)
(***************************************************************************)
EXTENDS BudgetNode

CONSTANTS m1, m2, t1, t2, p1, p2,
          MaxVotesSeen, MaxFVotesSeen  \* bounds of the state constraint VoteBound

\* Proposal hashes are model values, p1 < p2.
MCPropOrder == <<p1, p2>>
MCPStart == [p \in {p1, p2} |-> 4]
\* Proposal 2 expires at block 8 (its end 5 is then over half a cycle back).
MCPEnd == (p1 :> 14) @@ (p2 :> 5)
\* The same, with proposal 1 also spanning the cycle at 12.
MCPEndLater == (p1 :> 16) @@ (p2 :> 5)
MCPAmount == [p \in {p1, p2} |-> 20]
\* vin.prevout.GetHash(): distinct collateral transactions.
MCTxOf == (m1 :> t1) @@ (m2 :> t2)
\* Two collaterals that are outputs of the same transaction t1.
MCTxOfShared == [m \in {m1, m2} |-> t1]
\* The budget for the cycle at 8 that pays proposal 1 only.
MCNetFinalsOne == {[start |-> 8, pay |-> <<[prop |-> p1, amount |-> 20]>>]}
\* Budgets for the cycle at 8: one paying proposal 1 only, and the
\* over-cap one every node in "suggest" mode builds (both requests in full).
MCNetFinals ==
    { [start |-> 8, pay |-> <<[prop |-> p1, amount |-> 20]>>],
      [start |-> 8, pay |-> <<[prop |-> p1, amount |-> 20], [prop |-> p2, amount |-> 20]>>] }
\* Both proposals span the cycle at 8 and ask 10 each: GetBudget pays both.
MCPEndLong == [p \in {p1, p2} |-> 14]
MCPAmountTen == [p \in {p1, p2} |-> 10]
\* A budget for the cycle at 8 that pays only the first of them.
MCNetFinalsPrefix == {[start |-> 8, pay |-> <<[prop |-> p1, amount |-> 10]>>]}

\* State constraint: at most MaxVotesSeen proposal votes and MaxFVotesSeen
\* budget votes reach the node (a bound on the network, not on the code).
VoteBound ==
    /\ Cardinality(seenVotes) <= MaxVotesSeen
    /\ Cardinality(seenFVotes) <= MaxFVotesSeen

\* State constraint of the pass run: the proposal votes are all for one
\* proposal, so two of them meet in one vote map.
OneProposalVoted == \A v, w \in seenVotes : v.prop = w.prop
=============================================================================
