---------------------------- MODULE BudgetPayout ----------------------------
(***************************************************************************)
(* The payout side of src/src/masternode-budget.cpp: which finalized       *)
(* budget a node pays when it builds a block (CBudgetManager::             *)
(* FillBlockPayee), which blocks it judges to be budget blocks             *)
(* (IsBudgetPaymentBlock) and whether it accepts a block's payment         *)
(* (CBudgetManager::IsTransactionValid), while finalized budgets and       *)
(* their votes reach the nodes in any order and every connected block      *)
(* prunes the budgets through CheckAndRemove.                              *)
(*                                                                         *)
(* Every node holds mapFinalizedBudgets (held) and the votes it has for    *)
(* each budget (votes).  A block at height tip+1 is built by one node and *)
(* checked by every node on the view it has before connecting it; then     *)
(* every node connects it and runs the finalized-budget loop of            *)
(* CheckAndRemove at the new tip.  The rest of NewBlock (submission,       *)
(* resigning, vote cleaning) is modelled in BudgetNode.                    *)
(***************************************************************************)
EXTENDS BudgetCommon, FiniteSets, Functions

CONSTANTS
    Nodes,        \* nodes building and checking blocks
    Voters,       \* masternodes whose finalized-budget votes circulate
    Finals,       \* finalized budget hashes
    FinalOrder,   \* Finals in ascending hash order (std::map iteration)
    FStart,       \* f -> nBlockStart
    FPay,         \* f -> vecProposals as payments [prop, amount]
    Enabled,      \* n -> mnodeman.CountEnabled() at n
    StartHeight,  \* tip of the chain when the model starts
    MaxHeight     \* last height a block is built for

ASSUME /\ ToSet(FinalOrder) = Finals /\ Len(FinalOrder) = Cardinality(Finals)
       /\ \A n \in Nodes : Enabled[n] \in Nat

NoPay == "nopay"   \* a block with no budget output (vout has one entry)

\* The proposals the finalized budgets pay.
PayProps == UNION {{FPay[f][i].prop : i \in 1..Len(FPay[f])} : f \in Finals}

Payment == [prop : PayProps \cup {NoPay}, amount : Nat]

VARIABLES
    tip,      \* chainActive.Height()
    held,     \* n -> the keys of n's mapFinalizedBudgets
    votes,    \* n -> f -> masternodes whose vote n holds for f
    chain,    \* chain[i] = the budget output of block StartHeight + i
    builder,  \* the node that built the last block
    verdict   \* n -> what n judged the last block: "accept", "reject", "none"

vars == <<tip, held, votes, chain, builder, verdict>>

\* CFinalizedBudget::GetVoteCount at node n.
VoteCount(n, f) == Cardinality(votes[n][f])

\* The window test of the payout loops: nBlockStart <= h <= GetBlockEnd().
Covers(f, h) == FStart[f] <= h /\ h <= FinalEnd(FStart[f], FPay[f])

\* GetProposalByBlock / GetPayeeAndAmount: the payment of block h, which
\* exists exactly when the index h - nBlockStart is within vecProposals.
HasPayment(f, h) == h - FStart[f] \in 0..(Len(FPay[f]) - 1)
PaymentAt(f, h) == FPay[f][h - FStart[f] + 1]

\* CBudgetManager::IsBudgetPaymentBlock at node n.
IsBudgetPaymentBlock(n, h) == \E f \in held[n] : Covers(f, h)

\* Mutant of FillStep: the budget's own hash is written as the payee
\* instead of the proposal of the block's payment.
FillStepBudgetHash(acc, f, n, h) ==
    IF f \in held[n] /\ VoteCount(n, f) > acc.count /\ Covers(f, h) /\ HasPayment(f, h)
    THEN [count |-> VoteCount(n, f), pay |-> [prop |-> f, amount |-> PaymentAt(f, h).amount]]
    ELSE acc

\* Mutant of FillStep: a budget with as many votes as the best so far
\* replaces it, so a tie goes to the last hash instead of the first.
FillStepTieLast(acc, f, n, h) ==
    IF f \in held[n] /\ VoteCount(n, f) >= acc.count /\ Covers(f, h) /\ HasPayment(f, h)
    THEN [count |-> VoteCount(n, f), pay |-> PaymentAt(f, h)]
    ELSE acc

\* One iteration of the first loop of FillBlockPayee: a budget with more
\* votes than the best so far, covering the block, whose GetPayeeAndAmount
\* succeeds, becomes the best and sets payee and nAmount.
FillStep(acc, f, n, h) ==
    IF f \in held[n] /\ VoteCount(n, f) > acc.count /\ Covers(f, h) /\ HasPayment(f, h)
    THEN [count |-> VoteCount(n, f), pay |-> PaymentAt(f, h)]
    ELSE acc

\* CBudgetManager::FillBlockPayee at node n for the block h = tip + 1: the
\* budget output is written only when some budget had a vote.
FillBlockPayee(n, h) ==
    LET best == FoldLeft(LAMBDA acc, f : FillStep(acc, f, n, h),
                         [count |-> 0, pay |-> [prop |-> NoPay, amount |-> 0]],
                         FinalOrder)
    IN  IF best.count > 0 THEN best.pay ELSE [prop |-> NoPay, amount |-> 0]

\* CFinalizedBudget::IsTransactionValid: its check of the outputs is
\* commented out, so it accepts every transaction.
FinalTxValid(f, pay, h) == TRUE

\* The highest vote count among the budgets covering h (first loop of
\* CBudgetManager::IsTransactionValid).
HighestCount(n, h) ==
    FoldLeft(LAMBDA c, f : IF f \in held[n] /\ VoteCount(n, f) > c /\ Covers(f, h)
                           THEN VoteCount(n, f) ELSE c,
             0, FinalOrder)

\* CBudgetManager::IsTransactionValid: accept when the best budget has
\* less than 5% of the enabled masternodes, else when some budget within
\* 10% of the best covers h and accepts the transaction.
IsTransactionValid(n, pay, h) ==
    LET top == HighestCount(n, h) IN
    \/ top < Enabled[n] \div 20
    \/ \E f \in held[n] : /\ VoteCount(n, f) > top - Enabled[n] \div 10
                          /\ Covers(f, h)
                          /\ FinalTxValid(f, pay, h)

\* The finalized-budget loop of CBudgetManager::CheckAndRemove at tip h:
\* every budget failing CFinalizedBudget::IsValid is erased.
Prune(fs, h) == {f \in fs : FinalizedIsValid(FStart[f], FPay[f], h)}

Init ==
    /\ tip = StartHeight
    /\ held = [n \in Nodes |-> {}]
    /\ votes = [n \in Nodes |-> [f \in Finals |-> {}]]
    /\ chain = <<>>
    /\ builder \in Nodes
    /\ verdict = [n \in Nodes |-> "none"]

\* A finalized budget reaches n: the "fbs" handler's AddFinalizedBudget,
\* which keeps only budgets valid at the tip (the seen map and the rate
\* limit of the handler are modelled in BudgetNode).
RecvFinal(n, f) ==
    /\ f \notin held[n]
    /\ FinalizedIsValid(FStart[f], FPay[f], tip)
    /\ held' = [held EXCEPT ![n] = @ \cup {f}]
    /\ UNCHANGED <<tip, votes, chain, builder, verdict>>

\* The vote of masternode m for f reaches n: the "fbvote" handler's
\* UpdateFinalizedBudget, directly or through the orphan map once f is
\* known (both modelled in BudgetNode), adds m to the budget's mapVotes.
RecvVote(n, m, f) ==
    /\ m \notin votes[n][f]
    /\ votes' = [votes EXCEPT ![n][f] = @ \cup {m}]
    /\ UNCHANGED <<tip, held, chain, builder, verdict>>

\* Node b builds block tip+1 with FillBlockPayee; every node checks it on
\* its own view (IsTransactionValid on the blocks it takes for budget
\* blocks), connects it, and prunes its finalized budgets at the new tip.
BuildBlock(b) ==
    LET h   == tip + 1
        pay == FillBlockPayee(b, h)
    IN  /\ tip < MaxHeight
        /\ chain' = Append(chain, pay)
        /\ builder' = b
        /\ verdict' = [n \in Nodes |->
                          IF ~IsBudgetPaymentBlock(n, h) THEN "none"
                          ELSE IF IsTransactionValid(n, pay, h) THEN "accept"
                          ELSE "reject"]
        /\ tip' = h
        /\ held' = [n \in Nodes |-> Prune(held[n], h)]
        /\ UNCHANGED votes

Next ==
    \/ \E n \in Nodes, f \in Finals : RecvFinal(n, f)
    \/ \E n \in Nodes, m \in Voters, f \in Finals : RecvVote(n, m, f)
    \/ \E b \in Nodes : BuildBlock(b)

Spec == Init /\ [][Next]_vars

----------------------------------------------------------------------------
\* Type invariant; the chain holds one budget output per connected block.
TypeOK ==
    /\ tip \in StartHeight..MaxHeight
    /\ held \in [Nodes -> SUBSET Finals]
    /\ votes \in [Nodes -> [Finals -> SUBSET Voters]]
    /\ chain \in Seq(Payment) /\ Len(chain) = tip - StartHeight
    /\ builder \in Nodes
    /\ verdict \in [Nodes -> {"accept", "reject", "none"}]

\* Reference payee of block h at node n: among the held budgets covering
\* h with the most votes (at least one), the one with the lowest hash.
ReferencePay(n, h) ==
    LET cands == {f \in held[n] : Covers(f, h) /\ VoteCount(n, f) > 0}
        best  == {f \in cands : \A g \in cands : VoteCount(n, g) <= VoteCount(n, f)}
        first == SelectSeq(FinalOrder, LAMBDA f : f \in best)
    IN  IF first = <<>> THEN [prop |-> NoPay, amount |-> 0]
        ELSE PaymentAt(first[1], h)

\* FillBlockPayee pays, on every block, the payment for that height of the
\* most-voted finalized budget the builder holds, breaking ties by hash,
\* and pays nothing when no covering budget has a vote: every node with
\* the same budgets and votes builds the same superblock.
PaysBestBudget ==
    [][tip' = tip + 1 => chain'[Len(chain')] = ReferencePay(builder', tip')]_vars

\* CheckAndRemove never erases a finalized budget a node holds before the
\* last block of its window is connected, so every payment it lists can
\* still be built by FillBlockPayee.
NoEarlyErase ==
    [][\A n \in Nodes, f \in Finals :
         (f \in held[n] /\ f \notin held'[n]) => tip' >= FinalEnd(FStart[f], FPay[f])]_vars
=============================================================================
