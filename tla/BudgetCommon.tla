---------------------------- MODULE BudgetCommon ----------------------------
(***************************************************************************)
(* Pure operators of src/src/masternode-budget.cpp shared by the budget    *)
(* modules: payment-cycle arithmetic, the period budget cap, the validity  *)
(* rules of proposals and finalized budgets, and the greedy allocation of  *)
(* CBudgetManager::GetBudget.  Heights are non-negative, so C++ '/' and    *)
(* '%' on them are TLA+ \div and %.                                        *)
(***************************************************************************)
EXTENDS Integers, Sequences, SequencesExt

CONSTANTS
    CycleBlocks,      \* GetBudgetPaymentCycleBlocks(): 16616 main, 50 test
    SubsidyStart,     \* the 5 * COIN minimum block value, scaled
    FirstDecline,     \* first height of the yearly 1/14 decline (210240)
    DeclineInterval,  \* heights between declines (210240)
    CycleFactor,      \* the 576 * 30 blocks-per-month factor, scaled
    MaxFinalSpan      \* the 100-block / 100-payment limit of a finalized budget

ASSUME CycleBlocks \in Nat \ {0} /\ DeclineInterval \in Nat \ {0}

\* First block of the payment cycle after the one containing height h.
NextCycleStart(h) == h - (h % CycleBlocks) + CycleBlocks

\* The loop of GetTotalBudget: nSubsidy -= nSubsidy/14 once per interval.
RECURSIVE Decline(_, _, _)
Decline(s, i, h) ==
    IF i > h THEN s ELSE Decline(s - s \div 14, i + DeclineInterval, h)

\* CBudgetManager::GetTotalBudget: 10% of the minimum subsidy per cycle.
GetTotalBudget(h) ==
    ((Decline(SubsidyStart, FirstDecline, h) \div 100) * 10) * CycleFactor

\* CBudgetProposal::IsValid.  The first test adds yeas and nays (the code
\* writes GetYeas()+GetNays()); the last uses integer division of the cycle.
ProposalIsValid(yeas, nays, enabled, amount, start, end, h) ==
    /\ ~(yeas + nays < -(enabled \div 10))
    /\ ~(amount > GetTotalBudget(start))
    /\ ~(end < h - CycleBlocks \div 2)

\* The payment-cycle getters of CBudgetProposal, on heights and ends of
\* held proposals, where every operand of '/' is non-negative.
GetBlockStartCycle(start) == start - (start % CycleBlocks)
GetBlockEndCycle(end) == end - CycleBlocks \div 2
\* -1 once the tip reaches the end cycle.
GetBlockCurrentCycle(end, h) ==
    IF h >= GetBlockEndCycle(end) THEN -1 ELSE h - (h % CycleBlocks)
GetTotalPaymentCount(start, end) ==
    (GetBlockEndCycle(end) - GetBlockStartCycle(start)) \div CycleBlocks
GetRemainingPaymentCount(end, h) ==
    (GetBlockEndCycle(end) - GetBlockCurrentCycle(end, h)) \div CycleBlocks

\* nBlockEnd of a CBudgetProposalBroadcast built for nPaymentCount n
\* payments from 'start': n whole cycles from the start's cycle, plus
\* half a cycle after which the proposal is pruned.
ProposalEnd(start, n) == GetBlockStartCycle(start) + CycleBlocks * n + CycleBlocks \div 2

\* CFinalizedBudget::GetBlockEnd: one payment per block from nBlockStart.
FinalEnd(start, pay) == start + Len(pay) - 1

\* CFinalizedBudget::GetTotalPayout over payments [prop, amount].
TotalPayout(pay) == FoldLeft(LAMBDA acc, r : acc + r.amount, 0, pay)

\* CFinalizedBudget::IsValid (the budget name is always "main" here).
FinalizedIsValid(start, pay, h) ==
    /\ start % CycleBlocks = 0
    /\ ~(FinalEnd(start, pay) - start > MaxFinalSpan)
    /\ ~(Len(pay) > MaxFinalSpan)
    /\ start # 0
    /\ ~(TotalPayout(pay) > GetTotalBudget(start))
    /\ ~(start < h)
    /\ ~(FinalEnd(start, pay) < h - CycleBlocks \div 2)

\* Mutant of Qualifies: the proposal need only reach the cycle's first
\* block, not its last.
QualifiesReachesStart(r, cycleStart, cycleEnd, enabled) ==
    /\ r.start <= cycleStart
    /\ r.end >= cycleStart
    /\ r.yeas - r.nays > enabled \div 10

\* The filter of GetBudget: the proposal spans the whole next cycle and its
\* net support beats a tenth of the enabled masternodes.
Qualifies(r, cycleStart, cycleEnd, enabled) ==
    /\ r.start <= cycleStart
    /\ r.end >= cycleEnd
    /\ r.yeas - r.nays > enabled \div 10

\* Mutant of Allot: a candidate that does not fit is allotted nothing
\* instead of the remainder of the cap.
RECURSIVE AllotNoPartial(_, _, _)
AllotNoPartial(cands, allocated, total) ==
    IF cands = <<>> THEN <<>>
    ELSE LET c == Head(cands)
             a == IF c.amount + allocated <= total THEN c.amount ELSE 0
         IN  <<[hash |-> c.hash, allotted |-> a]>>
                 \o AllotNoPartial(Tail(cands), allocated + a, total)

\* Mutant of Allot: the cap test is skipped once something is left.
RECURSIVE AllotNoCapTest(_, _, _)
AllotNoCapTest(cands, allocated, total) ==
    IF cands = <<>> THEN <<>>
    ELSE LET c == Head(cands)
             a == IF total = allocated THEN 0 ELSE c.amount
         IN  <<[hash |-> c.hash, allotted |-> a]>>
                 \o AllotNoCapTest(Tail(cands), allocated + a, total)

\* Mutant of Allot: the remainder is computed with its operands swapped.
RECURSIVE AllotSwapped(_, _, _)
AllotSwapped(cands, allocated, total) ==
    IF cands = <<>> THEN <<>>
    ELSE LET c == Head(cands)
             a == IF total = allocated THEN 0
                  ELSE IF c.amount + allocated <= total THEN c.amount
                  ELSE allocated - total
         IN  <<[hash |-> c.hash, allotted |-> a]>>
                 \o AllotSwapped(Tail(cands), allocated + a, total)

\* The greedy loop of GetBudget over candidates [hash, amount] in map
\* (hash) order; allocated grows by exactly what each candidate is allotted.
RECURSIVE Allot(_, _, _)
Allot(cands, allocated, total) ==
    IF cands = <<>> THEN <<>>
    ELSE LET c == Head(cands)
             a == IF total = allocated THEN 0
                  ELSE IF c.amount + allocated <= total THEN c.amount
                  ELSE total - allocated
         IN  <<[hash |-> c.hash, allotted |-> a]>>
                 \o Allot(Tail(cands), allocated + a, total)

\* CBudgetManager::GetBudget for proposals info[p] = [start, end, amount,
\* yeas, nays] met in the order 'order', at tip h with 'enabled' masternodes.
GetBudget(order, info, enabled, h) ==
    LET cycleStart == NextCycleStart(h)
        cycleEnd   == cycleStart + CycleBlocks - 1
        chosen     == SelectSeq(order,
                        LAMBDA p : Qualifies(info[p], cycleStart, cycleEnd, enabled))
    IN  Allot([i \in 1..Len(chosen) |->
                  [hash |-> chosen[i], amount |-> info[chosen[i]].amount]],
              0, GetTotalBudget(cycleStart))
=============================================================================
