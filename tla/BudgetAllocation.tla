--------------------------- MODULE BudgetAllocation ---------------------------
(***************************************************************************)
(* The allocation engine, CBudgetManager::GetBudget, as a single call on   *)
(* every bounded input a budget manager can hold: proposals that passed    *)
(* CBudgetProposal::IsValid when accepted, at least as many enabled        *)
(* masternodes as counted votes, and a tip.  Init picks the input,         *)
(* Calculate runs GetBudget once; the properties compare the recursive     *)
(* greedy loop with a closed-form reference.                               *)
(***************************************************************************)
EXTENDS BudgetCommon, FiniteSets

CONSTANTS
    PropOrder,   \* proposal hashes in ascending order (std::map iteration)
    Tips,        \* chain tip heights to try
    Starts, Ends, Amounts, YeaCounts, NayCounts,
    EnabledCounts

Props == ToSet(PropOrder)

VARIABLES tip, info, enabled, result, done

vars == <<tip, info, enabled, result, done>>

Record == [start : Starts, end : Ends, amount : Amounts,
           yeas : YeaCounts, nays : NayCounts]

\* A proposal the manager can hold: accepted through IsValid, and no more
\* votes than enabled masternodes (GetBudget first drops votes of unknown
\* masternodes through CleanAndRemove).
Holdable(r, n) ==
    /\ r.amount <= GetTotalBudget(r.start)
    /\ r.yeas + r.nays <= n

Init ==
    /\ tip \in Tips
    /\ enabled \in EnabledCounts
    /\ info \in [Props -> {r \in Record : Holdable(r, enabled)}]
    /\ result = <<>>
    /\ done = FALSE

\* One call of GetBudget; SetAllotted caches each allotment (result).
Calculate ==
    /\ ~done
    /\ result' = GetBudget(PropOrder, info, enabled, tip)
    /\ done' = TRUE
    /\ UNCHANGED <<tip, info, enabled>>

Next == Calculate

Spec == Init /\ [][Next]_vars

----------------------------------------------------------------------------
CycleStart == NextCycleStart(tip)
Cap == GetTotalBudget(CycleStart)
Chosen == SelectSeq(PropOrder,
            LAMBDA p : Qualifies(info[p], CycleStart, CycleStart + CycleBlocks - 1, enabled))
SumSeqOf(s) == FoldLeft(LAMBDA a, b : a + b, 0, s)
Allotted == [i \in 1..Len(result) |-> result[i].allotted]

\* Type invariant: a call of GetBudget yields records [hash, allotted]
\* with a non-negative allotment (CBudgetProposal::SetAllotted).
TypeOK ==
    /\ tip \in Tips
    /\ info \in [Props -> Record]
    /\ result \in Seq([hash : Props, allotted : Nat])
    /\ done \in BOOLEAN

\* Reference allocation: the i-th chosen proposal gets its request, clipped
\* to what the requests before it left of the cap, and never below zero.
Reference ==
    [i \in 1..Len(Chosen) |->
        LET asked  == info[Chosen[i]].amount
            before == SumSeqOf([j \in 1..(i - 1) |-> info[Chosen[j]].amount])
            left   == IF Cap - before > 0 THEN Cap - before ELSE 0
        IN  [hash |-> Chosen[i], allotted |-> IF asked < left THEN asked ELSE left]]

\* GetBudget returns exactly the qualifying proposals in hash order, each
\* allotted what the greedy reference gives it, so every node holding the
\* same proposals and votes computes the same payout list.
MatchesReference == done => result = Reference

\* GetBudget never allots more than the period cap in total, and allots
\* each proposal between zero and its requested amount.
WithinCap ==
    done =>
        /\ SumSeqOf(Allotted) <= Cap
        /\ \A i \in 1..Len(result) :
               0 <= result[i].allotted /\ result[i].allotted <= info[result[i].hash].amount

\* What GetBudget hands out to payees (the positive allotments) stays
\* within the period cap: a proposal with a negative nAmount, which
\* CBudgetProposal::IsValid does not reject, must not raise the others.
PaidWithinCap ==
    done =>
        SumSeqOf([i \in 1..Len(result) |->
                     IF result[i].allotted > 0 THEN result[i].allotted ELSE 0]) <= Cap

\* A proposal GetBudget pays is paid for one of its own payments: the cycle
\* lies at or after the proposal's start cycle and is among the
\* GetTotalPaymentCount cycles counted from it, and "mnbudget show" at this
\* tip still reports a payment remaining (GetRemainingPaymentCount).  This
\* ties GetBudget's span filter to the half-cycle margin the broadcast adds
\* to nBlockEnd and the getters subtract again.
PaidCyclesCounted ==
    done =>
        \A i \in 1..Len(result) :
            LET r == info[result[i].hash]
            IN  /\ GetBlockStartCycle(r.start) <= CycleStart
                /\ (CycleStart - GetBlockStartCycle(r.start)) \div CycleBlocks
                       < GetTotalPaymentCount(r.start, r.end)
                /\ GetRemainingPaymentCount(r.end, tip) >= 1
=============================================================================
