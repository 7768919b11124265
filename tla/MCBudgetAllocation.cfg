CONSTANTS
    CycleBlocks = 4
    SubsidyStart = 300
    FirstDecline = 10
    DeclineInterval = 10
    CycleFactor = 1
    MaxFinalSpan = 100
    PropOrder <- MCPropOrder
    Tips = {5, 9}
    Starts = {4, 12}
    Ends <- MCEnds
    Amounts = {10, 20, 30}
    YeaCounts = {0, 2}
    NayCounts = {0, 1}
    EnabledCounts = {3, 10}
SPECIFICATION Spec
INVARIANTS TypeOK MatchesReference WithinCap PaidCyclesCounted
CHECK_DEADLOCK FALSE
