CONSTANTS
    CycleBlocks = 4
    SubsidyStart = 300
    FirstDecline = 10
    DeclineInterval = 10
    CycleFactor = 1
    MaxFinalSpan = 100
    n1 = n1
    n2 = n2
    v1 = v1
    v2 = v2
    fA = fA
    fB = fB
    pa = pa
    pb = pb
    Nodes = {n1, n2}
    Voters = {v1, v2}
    Finals = {fA, fB}
    FinalOrder <- MCFinalOrder
    FStart <- MCFStart
    FPay <- MCFPay
    Enabled <- MCEnabled
    StartHeight = 6
    MaxHeight = 10
SPECIFICATION Spec
INVARIANTS TypeOK
PROPERTIES PaysBestBudget
CHECK_DEADLOCK FALSE
