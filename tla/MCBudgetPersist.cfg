CONSTANTS
    CycleBlocks = 4
    SubsidyStart = 300
    FirstDecline = 10
    DeclineInterval = 10
    CycleFactor = 1
    MaxFinalSpan = 100
    f1 = f1
    f2 = f2
    pa = pa
    Finals = {f1, f2}
    FStart <- MCFStart
    FPay <- MCFPay
    HeadLen = 1
    SumLen = 2
    StartHeight = 6
    MaxHeight = 12
SPECIFICATION Spec
INVARIANTS TypeOK HeldValid
PROPERTIES LoadRestoresLastDump
