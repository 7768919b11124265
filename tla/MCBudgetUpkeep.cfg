CONSTANTS
    p1 = p1
    p2 = p2
    fOwn = fOwn
    fPeer = fPeer
    Props = {p1, p2}
    Finals = {fOwn, fPeer}
    Own = fOwn
    BudgetMode = "suggest"
    IsMasternode = TRUE
    MaxBlocks = 3
SPECIFICATION Spec
PROPERTIES NewBlockReturns
CHECK_DEADLOCK FALSE
