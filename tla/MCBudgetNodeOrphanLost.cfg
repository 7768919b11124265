CONSTANTS
    CycleBlocks = 4
    SubsidyStart = 300
    FirstDecline = 10
    DeclineInterval = 10
    CycleFactor = 1
    MaxFinalSpan = 100
    m1 = m1
    m2 = m2
    t1 = t1
    t2 = t2
    p1 = p1
    p2 = p2
    MaxVotesSeen = 2
    MaxFVotesSeen = 0
    MN = {m1, m2}
    TxOf <- MCTxOf
    Me = m1
    IsMasternode = FALSE
    BudgetMode = "none"
    MainNet = FALSE
    PropOrder <- MCPropOrder
    PStart <- MCPStart
    PEnd <- MCPEnd
    PAmount <- MCPAmount
    NetFinals <- MCNetFinalsOne
    VoteChoices = {1}
    VoteTimes = {1}
    VoteCap = 10
    VotePropInc = 1
    TopRanks = 1
    SubmitWindow = 2
    DecrementEvery = 2
    StartHeight = 6
    MaxHeight = 8
    MyMasternodes = {m1, m2}
    OperatorActive = FALSE
    Transient = {}
SPECIFICATION Spec
CONSTRAINT VoteBound
INVARIANTS SeenVotesCounted
CHECK_DEADLOCK FALSE
