CONSTANTS
    CycleBlocks = 4
    SubsidyStart = 300
    FirstDecline = 10
    DeclineInterval = 10
    CycleFactor = 1
    MaxFinalSpan = 100
    m1 = m1
    m2 = m2
    t1 = t1
    t2 = t2
    p1 = p1
    p2 = p2
    MaxVotesSeen = 2
    MaxFVotesSeen = 1
    MN = {m1, m2}
    TxOf <- MCTxOf
    Me = m1
    IsMasternode = TRUE
    BudgetMode = "suggest"
    MainNet = FALSE
    PropOrder <- MCPropOrder
    PStart <- MCPStart
    PEnd <- MCPEndLater
    PAmount <- MCPAmount
    NetFinals <- MCNetFinalsOne
    VoteChoices = {1}
    VoteTimes = {1}
    VoteCap = 1
    VotePropInc = 1
    TopRanks = 1
    SubmitWindow = 4
    DecrementEvery = 2
    StartHeight = 7
    MaxHeight = 8
    MyMasternodes = {m1, m2}
    OperatorActive = TRUE
    Transient = {m2}
SPECIFICATION Spec
CONSTRAINTS VoteBound OneProposalVoted
INVARIANTS TypeOK RegistriesValid StoredItemsServed
PROPERTIES PropVotesRefine
CHECK_DEADLOCK FALSE
