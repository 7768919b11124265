CONSTANTS
    c1 = c1
    c2 = c2
    k1 = k1
    Coins = {c1, c2}
    CoinOrder <- MCCoinOrder
    ConfCoins = {c2}
    ColdCoins = {k1}
    MinConf = 2
    MaxLocks = 1
SPECIFICATION Spec
INVARIANTS TypeOK StartedMature
PROPERTIES EventuallyStarted
