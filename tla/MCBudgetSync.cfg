CONSTANTS
    a = a
    b = b
    m1 = m1
    m2 = m2
    p1 = p1
    p2 = p2
    f1 = f1
    Zero = Zero
    NoVoter = NoVoter
    Nodes = {a, b}
    Voters = {m1}
    Props = {p1}
    Finals = {f1}
    LocalPeers = {a}
    Home <- MCHome
SPECIFICATION Spec
INVARIANTS TypeOK
PROPERTIES FullSyncDelivers
CHECK_DEADLOCK FALSE
