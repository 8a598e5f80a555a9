SPECIFICATION SwitchSpec
SYMMETRY Symmetry
CONSTANTS
    Peers = {p1, p2}
    CtConsensusPct = 75
    MinRounds = 1
    StalledRounds = 1
    MinConsensus = 1
    MaxConsensus = 3
    AbandonConsensus = 4
    AbandonFactor = 2
    MinConsensusTime = 1
    MinClose = 1
    IdleInterval = 1
    Granularity = 2
    Freshness = 4
    RecentMax = 1
    MaxPeerSeq = 1
    MaxOwnSeq = 3
    MaxRounds = 1
    MaxNested = 2
    MinConsensusPct = 67
    CloseTimes = {10}
    LedgerInfo <- MCLedgerInfo
    Txs = {t1}
    Ledgers = {l1, l2}
    ProposeInterval = 2
    MaxProposals = 2
    MaxRoundTime = 2
INVARIANTS
    WirePositionCurrent
    AcceptedCloseTimeShared
CHECK_DEADLOCK FALSE
