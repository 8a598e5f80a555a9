SPECIFICATION FairSpec
CONSTANTS
    Peers = {p1, p2, p3}
    PercentTimes = {0, 50, 85, 200}
    MinConsensusPct = 67
    CtConsensusPct = 75
    MinRounds = 2
    StalledRounds = 4
    MinConsensus = 1950
    MaxConsensus = 15000
    AbandonConsensus = 120000
    AbandonFactor = 10
    MinConsensusTime = 5000
    MinClose = 2000
    IdleInterval = 15000

    
PROPERTIES
    NoFlapping
    EstablishEnds
    
    ListedEventually
    CleanupEnds
CHECK_DEADLOCK FALSE
