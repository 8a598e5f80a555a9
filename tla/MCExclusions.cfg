SPECIFICATION MCSpec
SYMMETRY ThreadSymmetry
CONSTANTS
    Validators = {v1, v2, v3}
    Accounts = {a1, a2}
    MinConsensusPct = 67
    Nodes = {n1}
    Voters = {v1, v2}
    Senders = {a1, a2}
    ConsensusPct = 67
    MaxListed = 2
    BuildsEarly = FALSE
    Validating = {v1, v2}
    MaxSeq = 4
    Keep = 1
    Proposes = {TRUE, FALSE}
    Excludable = {"a1", "a2", "a3"}
    Configured = {"a1"}
    HasFetcher = TRUE
    RemoteSets <- MCRemoteSets
    Interval = 2
    ListLimit = 2
    MaxLost = 1
    Sources <- MCSources
    BadSources = {}
    SourceLists <- MCSourceLists
    IO = {t1, t2}
    Main = main
    MaxRequests = 1
INVARIANTS
    ExcludedExactlyAtThreshold
    
    
    
PROPERTIES
    ChangesAreCurrent
    ImplementsSource
CHECK_DEADLOCK FALSE
