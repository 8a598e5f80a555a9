SPECIFICATION MCSpec
CONSTANTS
    Base = 1
    Increment = 1
    Accounts = {"alice", "bob"}
    Funds = 4
    Born = {"alice", "bob"}
    Transactions <- Submitted
    SeqDelta = 1
    MaxTickets = 3
    MaxLedger = 3
    Signers = {"alice", "bob"}
    Drops = 4
    Flags = {"DisableMaster"}
    Quorums = {1, 2}
    SignerLists <- MCLists
    MaxOthers = 1
INVARIANTS
    AppliedOnce
    BatchKeepsItsMode
    NeverLockedOut
    LedgerAccounted
    NothingLeftBehind
PROPERTIES
    
    PromisesKept
CHECK_DEADLOCK FALSE
