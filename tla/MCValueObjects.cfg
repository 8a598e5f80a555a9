SPECIFICATION MCSpec
CONSTANTS
    Base = 1
    Increment = 1
    Accounts = {"alice", "bob", "carol"}
    Funds = 5
    Refusing = {"carol"}
    DepositAuth = {"alice"}
    Amounts = {1, 2}
    Delays = {1, 2}
    MaxChannels = 1
    MaxTime = 4
INVARIANTS
    ChannelsAccounted
    
    ValueAccounted
    BridgePaidOnce

    
CHECK_DEADLOCK FALSE
