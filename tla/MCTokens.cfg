SPECIFICATION MCSpec
INVARIANTS
    NFTokensKept
    
    
PROPERTIES
    
    RestrictionsHold
CHECK_DEADLOCK FALSE
