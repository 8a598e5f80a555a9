SPECIFICATION MCSpec
SYMMETRY NodeSymmetry
CONSTANTS
    Nodes = {n1, n2}
    Ids <- MCIds
    MaxSeq = 2
    Offers <- MCOffers
    MaxTime = 3
    CurrentWall = 3
    CurrentLocal = 2
    CurrentEarly = 2
    SetExpires = 2
    Freshness = 1
INVARIANTS
    TriePreferredIsWalk
    NeverRewinds
    NoDoubleCount
    TrieFollows
PROPERTIES
    TrieImplementsSupport
    ValidationsReachTrie
CHECK_DEADLOCK FALSE
