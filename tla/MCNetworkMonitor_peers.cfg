SPECIFICATION FairSpec
CONSTANTS
    p1 = p1
    p2 = p2
    h = h
    Other = {"LastBlock"}
    Peer <- MCPeer
    Hidden <- MCHidden
    NoName <- MCNoName
    NoPlace <- MCNoPlace
    PageLimit = 2
    MaxOffset = 2
    MaxLookups = 2
    MaxChanges = 3
    MaxFaults = 1
CHECK_DEADLOCK FALSE
INVARIANTS TypeOK ListedOnce
PROPERTIES StaleGone Located
