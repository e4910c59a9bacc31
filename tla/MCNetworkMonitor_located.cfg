SPECIFICATION FairSpec
CONSTANTS
    p1 = p1
    p2 = p2
    h = h
    Other = {"LastBlock"}
    Peer <- MCPeer
    Hidden <- MCHidden
    NoName <- MCNameless
    NoPlace <- MCNoPlace
    PageLimit = 2
    MaxOffset = 2
    MaxLookups = 1
    MaxChanges = 2
    MaxFaults = 0
CHECK_DEADLOCK FALSE
PROPERTIES PlacesShown
