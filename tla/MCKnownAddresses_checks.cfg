SPECIFICATION FairSpec
CONSTANTS
    d1 = d1
    d2 = d2
    d3 = d3
    c1 = c1
    c2 = c2
    Delegate <- MCDelegate
    Known <- MCKnown
    Check <- MCCheck2
    PageLimit = 1
    InOrder = TRUE
    MaxStamp = 2
    MaxFaults = 1
CHECK_DEADLOCK FALSE
INVARIANTS TypeOK NothingSkipped
PROPERTY NamesArrive
