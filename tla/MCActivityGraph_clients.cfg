SPECIFICATION FairSpec
CONSTANTS
    c1 = c1
    c2 = c2
    c3 = c3
    Client <- MCClient3
    Filled <- MCFilled
    MaxHeight = 4
    MaxFaults = 2
    MaxForks = 2
INVARIANTS TypeOK OneTimer FlagMatchesRequest
PROPERTIES ViewNeverGoesBack CatchesUp
