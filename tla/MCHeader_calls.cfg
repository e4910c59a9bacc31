SPECIFICATION FairSpec
CONSTANTS
    k1 = k1
    k2 = k2
    k3 = k3
    Call <- MCCall3
    MaxHeight = 3
    MaxFaults = 2
CHECK_DEADLOCK FALSE
INVARIANTS TypeOK OneLiveCall
PROPERTIES HeaderNeverGoesBack CatchesUp
