SPECIFICATION FairSpec
CONSTANTS
    d1 = d1
    d2 = d2
    d3 = d3
    b1 = b1
    b2 = b2
    Delegate <- MCDelegate
    BatchId <- MCBatchId
    Forger <- MCForger
    TopAt <- MCTopAt
    RoundLength = 2
    BlocksLimit = 1
    StartHeight = 2
    MaxHeight = 3
    MaxFaults = 0
    SlowNode = FALSE
    SideGetters = {}
PROPERTIES CatchesUp
