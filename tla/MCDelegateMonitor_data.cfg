SPECIFICATION Spec
CONSTANTS
    d1 = d1
    d2 = d2
    d3 = d3
    b1 = b1
    b2 = b2
    Delegate <- MCDelegate
    BatchId <- MCBatchId
    Forger <- MCForger
    TopAt <- MCTopAt
    RoundLength = 2
    BlocksLimit = 1
    StartHeight = 2
    MaxHeight = 3
    MaxFaults = 1
    SlowNode = TRUE
    SideGetters = {}
SYMMETRY Symmetry
INVARIANTS TypeOK FlagsAgree SingleFlight OneOpenCall OneChain
PROPERTIES NothingGoesBack RoundDelegatesExact
