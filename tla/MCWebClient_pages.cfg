SPECIFICATION Spec
CONSTANTS
    Path <- MCPath
    Request = {1, 2}
    TTL = 2
    MaxVersion = 2
    MaxHttpFaults = 1
    Limit = 2
    Maximum = 6
    Accounts = 5
    MaxPages = 5
    Block <- MCBlock
    MaxBlocks = 2
    Roster <- MCRoster
    Before <- MCBefore
    MaxSlots = 2
    MaxDrops = 1
    Peer <- MCPeer
    MaxMoves = 2
CHECK_DEADLOCK FALSE
INVARIANTS TypeOK PagesTrue
PROPERTIES AnswersSettle LoadsEnd PagesSettle
