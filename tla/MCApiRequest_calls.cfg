SPECIFICATION ApiFairSpec
CONSTANTS
    Tx <- MCTx
    Vote <- MCVote
    Forger <- MCForger
    PageSize = 2
    ListSize = 2
    StatPages = 3
    MaxHeight = 4
    MaxReplyFaults = 2
CHECK_DEADLOCK FALSE
INVARIANTS TypeOK AnswersTrue
PROPERTIES KeepsContract AlwaysAnswered
