SPECIFICATION Spec
CONSTANTS
    d1 = d1
    d2 = d2
    d3 = d3
    d4 = d4
    l1 = l1
    l2 = l2
    Delegate <- MCDelegate4
    Load <- MCLoad2
    MaxVotes = 1
    MaxChanges = 1
    PageLimit = 2
    ActiveSize = 2
    StandbySize = 1
CHECK_DEADLOCK FALSE
SYMMETRY Symmetry
INVARIANTS TypeOK CleanListExact
PROPERTY StandbyBehindActive
