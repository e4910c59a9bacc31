SPECIFICATION CandlesSpec
CONSTANTS
    explorer = explorer
    grunt = grunt
    Process <- MCExplorer
    Durations <- MCDurations
    PageLimit = 5
    MaxTime = 9
    MaxTrades = 5
    MaxFailures = 0
CHECK_DEADLOCK FALSE
INVARIANT HoursComplete
