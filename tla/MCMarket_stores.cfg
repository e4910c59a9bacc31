SPECIFICATION FairMarketSpec
CONSTANTS
    explorer = explorer
    euro = euro
    one = one
    two = two
    Process <- MCProcess
    Durations <- MCDurations
    PageLimit = 5
    MaxTime = 9
    MaxTrades = 5
    MaxFailures = 1
    Book <- MCBook
    MaxBooks = 2
    Currency <- MCCurrency
    Load <- MCTwo
    MaxPrices = 3
    Query <- MCTwo
    MaxSaves = 1
    MaxClicks = 2
CHECK_DEADLOCK FALSE
INVARIANTS MarketTypeOK StoresTrue
PROPERTIES StoresRefresh WatcherSettles
