SPECIFICATION MarketSpec
CONSTANTS
    Configured = {"dhan", "upstox", "angel", "alpaca", "alpha_vantage"}
    PyotpInstalled = TRUE
    ClassSeq <- MCClassSeq
    Routes <- MCRoutes
    Slots = {s1, s2}
    Kinds = {"quote", "candles", "search"}
    Timeframes = {"4h"}
    Attempts = 2
    MaxRequests = 2
    MaxRouters = 2
    MaxSearches = 1
INVARIANTS
    GaveUpOnAll
PROPERTIES
    NeverReadyAgain
    RequestsEnd
CHECK_DEADLOCK FALSE
