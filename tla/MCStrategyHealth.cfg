SPECIFICATION Spec
CONSTANTS
    BarCounts = {99, 101, 239, 401}
    Percentages <- MCPercentages
    WindowCounts = {1, 2, 4}
    TradeCounts = {0, 4, 10, 30}
    Spreads = {0, 149, 250}
    Drawdowns = {0, 20, 31}
    CrossScores = {None, 75}
    EarlierTrials = {0, 9}
    MaxTrials = 2
    None = None
INVARIANTS
    WindowsCover
    PassedOnEvidence
    HealthyIsSound
    PboAlwaysOne
CHECK_DEADLOCK FALSE
