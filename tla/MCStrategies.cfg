SPECIFICATION Spec
CONSTANTS
    None = None
    MaxPrice = 2
    Window = 2
    Warmup = 3
    Distances = {0, 1}
    Cooldown = 2
    Frequency = 2
    Assets = 4
    Defensive = {4}
    Scores <- MCScores
    Pairs <- MCPairs
    MaxBars = 7
    MaxDays = 2
INVARIANTS
    StopsProtect
    NeverSignals
    AllocationFollowsRanking
CHECK_DEADLOCK FALSE
