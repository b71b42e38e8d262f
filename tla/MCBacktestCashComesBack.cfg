SPECIFICATION Spec
CONSTANTS
    BarSet <- MCBars
    StopDist = 3
    Levels <- MCLevels
    StartingCapital = 300
    PositionPct = 30
    Commission = 1
    Slippage = 1
    Spread = 0
    ExitTimeout = 2
    MinBars = 3
    MaxBars = 8
    None = None
INVARIANT
    CashComesBack
CHECK_DEADLOCK FALSE
