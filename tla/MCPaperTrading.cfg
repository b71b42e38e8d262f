SPECIFICATION Spec
CONSTANTS
    paper = paper
    p1 = p1
    p2 = p2
    None = None
    Brokers = {paper}
    Paper <- paper
    StartMode = "paper"
    DemoToken = FALSE
    CircuitBreakerLosses = 2
    Positions <- MCPositions
    Bodies <- MCBodies
    MaxBoots = 2
SYMMETRY MCSymmetry
INVARIANTS
    OneTradePerPosition
    ExitsCoverPosition
    RowsImplyTrade
    BreakerCountsPositions
CHECK_DEADLOCK FALSE
