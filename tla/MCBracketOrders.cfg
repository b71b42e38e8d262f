SPECIFICATION Spec
CONSTANTS
    Requests = {r1, r2}
    Brokers = {"kite", "binance", "openalgo"}
    None = None
    Passes = {p1}
INVARIANTS
    AcceptedIsWhole
    GttClaimTrue
    
    GateSeesPositions
CHECK_DEADLOCK FALSE
