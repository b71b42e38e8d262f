SPECIFICATION FairSpec
CONSTANTS
    paper = paper
    kite = kite
    r1 = r1
    r2 = r2
    s1 = s1
    c1 = c1
    None = None
    p1 = p1
    p2 = p2
    Brokers <- MCBrokers
    Paper <- paper
    StartMode = "paper"
    DemoToken = FALSE
    CircuitBreakerLosses = 1
    Requests <- MCRequests
    Signals <- MCSignals
    ClientIds = {}
    Inputs <- MCSignalInputs
    MaxOpenPositions = 2
    ReadLimit = 2
    Passes <- MCPasses
    MaxBoots = 1
PROPERTIES
    RequestsAnswered
CHECK_DEADLOCK FALSE
