SPECIFICATION Spec
CONSTANTS
    paper = paper
    kite = kite
    r1 = r1
    r2 = r2
    s1 = s1
    c1 = c1
    None = None
    p1 = p1
    p2 = p2
    Brokers <- MCBrokers
    Paper <- paper
    StartMode = "live"
    DemoToken = FALSE
    CircuitBreakerLosses = 2
    Requests <- MCRequests
    Signals <- MCSignals
    ClientIds <- MCClientIds
    Inputs <- MCInputs
    MaxOpenPositions = 1
    ReadLimit = 1
    Passes <- MCPasses
    MaxBoots = 2
SYMMETRY MCSymmetry
INVARIANTS
    TypeOK
    AtMostOnceUnlessBlamed
    SignalAgreesWithKey
    UnknownClosesGate
    PositionLimit
PROPERTIES
    KeysSurvive
    LedgerIsDurable
    ImplementsTracking
CHECK_DEADLOCK FALSE
