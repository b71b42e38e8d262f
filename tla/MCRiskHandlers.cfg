SPECIFICATION Spec
CONSTANTS
    paper = paper
    kite = kite
    t1 = t1
    t2 = t2
    loop = loop
    Brokers <- MCBrokers
    Paper <- paper
    StartMode = "paper"
    DemoToken = FALSE
    CircuitBreakerLosses = 2
    Threads <- MCThreads
    Loop <- loop
    MaxLosses = 3
SYMMETRY MCSymmetry
INVARIANTS
    TypeOK
    SerialModeSafe
    SerialBreakerExact
CHECK_DEADLOCK FALSE
