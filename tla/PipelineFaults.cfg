CONSTANTS
    MaxCycles = 1
    MaxExits = 1
    Signals = {"LONG", "FLAT"}
    MaxDecisions = 2
    MaxDeliveries = 1
    MaxCrashes = 1
    MaxFailures = 1
    Failing = {"EXECUTION", "POSTTRADE"}
    MaxUnrecorded = 1
SPECIFICATION FairSpec
INVARIANTS
    TypeOK
    
    NeverDropped
PROPERTIES
    ImplementsTradeLifecycle
    PendingDrains
CHECK_DEADLOCK FALSE
