CONSTANTS
    MaxCycles = 2
    MaxExits = 2
    Signals = {"LONG", "SHORT"}
    MaxDecisions = 1
    MaxDeliveries = 1
    MaxCrashes = 0
    MaxFailures = 0
    Failing = {}
    MaxUnrecorded = 0
SPECIFICATION Spec
INVARIANTS
    ExitsExclusive
    ReviewedIsFlat
    TradesSettled
CHECK_DEADLOCK FALSE
