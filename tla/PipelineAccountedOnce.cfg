CONSTANTS
    MaxCycles = 1
    MaxExits = 1
    Signals = {"LONG"}
    MaxDecisions = 1
    MaxDeliveries = 1
    MaxCrashes = 1
    MaxFailures = 0
    Failing = {}
    MaxUnrecorded = 1
SPECIFICATION Spec
INVARIANT AccountedOnce
CHECK_DEADLOCK FALSE
