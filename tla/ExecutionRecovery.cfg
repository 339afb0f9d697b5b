SPECIFICATION FairSpec
CONSTANTS
    o1 = o1
    o2 = o2
    m1 = m1
    Orders = {o1, o2}
    Manual = {}
    Qty <- MCTwo
    PartialFills = FALSE
    MaxCrashes = 1
    CliRuns = 0
INVARIANTS
    TypeOK
    
PROPERTIES
    SafeExitAgrees
    
