SPECIFICATION Spec
CONSTANTS
    o1 = o1
    o2 = o2
    m1 = m1
    Orders = {o1}
    Manual = {m1}
    Qty <- MCManual
    PartialFills = FALSE
    MaxCrashes = 1
    CliRuns = 1
INVARIANTS
    WriteBeforeSend
    
