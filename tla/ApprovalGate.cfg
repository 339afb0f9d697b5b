SPECIFICATION Spec
CONSTANTS
    o1 = o1
    o2 = o2
    x1 = x1
    x2 = x2
    p1 = p1
    p2 = p2
    Operators <- MCOperators
    Executors <- MCExecutors
    Prices <- MCPrices
    Ttl = 2
    ValidUntil = 3
    MaxTime = 3
    MaxIds = 2
SYMMETRY MCSymmetry
INVARIANTS
    TypeOK
    OneOrderPerSignature
    AuthorityIsSigned
