SPECIFICATION Spec
SYMMETRY MCSymmetry
CONSTANTS
    w1 = w1
    w2 = w2
    e1 = e1
    e2 = e2
    Writers <- MCWriters
    FillEvents = {e1, e2}
    QtyOf <- MCQtyOf
    Quantity = 3
    HealQty = {}
    MaxProcessed = 5
    MaxAttempts = 4
    MaxVersion = 0
INVARIANTS
    TypeOK
    PersistedRowConsistent
    NeverDoubleCounted
PROPERTIES
    ImplementsLifecycle
    
