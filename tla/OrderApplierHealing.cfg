SPECIFICATION Spec
SYMMETRY MCSymmetry
CONSTANTS
    w1 = w1
    w2 = w2
    e1 = e1
    e2 = e2
    Writers <- MCWriters
    FillEvents = {e1}
    QtyOf <- MCHealQtyOf
    Quantity = 3
    HealQty = {2, 3}
    MaxProcessed = 5
    MaxAttempts = 4
    MaxVersion = 6
INVARIANTS
    ApplierInv
PROPERTIES
    ImplementsLifecycle
