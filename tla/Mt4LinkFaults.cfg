SPECIFICATION Spec
CONSTANTS
    i1 = i1
    i2 = i2
    f1 = f1
    f2 = f2
    Intents = {i1}
    Kinds = {"submit", "cancel", "modify"}
    Fingerprints <- MCFingerprints
    MaxSeq = 3
    MaxConn = 2
SYMMETRY MCSymmetryOne
INVARIANTS
    TypeOK
    AtMostOnce
    AckTruthful
    LedgerMirrorsVenue
