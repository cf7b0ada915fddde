SPECIFICATION Spec
CONSTANTS
    Rotators = {r1}
    Signers = {t1}
    MaxPrevious = 2
    MaxKeys = 2
    MaxFailures = 1
    MaxOverlaps = 1
    None = None
INVARIANTS
    PreviousKeysStayValid
