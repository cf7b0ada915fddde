SPECIFICATION Spec
CONSTANTS
    Rotators = {r1, r2}
    Signers = {t1}
    MaxPrevious = 2
    MaxKeys = 5
    MaxFailures = 1
    MaxOverlaps = 1
    None = None
SYMMETRY Alike
INVARIANTS
    TypeOK
    RestartIsInvisible
    RecentTokensVerify
PROPERTIES
    RotationRepairs
