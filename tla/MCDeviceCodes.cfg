SPECIFICATION LiveSpec
CONSTANTS
    Devices = {d1, d2}
    UserCodes = {x1, x2}
    Clients = {c1, c2}
    Users = {u1, u2}
    None = None
    Lifetime = 1
    MaxTime = 4
INVARIANTS
    TypeOK
    IndexNeverDangles
    OnlyCollisionOrphans
PROPERTIES
    PaysOutOnce
    DecisionIsFinal
    PollingEnds
