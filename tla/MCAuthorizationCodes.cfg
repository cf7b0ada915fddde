SPECIFICATION Spec
CONSTANTS
    Codes = {k1, k2}
    Clients = {c1, c2}
    Redirects = {r1, r2}
    Verifiers = {v1, v2}
    Users = {u1, u2}
    Threads = {t1, t2}
    None = None
    Lifetime = 1
    MaxTime = 3
SYMMETRY Symmetry
INVARIANTS
    TypeOK
    OneTokenPerCode
PROPERTIES
    PaysOutOnce
    OthersCannotSpoil
