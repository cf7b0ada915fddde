SPECIFICATION Spec
CONSTANTS
    Codes = {k1, k2}
    Clients = {c1, c2}
    Redirects = {r1}
    Verifiers = {v1, v2}
    Users = {u1}
    Threads = {t1, t2}
    None = None
    Lifetime = 1
    MaxTime = 3
INVARIANTS
    ReplayRevokesTokens
