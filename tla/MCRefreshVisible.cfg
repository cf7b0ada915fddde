SPECIFICATION Spec
CONSTANTS
    Jti = {j1, j2, j3}
    c1 = c1
    u1 = u1
    Clients = {c1}
    Grants <- BoundGrants
    Users = {u1}
    Scopes = {}
    Threads = {t1}
    None = None
    MaxBoots = 1
SYMMETRY Symmetry
INVARIANTS
    FamilyRevocationIsVisible
