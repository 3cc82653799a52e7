SPECIFICATION Spec
CONSTANTS
    r1 = r1
    r2 = r2
    u1 = u1
    u2 = u2
    a1 = a1
    b1 = b1
    web = web
    admin = admin
    None = None
    Requests = {r1, r2}
    Users = {u1, u2}
    Apps = {a1, b1}
    Slugs = {web, admin}
    SlugOf <- MCSlugOf
    MaxFaults = 1
INVARIANTS
    GrantedGetThrough
    NoLockout
    GrantCloses
SYMMETRY MCSymmetry
