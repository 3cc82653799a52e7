SPECIFICATION FairSpec
CONSTANTS
    d1 = d1
    d2 = d2
    n1 = n1
    n2 = n2
    s1 = s1
    s2 = s2
    ns = ns
    u1 = u1
    u2 = u2
    db1 = db1
    db2 = db2
    shared = shared
    q1 = q1
    q2 = q2
    q3 = q3
    None = None
    Dbs = {d1}
    NameOf <- MCNameOf
    Names = {n1}
    Servers = {s1}
    SpaceOf <- MCSpaceOf
    Spaces = {ns}
    Users = {u1}
    Databases = {db1}
    Paths = {shared}
    Sqls = {q1, q2, q3}
    First <- MCFirst
    Edits <- Forward
    Seeded = {shared}
    MaxGen = 3
    MaxFaults = 2
    MaxCrashes = 2
INVARIANTS
    ReadyMeansConnects
    ReadyMeansProvisioned
    NothingLeftBehind
PROPERTIES
    
    EventuallyReady
\* With the bounds on edits and faults used up, a settled system has nothing to do.
CHECK_DEADLOCK FALSE
