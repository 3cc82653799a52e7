SPECIFICATION FairSpec
CONSTANTS
    a1 = a1
    a2 = a2
    s1 = s1
    s2 = s2
    p1 = p1
    o1 = o1
    o2 = o2
    None = None
    Apps = {a1, a2}
    Slugs = {s1, s2}
    Paths = {p1}
    Outposts = {o1}
    Installed = {o1}
    First <- MCFirst
    Edits <- MCEdits
    MaxGen = 2
    MaxOps = 2
    MaxFaults = 1
INVARIANTS
    ReadyMeansSignIn
    ReadyMeansServed
    SameCredentials
    NothingLeftBehind
PROPERTIES
    EventuallyReady
\* With the bounds on edits and faults used up, a settled system has nothing to do.
CHECK_DEADLOCK FALSE
