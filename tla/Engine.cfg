SPECIFICATION FairSpec
CONSTANTS
    r1 = r1
    r2 = r2
    t1 = t1
    t2 = t2
    s1 = s1
    s2 = s2
    None = None
    Refs = {r1, r2}
    Tags = {t1, t2}
    TagOf <- MCTagOf
    Snaps = {s1, s2}
    UserSpecs <- MCUserSpecs
    MaxGen = 3
    MaxFaults = 1
INVARIANTS
    DeployedImageIsBuilt
    ReadyMeansServed
    ReadyMeansRestored
    NoOrphan
PROPERTIES
    KeepsContract
    EventuallySettled
\* With the bounds on edits and faults used up, a settled system has nothing to do.
CHECK_DEADLOCK FALSE
