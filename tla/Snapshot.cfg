\* Once the users' operations are used up and every object is settled there is
\* nothing left to do.
CHECK_DEADLOCK FALSE
SPECIFICATION Spec
CONSTANTS
    n1 = n1
    n2 = n2
    a1 = a1
    a2 = a2
    c1 = c1
    w1 = w1
    w2 = w2
    None = None
    Snaps = {n1, n2}
    Apps = {a1, a2, c1}
    Sources = {a1, a2}
    Moving = {a1}
    Changing = {n1}
    Clones <- MCClones
    From <- MCFrom
    NsOf <- MCNsOf
    MaxOps = 3
    MaxFaults = 1
INVARIANTS
    CompletedMeansDumped
    RestoredMeansLoaded
    FailedMeansContested
PROPERTIES
    DumpStays
    EventuallyCompleted
