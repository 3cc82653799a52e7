CONSTANTS
    r1 = r1 r2 = r2 u1 = u1 u2 = u2 None = None
    Repos = {r1, r2}
    Urls = {u1, u2}
    MaxOps = 3
    MaxFaults = 1
\* Users and faults are bounded: the handlers come to rest.
CHECK_DEADLOCK FALSE
SPECIFICATION PipelineSpec
INVARIANTS
    ReadyMeansWired
    NothingLeftBehind
