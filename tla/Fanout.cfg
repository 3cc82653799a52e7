SPECIFICATION FairSpec
CONSTANTS
    client = client
    environment = environment
    domain = domain
    a1 = a1
    a2 = a2
    Unstamped = Unstamped
    Parents = {client, environment}
    Domains = {}
    Broad = {client}
    Requires <- MCRequires
    Apps = {a1}
    Scopes <- MCScopes
    MaxGen <- FixedMaxGen
    MaxRetargets = 1
    MaxCrashes = 1
    MaxMissed = 1
INVARIANTS
    RevisionIsRendered
PROPERTIES
    NeverRendersBackwards
    ParentsConverge
    ComesToRest
\* With the bounds on edits and faults used up, a settled system has nothing to do.
CHECK_DEADLOCK FALSE
