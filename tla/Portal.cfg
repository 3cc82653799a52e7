\* An environment and its application, committed before the portal or by it.
CONSTANTS
    env = env app = app prod = prod prodApp = prodApp
    f1 = f1 f2 = f2 f3 = f3 b1 = b1 b2 = b2 None = None
    Resources = {env, app}
    Parent <- PairParent
    Levels = 2
    LevelOf <- PairLevel
    RepoPaths = {f1, f2}
    PathOf <- PairPath
    Payloads = {b1, b2}
    Forms <- PairForms
    RepoFiles <- PairGiven
    Outcomes <- PairOutcomes
    MaxOps = 2
    MaxFaults = 1
SPECIFICATION PortalSpec
INVARIANTS
    NoOrphan
    OwnManifest
PROPERTIES
    RecordsMirrored
