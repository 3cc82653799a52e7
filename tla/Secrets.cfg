\* Two scopes, two requests at a time.
CONSTANTS
    client = client app1 = app1 pClient = pClient pApp = pApp pSlug = pSlug
    n1 = n1 n2 = n2 v1 = v1 v2 = v2 None = None
    Scopes = {client, app1}
    Rank <- TwoRank
    Stores <- TwoPaths
    Looks <- TwoPaths
    SecretPaths = {pClient, pApp}
    SecretNames = {n1, n2}
    SecretValues = {v1, v2}
    SecretRequests = {1, 2}
    SecretMaps <- EmptyOrHeld
    MaxOps = 2
    MaxFaults = 1
\* Nothing is left to do when nobody changes anything.
CHECK_DEADLOCK FALSE
SPECIFICATION SecretsSpec
INVARIANTS
    SecretsAcknowledged
    NoDangling

    
