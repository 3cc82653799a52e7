--------------------------- MODULE MCScopedSecrets ---------------------------
\* Instances of ScopedSecrets: the scopes of a client and of an Application.
EXTENDS ScopedSecrets, TLC

CONSTANTS client, app1, pClient, pApp, pSlug, n1, n2, v1, v2

TwoRank == (client :> 1) @@ (app1 :> 2)
TwoPaths == (client :> pClient) @@ (app1 :> pApp)
SlugPaths == (client :> pSlug) @@ (app1 :> pApp)
NoSecrets == [p \in SecretPaths |-> Empty]
EmptyOrHeld ==
    {NoSecrets,
     [NoSecrets EXCEPT ![pClient] = [Empty EXCEPT ![n1] = v1]],
     [NoSecrets EXCEPT ![pClient] = [Empty EXCEPT ![n1] = v1, ![n2] = v1],
                       ![pApp] = [Empty EXCEPT ![n1] = v2]]}
OneSecret == {[NoSecrets EXCEPT ![pClient] = [Empty EXCEPT ![n1] = v1]]}
=============================================================================
