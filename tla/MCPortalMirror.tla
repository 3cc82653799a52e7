---------------------------- MODULE MCPortalMirror ----------------------------
\* Instances of PortalMirror: an environment and its application; and two
\* environments with an application of the same name.
EXTENDS PortalMirror, TLC

CONSTANTS env, app, prod, prodApp, f1, f2, f3, b1, b2

PairParent == (env :> None) @@ (app :> env)
PairLevel == (env :> 1) @@ (app :> 2)
PairPath == (env :> f1) @@ (app :> f2)
Nothing == [p \in RepoPaths |-> None]
PairGiven == {Nothing,
              (f1 :> [of |-> env, body |-> b1]) @@ (f2 :> [of |-> app, body |-> b1])}

PairForms == (env :> {b1}) @@ (app :> {b1, b2})
PairOutcomes == (f1 :> {}) @@ (f2 :> {"False", "True"})

TwoParent == (env :> None) @@ (app :> env) @@ (prod :> None) @@ (prodApp :> prod)
TwoLevel == (env :> 1) @@ (app :> 2) @@ (prod :> 1) @@ (prodApp :> 2)
TwoPath == (env :> f1) @@ (app :> f2) @@ (prod :> f3) @@ (prodApp :> f2)
OnlyNothing == {Nothing}
AllForms == [r \in Resources |-> Payloads]
NoOutcomes == [p \in RepoPaths |-> {}]
=============================================================================
