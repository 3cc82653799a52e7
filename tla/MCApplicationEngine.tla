------------------------ MODULE MCApplicationEngine ------------------------
(***************************************************************************)
(* Values for model-checking ApplicationEngine: two refs that sanitize to  *)
(* tags of their own, two Snapshots.                                       *)
(***************************************************************************)
EXTENDS ApplicationEngine

CONSTANTS r1, r2, t1, t2, s1, s2

MCTagOf == [r \in Refs |-> IF r = r1 THEN t1 ELSE t2]
App(ref, from, wantsSso) == [ref |-> ref, restore |-> from, sso |-> wantsSso]
From(snap, sanitize) == [snap |-> snap, sanitize |-> sanitize]

\* A stock app with SSO, and a clone of each Snapshot built from a ref of its
\* own: one sanitized, one with SSO.
MCUserSpecs == { App(None, None, TRUE), App(r1, From(s1, TRUE), FALSE),
                 App(r2, From(s2, FALSE), TRUE) }

\* The same Snapshot with and without sanitize.
CloneSpecs == { App(None, From(s1, FALSE), FALSE),
                App(None, From(s1, TRUE), FALSE) }
=============================================================================
