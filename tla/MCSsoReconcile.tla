---------------------------- MODULE MCSsoReconcile ----------------------------
(***************************************************************************)
(* Values for model-checking SsoReconcile: two SSOApplications of          *)
(* different slugs, of either protocol, behind one outpost.                *)
(***************************************************************************)
EXTENDS SsoReconcile

CONSTANTS a1, a2, s1, s2, p1, o1, o2

Oauth2(slug, path) ==
    [protocol |-> "oauth2", slug |-> slug, path |-> path, outpost |-> o1,
     valid |-> TRUE, target |-> TRUE]
Proxy(slug, o, ok) ==
    [protocol |-> "proxy", slug |-> slug, path |-> None, outpost |-> o,
     valid |-> ok, target |-> FALSE]

MCFirst == [a \in Apps |-> IF a = a1
                           THEN {Oauth2(s1, None), Proxy(s1, o1, FALSE)}
                           ELSE {Proxy(s2, o1, TRUE)}]

\* The credentials are moved to a path; an invalid spec is corrected.
MCEdits == {<<Oauth2(s1, None), Oauth2(s1, p1)>>,
            <<Proxy(s1, o1, FALSE), Proxy(s1, o1, TRUE)>>}

\* A proxy application that names an outpost Authentik does not have.
LeftFirst == [a \in Apps |-> {Proxy(s1, o2, TRUE)}]
LeftEdits == {}
=============================================================================
