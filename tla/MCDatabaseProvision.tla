------------------------ MODULE MCDatabaseProvision ------------------------
(***************************************************************************)
(* Values for model-checking DatabaseProvision: Databases of one or of two *)
(* charts on a server, and the edits their users make.                     *)
(***************************************************************************)
EXTENDS DatabaseProvision

CONSTANTS d1, d2, n1, n2, s1, s2, ns, u1, u2, db1, db2, shared, q1, q2, q3

MCNameOf  == [d \in Dbs |-> IF d = d1 THEN n1 ELSE n2]
MCSpaceOf == [s \in Servers |-> ns]

Wanted(s, u, b, p, q) ==
    [server |-> s, user |-> u, database |-> b, path |-> p, sql |-> q]

\* The password is generated, or taken from a path that holds one already;
\* initSql goes from version to version and never back.
MCFirst == [d \in Dbs |-> {Wanted(s1, u1, db1, None, q1),
                           Wanted(s1, u1, db1, shared, q1)}]
Forward == {<<s, [s EXCEPT !.sql = q2]>> :
               s \in {t \in Specs : t.sql = q1}}
           \cup {<<s, [s EXCEPT !.sql = q3]>> :
                   s \in {t \in Specs : t.sql = q2}}

\* Two Databases of one role.
SharedFirst == [d \in Dbs |->
                  {Wanted(s1, u1, IF d = d1 THEN db1 ELSE db2, None, q1)}]

NoEdits == {}

\* One Database whose role is renamed.
Rename == {<<s, [s EXCEPT !.user = u2]>> : s \in {t \in Specs : t.user = u1}}
=============================================================================
