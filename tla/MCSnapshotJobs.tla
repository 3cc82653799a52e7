---------------------------- MODULE MCSnapshotJobs ----------------------------
(* Two applications of one namespace and a clone in another, which is        *)
(* restored from the first Snapshot.                                        *)
EXTENDS SnapshotJobs

CONSTANTS n1, n2, a1, a2, c1, w1, w2

MCClones == {c1}
MCFrom == [c \in MCClones |-> n1]
MCNsOf == [a \in Apps |-> IF a = c1 THEN w2 ELSE w1]
=============================================================================
