---------------------------- MODULE MCAccessGate ----------------------------
(***************************************************************************)
(* AccessGate for TLC: an application with up to two slugs, each of which  *)
(* is registered in Authentik once.                                        *)
(***************************************************************************)
EXTENDS AccessGate, TLC

CONSTANTS r1, r2, u1, u2, a1, b1, web, admin

MCSlugOf == [a \in Apps |-> IF a = b1 THEN admin ELSE web]

MCSymmetry == Permutations(Requests) \cup Permutations(Users)
=============================================================================
