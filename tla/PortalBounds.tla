---------------------------- MODULE PortalBounds -----------------------------
(***************************************************************************)
(* What the modules of the portal's requests (ScopedVariables,             *)
(* ScopedSecrets, PortalMirror) have in common: the value for what is not  *)
(* there, and the bounds of their instances.                               *)
(***************************************************************************)
EXTENDS Naturals

CONSTANTS
    None,
    MaxOps,     \* bound: what users, and other reconciles, do
    MaxFaults   \* bound: failed calls, restarts and lost status pushes

VARIABLES
    ops, faults   \* how much of it was done
=============================================================================
