------------------------------ MODULE MCPreviews ------------------------------
\* One pull request of one repository.
EXTENDS Previews, TLC
CONSTANTS r1, u1, p1
MCUrlOf == p1 :> u1
MCNumberOf == p1 :> 1
=============================================================================
