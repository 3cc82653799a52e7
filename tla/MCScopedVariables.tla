-------------------------- MODULE MCScopedVariables --------------------------
\* An instance of ScopedVariables.
EXTENDS ScopedVariables, TLC
CONSTANTS n1, n2, v1, v2, b1, b2
=============================================================================
