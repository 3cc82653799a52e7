\* Two variables of a scope, two requests at a time.
CONSTANTS
    n1 = n1 n2 = n2 v1 = v1 v2 = v2 b1 = b1 b2 = b2 None = None
    Names = {n1, n2}
    Values = {v1, v2}
    Bodies = {b1}
    Requests = {1, 2}
    MaxOps = 3
    MaxFaults = 1
\* Nothing is left to do when nobody changes anything.
CHECK_DEADLOCK FALSE
SPECIFICATION Spec
INVARIANTS
    Acknowledged

    
