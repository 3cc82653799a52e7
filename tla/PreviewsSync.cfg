CONSTANTS
    r1 = r1 u1 = u1 p1 = p1 None = None
    Repos = {r1}
    Urls = {u1}
    Pulls = {p1}
    UrlOf <- MCUrlOf
    NumberOf <- MCNumberOf
    MaxPushes = 1
    MaxEvents = 3
    MaxOps = 2
    MaxFaults = 1
\* Users, GitHub and faults are bounded: the system comes to rest.
CHECK_DEADLOCK FALSE
SPECIFICATION Spec
PROPERTIES
    EventuallyRebuilt
