SPECIFICATION Spec
CONSTANTS
    p1 = p1
    f1 = f1
    s1 = s1
    s2 = s2
    Orders = {p1}
    Prepays = {p1}
    Calls = {s1, s2}
    MaxCrashes = 0
    Faults = {}
CHECK_DEADLOCK FALSE
INVARIANT
    OneChannel
