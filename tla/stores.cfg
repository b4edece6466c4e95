SPECIFICATION Spec
CHECK_DEADLOCK FALSE
CONSTANTS
    Machines = {m1, m2, m3}
    Founders = {m1}
    Groups = {g1}
    Artifacts = {a1}
    Clients = {c1, c2}
    Limit = 1
    MaxRequests = 4
    MaxFaults = 1
INVARIANT AnsweredIsKept
INVARIANT NoDangling
INVARIANT GrantsWithinLimit
INVARIANT DeletedStays
PROPERTY DesiredKept
SYMMETRY Interchangeable
