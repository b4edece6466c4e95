SPECIFICATION Spec
CHECK_DEADLOCK FALSE
CONSTANTS
    Names = {pkg}
    Specs = {v1, v2}
    NoSpec = NoSpec
    Keys = {k1}
    Values = {x}
    NoLabel = NoLabel
    Anything = Anything
    Machines = {m1, m2}
    Groups = {1, 2}
    Absent = Absent
    Removed = Removed
    Nil = Nil
    Tenant = Tenant
    Admins = {p1, p2}
    Statuses = {ok}
    NoStatus = NoStatus
    MaxRequests = 4
    MaxReports = 1
    MaxFailures = 2
    v1 = v1
    v2 = v2
    x = x
    pkg = pkg
    Shapes <- MCShapes
INVARIANT Settled
PROPERTY DeletedIsGone
INVARIANT OverridesWin
CONSTRAINT Explored
SYMMETRY Interchangeable
