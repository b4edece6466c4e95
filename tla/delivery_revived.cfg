SPECIFICATION Spec
CHECK_DEADLOCK FALSE
CONSTANTS
    Machines = {m1}
    Conns = {c1, c2}
    Modules = {a, b}
    Gone = Gone
    NoConn = NoConn
    Resolvers = {r1}
    Editors = {}
    Removers = {d1}
    MaxRequests = 2
    MaxDrops = 1
    MaxFlushFails = 0
    MaxWire = 2
INVARIANT DeletedForGood
