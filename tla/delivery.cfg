SPECIFICATION LiveSpec
CHECK_DEADLOCK FALSE
CONSTANTS
    Machines = {m1}
    Conns = {c1, c2}
    Modules = {a, b}
    Gone = Gone
    NoConn = NoConn
    Resolvers = {r1}
    Editors = {e1}
    Removers = {d1}
    MaxRequests = 2
    MaxDrops = 1
    MaxFlushFails = 1
    MaxWire = 1
INVARIANT NoLostWakeup
INVARIANT DeletedForGoodAlone
PROPERTY RefinesRegister
PROPERTY Converges
PROPERTY DeletionEndsStreams
