SPECIFICATION Spec
CHECK_DEADLOCK FALSE
CONSTANTS
    Machines = {m1, m2}
    Groups = {g1}
    Commands = {1, 2}
    Admins = {1}
    Limit = 1
    MaxUpsets = 0
INVARIANT EveryPayloadKept
