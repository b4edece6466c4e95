SPECIFICATION LiveSpec
CHECK_DEADLOCK FALSE
CONSTANTS
    Machines = {m1, m2}
    Groups = {g1}
    Commands = {1, 2}
    Admins = {1, 2}
    Limit = 1
    MaxUpsets = 1
INVARIANT PayloadsKept
INVARIANT NoOrphans
INVARIANT NewestSecondsKept
INVARIANT MissesOnlyDropped
INVARIANT AimedOnly
PROPERTY Runs
