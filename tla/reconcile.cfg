SPECIFICATION LiveSpec
CHECK_DEADLOCK FALSE
CONSTANTS
    Keys = {k1, k2}
    Dir <- OwnDir
    Desired <- AnyDesired
    NoKey = NoKey
    Loops = {"stream", "retry"}
    MaxChanges = 1
    MaxCrashes = 1
    MaxFails = 1
    MaxOverlaps = 2
INVARIANT RunsOnce
INVARIANT NothingClaimedUnrun
INVARIANT NoOrphanDirs
PROPERTY Converges
