SPECIFICATION Spec
CHECK_DEADLOCK FALSE
CONSTANTS
    Keys = {k1, k2}
    Dir <- SharedDir
    Desired <- OneAtMost
    NoKey = NoKey
    Loops = {"stream"}
    MaxChanges = 1
    MaxCrashes = 0
    MaxFails = 0
    MaxOverlaps = 1
INVARIANT WantedDirsKept
