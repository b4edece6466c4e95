SPECIFICATION LiveSpec
CHECK_DEADLOCK FALSE
CONSTANTS
    Fresh = 0
    MaxCore = 2
    MaxGPU = 1
    MaxTime = 2
    MaxPolls = 1
    MaxUpsets = 1
    MaxWire = 1
INVARIANT StreamFollows
PROPERTY CoreKept
PROPERTY ChartAscends
PROPERTY ChartCatchesUp
