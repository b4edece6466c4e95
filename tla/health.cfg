SPECIFICATION LiveSpec
CHECK_DEADLOCK FALSE
CONSTANTS
    DownAfter = 3
    Fresh = 1
    Scan = 2
    Offsets <- MCOffsets
    Polls = {1, 2}
    MaxUpsets = 2
PROPERTY NoFalseAlarm
PROPERTY DeadIsDown
PROPERTY RemovedIsForgotten
CONSTRAINT FewerAhead
