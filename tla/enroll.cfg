SPECIFICATION LiveSpec
CHECK_DEADLOCK FALSE
CONSTANTS
    Agents = {a1, a2}
    Limit = 2
    MaxAttempts = 3
    MaxFails = 2
    MaxRenewals = 1
INVARIANT TokenLimit
INVARIANT EnrolledIsRecorded
INVARIANT OneAuthority
INVARIANT FewDuplicates
PROPERTY EverybodyRuns
