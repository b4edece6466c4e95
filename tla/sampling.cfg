SPECIFICATION LiveSpec
CHECK_DEADLOCK FALSE
CONSTANTS
    Procs = {p1, p2}
    Ifaces = {e1, e2}
    Pods = {d1, d2}
    N = 1
    Word = 16
    MaxAge = 1
    MaxWork = 2
    MaxChurn = 2
    MaxUpsets = 1
    Programs <- MCPrograms
    RSS <- MCRSS
PROPERTY HonestRates
PROPERTY HonestTotal
PROPERTY NothingHidden
PROPERTY ServicesAgree
PROPERTY PodsNamed
CONSTRAINT OneKind
