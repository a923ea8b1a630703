SPECIFICATION Spec
CONSTANTS
    Workers = {w1, w2}
    Ops = {"CreateMessage"}
    MaxRequests = 2
    MessageCounts = {0}
    MaxCrashes = 0
    PageSize = 1
    Orders = {"desc"}
CHECK_DEADLOCK FALSE
INVARIANTS
    PagesReachEveryRow
