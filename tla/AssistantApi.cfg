SPECIFICATION Spec
CONSTANTS
    Workers = {w1, w2}
    Ops <- AllOps
    MaxRequests = 2
    MessageCounts = {0, 2}
    MaxCrashes = 1
    PageSize = 1
    Orders = {"asc"}
SYMMETRY WorkerSymmetry
CHECK_DEADLOCK FALSE
INVARIANTS
    RowHasObject
    HandlerIsIntended
    OrphansAreLate
    DeletionClaimedOnce
    PagesCoverRows
