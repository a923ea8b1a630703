SPECIFICATION FairSpec
CONSTANTS
    f1 = f1
    f2 = f2
    w1 = w1
    w2 = w2
    Files = {f1, f2}
    Workers = {w1, w2}
    PageSize = 2
    MaxRequests = 2
    MaxCrashes = 1
INVARIANTS
    LastHandlerClosesBatch
    FailureHasCause
PROPERTIES
    FinishedFileIsFinal
    CancelledBeforeStartIsKept
    BatchSettles

CHECK_DEADLOCK FALSE
