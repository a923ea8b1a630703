CONSTANTS
    Stores = {"s1", "s2"}
    Provisioned = {"s1"}
    Files = {"f1", "f2", "f3"}
    Threads = {t1, t2}
    Format <- MCFormat
    Content <- MCContent
    PageParagraphs = 2
    BatchSize = 1
    Guidances <- MCGuidances
    MaxQueries = 1
    TopKs = {0, 1, 9}
    DefaultLimit = 2
    MaxLimit = 4
    FilterLimit = 4
    MaxOps = 4
    MaxCrashes = 1
SPECIFICATION Spec
SYMMETRY ThreadSymmetry
INVARIANT IngestedIsRetrievable
INVARIANT RemovedIsGone
INVARIANT ListedInstanceHasTable
CHECK_DEADLOCK FALSE
