SPECIFICATION Spec
CONSTANTS
    w1 = w1
    w2 = w2
    c1 = c1
    c2 = c2
    Workers = {w1, w2}
    Clients = {c1, c2}
    MaxRounds = 3
    OverlapRounds = 1
    MaxOverlaps = 1
    MaxCancels = 1
    MaxCrashes = 0
    MayVanish = FALSE
PROPERTIES
    CancellationIsKept
CHECK_DEADLOCK FALSE
