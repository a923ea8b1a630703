SPECIFICATION FairSpec
CONSTANTS
    w1 = w1
    w2 = w2
    c1 = c1
    c2 = c2
    Workers = {w1, w2}
    Clients = {c1, c2}
    MaxRounds = 3
    OverlapRounds = 1
    MaxOverlaps = 1
    MaxCancels = 1
    MaxCrashes = 1
    MayVanish = TRUE
INVARIANTS
    TypeOK
    SingleExecution
    NoSilentStall
    PauseIsAnswerable
    CompletedHasAnswer
PROPERTIES
    TerminalIsFinal
    QueuedRunSettles
CHECK_DEADLOCK FALSE
