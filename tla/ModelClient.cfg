SPECIFICATION MCSpec
CONSTANTS
    c1 = c1
    c2 = c2
    v1 = v1
    v2 = v2
    v3 = v3
    t1 = t1
    t2 = t2
    t3 = t3
    t4 = t4
    d1 = d1
    d2 = d2
    Callers = {c1, c2}
    Ops <- MCOps
    Bodies <- MCBodies
    MaxParallel = 2
    VaultThreads = {v1, v2, v3}
    NoThread = NoThread
    MaxDeletes = 1
    MaxVaultCrashes = 1
    Threads = {t1, t2, t3, t4}
    Connections = {d1, d2}
    NoConnection = NoConnection
    Garbage = Garbage
INVARIANTS
    StreamIsFaithful
    BatchQuiesces
    VaultEntryIsWhole
    EachConnectionOnce
CHECK_DEADLOCK FALSE
SYMMETRY Symmetry
