SPECIFICATION FairSpec
CONSTANTS
    t1 = t1
    t2 = t2
    t3 = t3
    h1 = h1
    h2 = h2
    NoTask = NoTask
    Tasks = {t1, t3}
    Handlers = {h1, h2}
    Threads = {1, 2}
    ConsumerThreadCount = 1
    Accepts <- MCAccepts
INVARIANTS
    TaskConservation
    StoppedMeansJoined
PROPERTIES
    ImplementsTaskDelivery
    TerminateReturns
    QueuedIsTaken
