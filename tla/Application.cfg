SPECIFICATION Spec
CONSTANTS
    ConsumerThreads = 2
    MaxTasks = 2
    MaxInFlight = 2
CHECK_DEADLOCK FALSE
INVARIANTS
    UsersHaveTables
    NoThreadAtExit
PROPERTIES
    SignalEndsProcess
