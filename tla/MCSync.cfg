SPECIFICATION Spec
CONSTANTS
    Lockers = {1, 2, 3}
    MaxTicket = 4
    Null = Null
    Seats = 3
    Producers = {1, 2}
    Consumers = {3, 4}
    Capacity = 2
    Calls = 2
    Waiters = {1, 2}
    Notifiers = {3, 4}
    Modulus = 4
    MaxParticipants = 3
    Rounds = 2
    Workers = {1, 2}
    Fibers = {1, 2, 3}
    Coroutines = {r1, r2, r3}
    MaxSuspends = 1
    Iterations = 100
INVARIANTS
    CurrentIsRunning
    CriticalSectionsExclude
    NodesAlive
    NoWakeUpLost
    NobodyPassesEarly
PROPERTIES
    QueuedLocksAreFifo
    LocksLetIn
    EveryWaitReturns
    SimulationsBreak
CHECK_DEADLOCK FALSE
