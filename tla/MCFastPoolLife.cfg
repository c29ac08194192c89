SPECIFICATION FairSpec
CONSTANTS
    a = a
    b = b
    c = c
    d = d
    e = e
    f = f
    N = 2
    Clients = {c1}
    Waiters = {c1}
    Stoppers = {c1}
    Tasks = {a, b}
    Roots = {a}
    Programs <- OneFan
    Throwing = {b}
    Null = Null
    Garbage = Garbage
    Capacity = 2
    LifoLimit = 1
    CycleLimit = 2
INVARIANTS
    TasksAreAccounted
PROPERTIES
    ReturnsMeanIt
    EveryWaitEnds
CHECK_DEADLOCK FALSE
