SPECIFICATION Spec
CONSTANTS
    a = a
    b = b
    c = c
    d = d
    e = e
    f = f
    N = 2
    Clients = {c1}
    Waiters = {}
    Stoppers = {}
    Tasks = {a, b, c, d, e, f}
    Roots = {a}
    Programs <- FanOrChain
    Throwing = {}
    Null = Null
    Garbage = Garbage
    Capacity = 4
    LifoLimit = 1
    CycleLimit = 2
INVARIANTS
    TasksAreAccounted
    CountersAreTrue
    NoLostWakeUp
    EmptyHanded
SYMMETRY Alike
CHECK_DEADLOCK FALSE
