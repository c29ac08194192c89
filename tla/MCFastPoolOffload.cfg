SPECIFICATION Spec
CONSTANTS
    a = a
    b = b
    c = c
    d = d
    e = e
    f = f
    N = 2
    Clients = {c1}
    Waiters = {}
    Stoppers = {}
    Tasks = {a, b, c, d}
    Roots = {a}
    Programs <- OneFan
    Throwing = {}
    Null = Null
    Garbage = Garbage
    Capacity = 2
    LifoLimit = 1
    CycleLimit = 2
INVARIANT
    NothingDropped
SYMMETRY Alike
CHECK_DEADLOCK FALSE
