SPECIFICATION FairSpec
CONSTANTS
    Workers = {w1, w2}
    Clients = {c1, c2}
    Stoppers = {c2}
    r1 = r1
    k = k
    Tasks = {r1, r2, r3, k}
    Roots = {r1, r2, r3}
    Children <- ChildOfFirst
    Throwing = {r1}
    None = None
    Copies = {"thread-pool"}
PROPERTY
    IdleMeansIdle
