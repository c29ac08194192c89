SPECIFICATION FairSpec
CONSTANTS
    Workers = {w1, w2, w3}
    Fibers = {1, 2, 3, 4}
    Programs <- AllButAddEach
    Futexes = {"mutex", "cond", "group"}
    Null = Null
INVARIANTS
    FibersAreWhole
    MutualExclusion
    NoFiberForgotten
    WaitMeansDone
    GroupIsQuiet
PROPERTIES
    EveryFiberEnds
CHECK_DEADLOCK FALSE
