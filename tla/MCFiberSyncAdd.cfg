SPECIFICATION Spec
CONSTANTS
    Workers = {w1, w2}
    Fibers = {1, 2, 3, 4}
    Programs <- OnlyAddEach
    Futexes = {"mutex", "cond", "group"}
    Null = Null
INVARIANT
    WaitMeansDone
CHECK_DEADLOCK FALSE
