SPECIFICATION FairSpec
CONSTANTS
    Submitters = {s1}
    Workers = {w1}
    Tasks = {x, y}
    Throwing = {x}
    Nodes = {n1, n2}
    Null = Null
    SlaveMayStop = FALSE
PROPERTY
    EveryTaskRunsAnyway
CHECK_DEADLOCK FALSE
