SPECIFICATION FairSpec
CONSTANTS
    Submitters = {s1, s2}
    Workers = {w1, w2}
    Tasks = {x, y, z}
    Throwing = {z}
    Nodes = {n1, n2, n3}
    Null = Null
    SlaveMayStop = TRUE
INVARIANTS
    OneToken
    NodesAreSound
PROPERTIES
    ImplementsSerialExecutor
    EveryTaskRuns
CHECK_DEADLOCK FALSE
