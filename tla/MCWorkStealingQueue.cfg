SPECIFICATION FairSpec
CONSTANTS
    Owner = o
    Thieves = {t1}
    Items = {a, b}
    Capacity = 2
    MaxGrab = 2
    MaxBatch = 2
    MaxCursor = 4
INVARIANTS
    TypeOK
    CursorsFit
    CommittedReadIsFresh
PROPERTIES
    ImplementsFifo
    EveryCallReturns
CHECK_DEADLOCK FALSE
