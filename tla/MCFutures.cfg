SPECIFICATION FairSpec
CONSTANTS
    Clients = {1, 2, 3}
    Workers = {4, 5}
    States = {s1, s2, s3, s4, s5, s6}
    s1 = s1
    s2 = s2
    s3 = s3
    s4 = s4
    s5 = s5
    s6 = s6
    Null = Null
    Programs <- AllPrograms
INVARIANTS
    ExactlyOnce
    FrameIsThere
    AnswerIsRight
    OnTheirExecutor
PROPERTIES
    EverythingEnds
CHECK_DEADLOCK FALSE
