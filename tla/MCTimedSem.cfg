CONSTANTS
    t1 = t1
    t2 = t2
    Threads <- MCThreads
    Timeouts <- MCTimeouts
    Second = 4
    Millisecond = 2
    InitialValue = 0
    Jumps <- MCJumps
    MaxPosts = 2
    MaxClock = 5
    Room = 1
SPECIFICATION FairSpec
INVARIANTS
    TypeOK
PROPERTIES
    TimeoutNotEarly
    SemSpec
    TimedWaitEnds
CHECK_DEADLOCK FALSE
