SPECIFICATION Spec
CONSTANTS
    Users = {s1}
    Timeouts <- MCTimeouts
    FirstFd = 3
    MaxLinks = 2
    MaxPieces = 2
    Tries = 2
INVARIANT PostTouchesLive
CHECK_DEADLOCK FALSE
