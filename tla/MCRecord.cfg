CONSTANTS
    Names <- MCNames
    Pieces <- MCPieces
    NoName = "none"
    FirstFd = 3
    MaxNames = 3
    MaxSessions = 3
    MaxBlocks = 3
SPECIFICATION Spec
INVARIANTS TypeOK FdClosed ReadsOpenFile
PROPERTY RecorderSpec
CHECK_DEADLOCK FALSE
