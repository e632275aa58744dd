CONSTANTS
    Parts <- MCParts
    Cut <- MCCut
    Width = 2
    NULL = NULL
    Failing = {"open", "new", "line", "grow", "key", "val"}
    MaxLines = 4
SPECIFICATION LoadSpec
INVARIANTS LoadTypeOK LoadedIsMeant ErrorsRefuse PrefixReturned NothingLeft
CHECK_DEADLOCK FALSE
