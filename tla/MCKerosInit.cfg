CONSTANTS
    Files <- MCFiles
    Kind <- MCKind
    NoFile = NoFile
    MaxInits = 3
SPECIFICATION FairSpec
INVARIANTS TypeOK AgentConfigured
PROPERTY WaitEnds
CHECK_DEADLOCK FALSE
