CONSTANTS
    MaxCommands <- MCMaxCommands
    MaxEvents = 2
    StartMayFail = TRUE
SPECIFICATION FairSpec
INVARIANT WaveSuccessMeansMatch
CHECK_DEADLOCK FALSE
