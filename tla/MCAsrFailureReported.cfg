CONSTANTS
    MaxCommands <- MCMaxCommands
    MaxEvents = 2
    StartMayFail = TRUE
SPECIFICATION FairSpec
PROPERTY AsrFailureReported
CHECK_DEADLOCK FALSE
