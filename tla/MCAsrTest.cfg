CONSTANTS
    MaxCommands <- MCMaxCommands
    MaxEvents = 2
    StartMayFail = TRUE
SPECIFICATION FairSpec
INVARIANTS
    TypeOK
    NoLostWakeup
    NoStaleWakeup
    WaveOfThisCommand
    NameStable
PROPERTY CommandReturns
CHECK_DEADLOCK FALSE
