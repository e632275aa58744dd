SPECIFICATION FairSpec
CONSTANTS
    MaxConversions = 2
    Data <- MCData
    Room = 2
INVARIANTS TypeOK BlocksReleased FileIsStream
PROPERTY ConversionEnds
CHECK_DEADLOCK FALSE
