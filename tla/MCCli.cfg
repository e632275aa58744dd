CONSTANTS
    Names <- MCNames
    Word <- MCWord
    Described <- MCDescribed
    Others <- MCOthers
    NoWord = "empty"
    Fresh <- MCFresh
SPECIFICATION FairSpec
INVARIANTS
    TypeOK
    ListIntact
    HelpComplete
PROPERTIES
    WalkEnds
    TableSpec
CHECK_DEADLOCK FALSE
