SPECIFICATION Spec
CONSTANTS
    Users = {s1, s2}
    Timeouts <- MCTimeouts
    FirstFd = 3
    MaxLinks = 2
    MaxPieces = 2
    Tries = 2
SYMMETRY MCSymmetry
INVARIANTS TypeOK DescriptorsOwned OwnStream ThreadReleased ToldOnce
PROPERTY ContractSpec
CHECK_DEADLOCK FALSE
