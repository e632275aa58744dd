CONSTANTS
    k1 = k1
    k2 = k2
    k3 = k3
    v1 = v1
    v2 = v2
    NULL = NULL
    Keys = {k1, k2, k3}
    Values = {v1}
    Hash <- MCHash
    MinSize = 2
    MaxSize = 4
    Failing = {"grow", "key", "val"}
SPECIFICATION Spec
INVARIANTS TypeOK InsertEnds
PROPERTY MapSpec
