SPECIFICATION Spec
CONSTANTS
    a = a
    b = b
    c = c
    v1 = v1
    v2 = v2
    Ids = {a, b, c}
    Values = {v1, v2}
    MaxShards = 3
    MaxInterrupts = 2
SYMMETRY ShardSymmetry
INVARIANTS
    TypeOK
PROPERTIES
    SurvivorsStay
    ImplementsListStore
