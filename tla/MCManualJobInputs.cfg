SPECIFICATION Spec
CONSTANTS
    t1 = t1
    Threads = {t1}
    QueueMaxItems = 1
    QueueMaxManualItems = 1
    PageSize = 1
    ChunkSize = 1
    MaxDate = 1
    MaxFaults = 1
SYMMETRY ThreadSymmetry
INVARIANTS
    LeftoversAreNotUsed
