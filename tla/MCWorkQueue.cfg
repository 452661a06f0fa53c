SPECIFICATION QueueSpec
CONSTANTS
    t1 = t1
    t2 = t2
    t3 = t3
    Threads = {t1, t2, t3}
    QueueMaxItems = 2
    QueueMaxManualItems = 1
    MaxStoredStrikes = 1
    Requests <- MCRequests
SYMMETRY ThreadSymmetry
INVARIANTS
    QueueOK
    ChunksAreOldestFirst
PROPERTIES
    NoOvertaking
    DecisionsStick
    ImplementsContract
