SPECIFICATION Spec
CONSTANTS
    t1 = t1
    t2 = t2
    t3 = t3
    Threads = {t1, t2, t3}
    QueueMaxItems = 2
    QueueMaxManualItems = 2
    PageSize = 2
    ChunkSize = 1
    MaxDate = 4
    MaxFaults = 1
SYMMETRY ThreadSymmetry
INVARIANTS
    TypeOK
    ManualWorkHasAJob
    MovesFollowTheJob
    JobCoversItsSearch
PROPERTIES
    RequestsBecomeJobs
