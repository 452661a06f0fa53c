SPECIFICATION Spec
CONSTANTS
    t1 = t1
    t2 = t2
    Threads = {t1, t2}
    OldThreads = {}
    QueueMaxItems = 2
    QueueMaxManualItems = 1
    MaxStoredStrikes = 1
    ChunkSize = 1
    PageSize = 1
    MaxRecords = 2
    RecordThreads = 1
    MaxFaults = 1
SYMMETRY ThreadSymmetry
PROPERTIES
    RateLimitStopsGmailWork
