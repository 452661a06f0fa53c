SPECIFICATION FairSpec
CONSTANTS
    t1 = t1
    t2 = t2
    Threads = {t1, t2}
    OldThreads = {}
    QueueMaxItems = 1
    QueueMaxManualItems = 1
    MaxStoredStrikes = 1
    ChunkSize = 1
    PageSize = 1
    MaxRecords = 2
    RecordThreads = 2
    MaxFaults = 1
INVARIANTS
    TypeOK
    NoMailLost
PROPERTIES
    MailIsSettled
