SPECIFICATION HistorySpec
CONSTANTS
    t1 = t1
    t2 = t2
    t3 = t3
    Threads = {t1, t2, t3}
    OldThreads = {}
    QueueMaxItems = 2
    QueueMaxManualItems = 1
    MaxStoredStrikes = 1
    ChunkSize = 2
    PageSize = 2
    MaxRecords = 2
    RecordThreads = 3
    MaxFaults = 1
SYMMETRY ThreadSymmetry
CONSTRAINT SmallMailbox
INVARIANTS
    MarkedThreadsAreNotSent
PROPERTIES
    JevErrorIsEarned
    FailuresStayVisible
    OnlyNewConversationsMove
