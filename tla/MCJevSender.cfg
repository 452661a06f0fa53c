SPECIFICATION Spec
CONSTANTS
    Threads <- MCThreads
    ChunkSize = 3
    BatchSize = 2
    MaxAttempts = 2
    MaxStrikes = 2
    DailyTokenBudget = 2
    MaxTokens = 1
    InitialEstimate = 2
    BaseDelay = 1
    MaxBackoff = 4
    MaxRetryAfter = 2
    Waits = {0, 3}
    SoftLimit = 5
    MinChunkStart = 2
    MaxRead = 1
    MaxRound = 2
    MaxDay = 1
    MaxFaults = 1
INVARIANTS
    DailyBudgetHolds
    DeadlineHolds
PROPERTIES
    FailuresAreEarned
    RefusalEndsSending
