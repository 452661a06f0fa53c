SPECIFICATION Spec
CONSTANTS
    t1 = t1
    t2 = t2
    t3 = t3
    Threads = {t1, t2, t3}
    QueueMaxItems = 2
    QueueMaxManualItems = 1
    LookbackSeconds = 1
    MaxWindowSeconds = 2
    MinWindowSeconds = 1
    MaxMatches = 2
    TicksPerSecond = 2
    RunTicks = 1
    MaxMail = 3
    MaxNow = 4
    MaxFaults = 1
SYMMETRY ThreadSymmetry
INVARIANTS
    TypeOK
    MailIsAccountedFor
PROPERTIES
    PositionNeverGoesBack
    FallbackAdvances
