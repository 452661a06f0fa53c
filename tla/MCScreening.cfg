SPECIFICATION Spec
CONSTANTS
    Threads <- MCThreads
    Now <- MCNow
    WindowMargin = 1
    MaxPages = 2
    Messages <- MCMessages
    Arrivals <- MCArrivals
    Mailboxes <- MCMailboxes
    MaxChanges = 1
    MaxFaults = 1
    JevLimit = 20
    CombinedLimit = 22
    RequestOverhead = 1
    QuestionOverhead = 1
    SafetyMargin = 1
    CombinedMargin = 1
    KeyTokens = 2
    Questions <- MCQuestions
INVARIANTS
    TypeOK
    ExcludedMailIsNotSent
    RequestsAreFitted
