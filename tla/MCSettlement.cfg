SPECIFICATION Spec
CONSTANTS
    t1 = t1
    t2 = t2
    Threads = {t1, t2}
    MaxIds = 2
    MaxStoredStrikes = 1
    MaxChanges = 2
    MaxMail = 3
    MaxSetups = 3
    MaxFaults = 1
SYMMETRY ThreadSymmetry
INVARIANTS
    TypeOK
    JevErrorIsRecognised
    TriggerHasPosition
PROPERTIES
    ChangedLabelsCostNoStrike
    AnswersAreApplied
