SPECIFICATION Spec
CONSTANTS
    e1 = e1
    e2 = e2
    Executions = {e1, e2}
    Threshold = 2
    DayLength = 2
    MaxCalls = 1
    MaxNow = 3
    MaxFaults = 2
SYMMETRY ExecutionSymmetry
INVARIANTS
    FailuresAreCounted
    OneMailADay
    CallsAreTallied
PROPERTIES
    FailuresAreMailed
