\* Is mutexTriggerLAF free?
SPECIFICATION LnfSpec
CONSTANTS
    Callers = {iarm}
    MaxStarts = 1
    MaxConnects = 1
    MaxCalls = 2
    MaxInputs = 3
INVARIANTS StopEndsLnf
CHECK_DEADLOCK FALSE
