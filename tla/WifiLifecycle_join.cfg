\* Does the join of the monitor end?
SPECIFICATION FairSpec
CONSTANTS
    Callers = {iarm}
    MaxStarts = 1
    MaxConnects = 1
    MaxCalls = 2
    MaxInputs = 3
PROPERTIES StopReturns
CHECK_DEADLOCK FALSE
