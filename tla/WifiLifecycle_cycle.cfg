\* Two threads switch Wi-Fi on, off and on again, one after the other with two
\* connects, or at the same time with fewer.
SPECIFICATION FairSpec
CONSTANTS
    Callers = {iarm, event}
    MaxStarts = 2
    MaxConnects = 2
    MaxCalls = 3
    MaxInputs = 5
INVARIANTS TypeOK ReinitSafe
PROPERTIES CallbackReturns UpdateServed
CHECK_DEADLOCK FALSE
