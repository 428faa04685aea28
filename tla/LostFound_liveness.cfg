\* A device that is not activated and two IARM events or calls.
SPECIFICATION FairSpec
CONSTANTS
    PrivateSsids = {home}
    LfSsid = lf
    NoSsid = none
    Activation = {FALSE}
    Warehouse = FALSE
    Codes = {}
    MaxHalEvents = 1
    MaxReports = 0
    MaxUserEvents = 2
INVARIANTS ActivationLoopHasThread
PROPERTIES StopLeavesLnf StartSignalServed
CHECK_DEADLOCK FALSE
