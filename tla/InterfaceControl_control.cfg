\* One bus thread, two calls, and a crash, a reboot or a change of the cable.
SPECIFICATION FairSpec
CONSTANTS
    Callers = {iarm}
    PniRfc = {FALSE, TRUE}
    DisableRfc = FALSE
    Settings = {manual}
    Internets = {{"WIFI"}, {"ETHERNET"}}
    MaxCalls = 2
    MaxFaults = 1
    MaxEvents = 2
INVARIANTS TypeOK DisallowedIsDown OneInterfaceActive SettingsApplied
PROPERTIES ControllerRests
CHECK_DEADLOCK FALSE
