\* Both LNF threads, activated and not, with two reports of the
\* HAL: one code of each kind wifi_status_action treats alike.
SPECIFICATION Spec
CONSTANTS
    PrivateSsids = {home}
    LfSsid = lf
    NoSsid = none
    Activation = {FALSE, TRUE}
    Warehouse = FALSE
    Codes = {"CONNECTING", "NOT_FOUND", "INVALID_CREDENTIALS", "CONNECTION_LOST",
             "UNRECOVERABLE", "UNKNOWN"}
    MaxHalEvents = 1
    MaxReports = 2
    MaxUserEvents = 0
INVARIANTS TypeOK TriggerExclusion LfSsidNeverStored KnownLossNoticed
CHECK_DEADLOCK FALSE
