\* Three changes of the gateway list; bus calls and commands may fail, with and
\* without a DHCP lease and a preferred gateway.
SPECIFICATION FairSpec
CONSTANTS
    Gateways <- MCGateways
    Replies <- MCReplies
    NoList = NoList
    NoJson = NoJson
    NoPrefix = "none"
    NoIp = NoIp
    Preferred = {FALSE, TRUE}
    Leases = {FALSE, TRUE}
    Failures = TRUE
    MaxChanges = 3
INVARIANTS TypeOK TrackedRoutesInstalled NoStaleRoute LossCleanedUp
PROPERTIES LastUpdateFetched
CHECK_DEADLOCK FALSE
