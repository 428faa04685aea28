\* Does every route go with its gateway?
SPECIFICATION Spec
CONSTANTS
    Gateways <- MCGateways
    Replies <- MCReplies
    NoList = NoList
    NoJson = NoJson
    NoPrefix = "none"
    NoIp = NoIp
    Preferred = {FALSE}
    Leases = {FALSE}
    Failures = FALSE
    MaxChanges = 2
INVARIANTS LostGatewaysLoseRoutes
CHECK_DEADLOCK FALSE
