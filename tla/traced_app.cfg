CONSTANTS
    None = None
    Servers <- MCServers
    Role <- MCRole
    Routes = {"checkout", "catalog", "report"}
    Faults = {"timeout", "call", "crash"}
    MaxRequests = 2
    MaxCrashes = 1
SPECIFICATION FairSpec
INVARIANTS TypeOK TracesWhole OrdersKept
PROPERTIES EveryCallEnds
CHECK_DEADLOCK FALSE
