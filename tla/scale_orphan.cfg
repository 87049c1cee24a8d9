CONSTANTS
    d1 = d1
    None = None
    Deployments = {d1}
    Counts = {0, 1}
    Requests = {1, 2}
    Loads = {0, 2}
    KeepFor = 0
    Limit = 1
    Faults = {"timeout"}
    MaxLate = 0
    MaxClock = 0
SPECIFICATION Spec
INVARIANT NoOrphanStaging
