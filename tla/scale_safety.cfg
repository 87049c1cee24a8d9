CONSTANTS
    d1 = d1
    None = None
    Deployments = {d1}
    Counts = {0, 1}
    Requests = {0, 1, 2}
    Loads = {0, 2}
    KeepFor = 0
    Limit = 1
    Faults = {"timeout", "patch", "crash"}
    MaxLate = 0
    MaxClock = 1
SPECIFICATION FairSpec
INVARIANTS TypeOK TwinNeverInvents CountsHaveSource
PROPERTIES PatchIsStaged RepliesSettle RequestsAnswered TwinConverges
