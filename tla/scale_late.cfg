CONSTANTS
    d1 = d1
    None = None
    Deployments = {d1}
    Counts = {0, 1}
    Requests = {1, 2}
    Loads = {0, 2}
    KeepFor = 0
    Limit = 1
    Faults = {"timeout", "late", "patch", "crash"}
    MaxLate = 1
    MaxClock = 0
SPECIFICATION Spec
INVARIANT AnswerMatchesCluster
PROPERTY ImplementsScaleGate
