CONSTANTS
    s1 = s1
    r1 = r1
    r2 = r2
    None = None
    RouteNames = {r1, r2}
    Services = {s1}
    Rates = {1, 2}
    Traffic <- TwoRoutes
    Watts = {1}
    KeepFor = 2
    Window = 3
    MinSamples = 2
    Faults = {"timeout", "late", "crash"}
    MaxLate = 1
    MaxClock = 4
SPECIFICATION Spec
INVARIANTS TypeOK SamplesAligned HoldsCurrentRates PublishedInTwin
