CONSTANTS
    s1 = s1
    r1 = r1
    r2 = r2
    None = None
    RouteNames = {r1}
    Services = {s1}
    Rates = {1}
    Traffic <- OneRoute
    Watts = {1}
    KeepFor = 4
    Window = 4
    MinSamples = 3
    Faults = {"quiet"}
    MaxLate = 0
    MaxClock = 4
SPECIFICATION Spec
INVARIANT SamplesAligned
