CONSTANTS
    None = None
    Usage = {19, 20}
    Window = 3
    KeepFor = 2
    Faults = {"read", "post", "late", "crash"}
    MaxLate = 1
    MaxClock = 4
SPECIFICATION FairSpec
INVARIANTS TypeOK WindowIsHistory PredictionsGrounded
PROPERTIES VerdictsStand NewestPredicted ImplementsRegister
