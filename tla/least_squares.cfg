CONSTANTS
    Designs <- MCDesigns
    Ridges = {0, 1, 4}
    One = 2
    Conditioning = 3
SPECIFICATION Spec
INVARIANTS TypeOK FitIsBest CollinearRefused R2InUnit
CHECK_DEADLOCK FALSE
