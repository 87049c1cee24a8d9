CONSTANTS
    Services <- TwoServices
    Routes <- MCRoutes
    Categories <- MCCategories
    RateUnit = 2
    Spans <- MCSpans
    Labellings <- Labelled
    Scenarios <- AllScenarios
SPECIFICATION Spec
INVARIANTS TypeOK EnergyConserved ScrapeConsistent SpansBilledOnce
PROPERTY ImplementsLedger
CHECK_DEADLOCK FALSE
