CONSTANTS
    Services <- TwoServices
    Routes <- MCRoutes
    Categories <- MCCategories
    RateUnit = 2
    Spans <- MCSpans
    Labellings <- Labelled
    Scenarios <- LateRoots
SPECIFICATION Spec
INVARIANTS ChildrenFollowRoot
CHECK_DEADLOCK FALSE
