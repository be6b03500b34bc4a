\* Nothing has to happen: the system may rest for good.
SPECIFICATION LiveSpec
CONSTANT MaxEvents = 4
INVARIANTS
    LatestWins
    Reevaluated
    StaleNeedsOverlap
PROPERTIES
    LightSettles
CHECK_DEADLOCK FALSE
