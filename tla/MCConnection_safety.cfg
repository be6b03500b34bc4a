CONSTANTS
    ui = ui
    render = render
    j1 = j1
    j2 = j2
    j3 = j3
    Callers = {ui, render}
    Joiners = {j1, j2, j3}
    Addresses = 2
    MaxConnects = 2
    MaxDisconnects = 1
SYMMETRY MCSymmetry
SPECIFICATION Spec
INVARIANTS
    HandlesNotOverwritten
    SessionBelongsToAttempt
    JoinerResetsAlone
    CleanAttempt
    TrackerWithSession
CHECK_DEADLOCK FALSE
