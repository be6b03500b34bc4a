CONSTANTS
    ui = ui
    render = render
    j1 = j1
    j2 = j2
    j3 = j3
    Callers = {ui}
    Joiners = {j1, j2, j3}
    Addresses = 1
    MaxConnects = 2
    MaxDisconnects = 1
SPECIFICATION Spec
INVARIANT FailureOfClickIsReported
CHECK_DEADLOCK FALSE
