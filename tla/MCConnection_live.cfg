CONSTANTS
    ui = ui
    render = render
    j1 = j1
    j2 = j2
    j3 = j3
    Callers = {ui}
    Joiners = {j1, j2, j3}
    Addresses = 1
    MaxConnects = 2
    MaxDisconnects = 1
SPECIFICATION FairSpec
PROPERTIES
    DisconnectEnds
    CallReturns
CHECK_DEADLOCK FALSE
