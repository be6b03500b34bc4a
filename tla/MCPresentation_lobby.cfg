\* The real lengths: kLobbyRing slots, a warp that keeps four.
SPECIFICATION PresentationSpec
CONSTANTS
    RingLength = 5
    WarpDepth = 4
    MaxStreams = 0
    MaxSleeps = 1
    MaxSwitches = 1
INVARIANT LobbyNeverAliases
CHECK_DEADLOCK FALSE
