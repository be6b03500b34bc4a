SPECIFICATION PanelSpec
CONSTANT MaxUpdates = 2
INVARIANT NotReadWhileWritten
