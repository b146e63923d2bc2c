CONSTANTS
    Messages <- MCMessages
    Values = {1, 2}
    DefaultValue = 1
    KeyOf <- MCKey
    Nameless = {}
    HistorySize = 2
    MaxList = 4
    MaxQueue = 2
    MaxIndexings = 1
SPECIFICATION UndoSpec
INVARIANTS
    WalksStayInside
    RedoUndoesUndo
    MenuInStep
PROPERTIES
    ShowsHistory
    RedoOffered
