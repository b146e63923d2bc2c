CONSTANTS
    p = p
    x = x
    y = y
    Nobody = Nobody
    Listeners <- MCListeners
    Permanent <- MCPermanent
    IndexSize = 8
    MaxMessages = 2
    MaxImmediate = 1
    MaxNext = 1
    MaxUnregister = 2
    MaxThrows = 1
SPECIFICATION FairSpec
INVARIANTS
    EachListenerOnce
PROPERTIES
    LooksUpRegistered
    MessagesHandled
CHECK_DEADLOCK FALSE
