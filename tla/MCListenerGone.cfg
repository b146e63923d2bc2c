CONSTANTS
    p = p
    x = x
    y = y
    Nobody = Nobody
    Listeners <- MCListeners
    Permanent <- MCPermanent
    IndexSize = 8
    MaxMessages = 2
    MaxImmediate = 0
    MaxNext = 1
    MaxUnregister = 2
    MaxThrows = 1
SPECIFICATION Spec
INVARIANTS
    CallsLive
CHECK_DEADLOCK FALSE
