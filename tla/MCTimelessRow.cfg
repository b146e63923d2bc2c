SPECIFICATION Spec
CONSTANTS
    a = a
    b = b
    h = h
    Absent = Absent
    NoPlan = NoPlan
    Files = {a, b}
    Sources = {a, b}
    Mentions = {}
    MayInclude <- MCOneWay
    MaxEdits = 4
    MaxCrashes = 0
    MaxFaults = 1
    EditsWhileIndexing = FALSE
    Restores = FALSE
    SwapMayFail = FALSE
INVARIANTS
    NothingEverMissed
CHECK_DEADLOCK FALSE
