SPECIFICATION Spec
CONSTANTS
    a = a
    b = b
    h = h
    Absent = Absent
    NoPlan = NoPlan
    Files <- MCFiles
    Sources <- MCSources
    Mentions <- MCNames
    MayInclude <- MCMayInclude
    MaxEdits = 2
    MaxCrashes = 1
    MaxFaults = 1
    EditsWhileIndexing = FALSE
    Restores = FALSE
    SwapMayFail = FALSE
INVARIANTS
    RefreshMatchesFull
    NoLeftover
    NothingMissed
PROPERTIES
    IndexSurvives
CHECK_DEADLOCK FALSE
