SPECIFICATION Spec
CONSTANTS
    a = a
    b = b
    h = h
    Absent = Absent
    NoPlan = NoPlan
    Files <- MCFiles
    Sources <- MCSources
    Mentions <- MCMentions
    MayInclude <- MCMayInclude
    MaxEdits = 2
    MaxCrashes = 0
    MaxFaults = 0
    EditsWhileIndexing = TRUE
    Restores = FALSE
    SwapMayFail = FALSE
SYMMETRY MCTwo
INVARIANTS
    NothingMissed
CHECK_DEADLOCK FALSE
