CONSTANTS
    a = a
    b = b
    c = c
    Files <- MCTwoFiles
    ProcessCount = 2
    Crashing <- MCCrashing
    DieAnywhere = FALSE
    MaximumQueueSize = 2
    MaxStorages = 1
    MaxInterrupts = 0
    Nobody = Nobody
SPECIFICATION PipelineSpec
INVARIANTS CrashesReported
CHECK_DEADLOCK FALSE
