CONSTANTS
    a = a
    b = b
    c = c
    Files <- MCFiles
    ProcessCount = 2
    Crashing <- MCCrashing
    DieAnywhere = FALSE
    MaximumQueueSize = 2
    MaxStorages = 1
    MaxInterrupts = 0
    Nobody = Nobody
SPECIFICATION PipelineSpec
INVARIANTS EachFileOnce Delivered
CHECK_DEADLOCK FALSE
