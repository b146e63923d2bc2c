CONSTANTS
    a = a
    b = b
    c = c
    Files <- MCTwoFiles
    ProcessCount = 1
    Crashing <- MCCrashing
    DieAnywhere = FALSE
    MaximumQueueSize = 2
    MaxStorages = 1
    MaxInterrupts = 1
    Nobody = Nobody
SPECIFICATION PipelineSpec
INVARIANTS StopIsNoticed
CHECK_DEADLOCK FALSE
