CONSTANTS
    a = a
    b = b
    c = c
    Files <- MCTwoFiles
    ProcessCount = 1
    Crashing <- MCCrashing
    DieAnywhere = FALSE
    MaximumQueueSize = 1
    MaxStorages = 0
    MaxInterrupts = 1
    Nobody = Nobody
SPECIFICATION FairPipelineSpec
PROPERTIES IndexTaskEnds
CHECK_DEADLOCK FALSE
