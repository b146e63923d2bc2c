SPECIFICATION StartSpec
CONSTANTS
    serve = serve
    migrate = migrate
    Argv = {serve, migrate}
    NoArgv = NoArgv
    LocalConfigs <- MCLocalConfigs
    AllowedByCli = TRUE
    NoPermit = NoPermit
    MaxReviews = 3
    MaxStarts = 2
    MaxGeneration = 3
INVARIANTS
    StartTypeOK
    NoStrayProcesses
PROPERTIES
    KeepsLaunchGate
    DestructionCleans
CHECK_DEADLOCK FALSE
