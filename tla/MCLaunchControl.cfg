SPECIFICATION FairLaunchSpec
CONSTANTS
    serve = serve
    migrate = migrate
    left = left
    right = right
    Tabs = {left}
    Unseen = Unseen
    MaxClicks = 2
    Argv = {serve, migrate}
    NoArgv = NoArgv
    LocalConfigs <- MCLocalConfigs
    AllowedByCli = TRUE
    NoPermit = NoPermit
    MaxReviews = 2
    MaxStarts = 1
    MaxGeneration = 2
PROPERTIES
    StopOffered
CHECK_DEADLOCK FALSE
INVARIANTS
    LaunchedWasConfirmed
