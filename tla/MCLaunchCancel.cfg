SPECIFICATION LaunchSpec
CONSTANTS
    serve = serve
    migrate = migrate
    left = left
    right = right
    Tabs = {left}
    Unseen = Unseen
    MaxClicks = 1
    Argv = {serve, migrate}
    NoArgv = NoArgv
    LocalConfigs <- MCLocalConfigs
    AllowedByCli = TRUE
    NoPermit = NoPermit
    MaxReviews = 2
    MaxStarts = 1
    MaxGeneration = 1
PROPERTIES
    EscapeCancels
CHECK_DEADLOCK FALSE
