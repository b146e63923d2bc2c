SPECIFICATION LaunchSpec
CONSTANTS
    serve = serve
    migrate = migrate
    left = left
    right = right
    Tabs = {left, right}
    Unseen = Unseen
    MaxClicks = 2
    Argv = {serve, migrate}
    NoArgv = NoArgv
    LocalConfigs <- MCLocalConfigs
    AllowedByCli = TRUE
    NoPermit = NoPermit
    MaxReviews = 2
    MaxStarts = 1
    MaxGeneration = 2
PROPERTIES
    StartsWhatItDisplayed
CHECK_DEADLOCK FALSE
