SPECIFICATION FairServerSpec
CONSTANTS
    serve = serve
    migrate = migrate
    first = first
    second = second
    Argv = {serve, migrate}
    NoArgv = NoArgv
    Files = {}
    ConfigFile = ConfigFile
    Configs = {first, second}
    DefaultConfig = first
    ArgvOf <- MCArgvOf
    ExcludedBy <- MCExcludedBy
    InvalidConfig = InvalidConfig
    SilentPaths = {}
    MaxEdits = 2
    MaxPosts = 1
    LocalConfigs <- MCLocalConfigs
    AllowedByCli = TRUE
    NoPermit = NoPermit
    MaxReviews = 1
    MaxStarts = 1
    MaxGeneration = 4
INVARIANTS
    NoStrayProcesses
PROPERTIES
    KeepsLaunchGate
    DestructionCleans
    KeepsStartSpec
    BlockedWhileIndexing
    ShutdownEnds
