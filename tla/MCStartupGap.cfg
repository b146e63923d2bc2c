SPECIFICATION FairLiveSpec
CONSTANTS
    f1 = f1
    plain = plain
    tuned = tuned
    Argv = {}
    NoArgv = NoArgv
    Files = {f1}
    ConfigFile = ConfigFile
    Configs = {plain, tuned}
    DefaultConfig = plain
    ArgvOf <- MCArgvOf
    ExcludedBy <- MCExcludedBy
    InvalidConfig = InvalidConfig
    SilentPaths = {f1, ConfigFile}
    MaxEdits = 2
    MaxPosts = 0
PROPERTIES
    StartupEditsReachGraph
