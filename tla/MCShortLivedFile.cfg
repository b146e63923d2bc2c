SPECIFICATION FairLiveSpec
CONSTANTS
    f1 = f1
    plain = plain
    tuned = tuned
    Argv = {}
    NoArgv = NoArgv
    Files = {f1}
    ConfigFile = ConfigFile
    Configs = {plain}
    DefaultConfig = plain
    ArgvOf <- MCPlainArgvOf
    ExcludedBy <- MCPlainExcludedBy
    InvalidConfig = InvalidConfig
    SilentPaths = {f1}
    MaxEdits = 3
    MaxPosts = 1
PROPERTIES
    ShortLivedFilesLeaveGraph
