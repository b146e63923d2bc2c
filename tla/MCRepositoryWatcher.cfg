SPECIFICATION FairLiveSpec
CONSTANTS
    f1 = f1
    plain = plain
    tuned = tuned
    Argv = {}
    NoArgv = NoArgv
    Files = {f1}
    ConfigFile = ConfigFile
    Configs = {plain, tuned}
    DefaultConfig = plain
    ArgvOf <- MCArgvOf
    ExcludedBy <- MCExcludedBy
    InvalidConfig = InvalidConfig
    SilentPaths = {f1, ConfigFile}
    MaxEdits = 3
    MaxPosts = 0
INVARIANTS
    IndexingMeansRunning
    RequestNotLost
    NoChangeForgotten
PROPERTIES
    PublishesWhatItRead
    GenerationsMoveForward
    RequestsAnswered
    IndexingEnds
    EditsReachGraph
