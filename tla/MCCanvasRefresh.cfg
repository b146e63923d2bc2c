SPECIFICATION FairCanvasSpec
CONSTANTS
    Main = Main
    Head = Head
    Bases = {Head, Main}
    Nothing = Nothing
    NoArgv = NoArgv
    Argv = {}
    MaxGeneration = 2
    MaxClicks = 1
    MaxCalls = 2
PROPERTIES
    CatchesUp
    ErrorsShown
CHECK_DEADLOCK FALSE
