SPECIFICATION Spec
CONSTANTS
    Names <- MCNames
    lower <- MCLower
    Users = {"ann"}
    Badges = {}
    TicksPerSecond = 1
    Files = {"f1"}
    Bodies = {"d1"}
    Scripts <- StreamScripts
    InitialDisks <- StreamDisks
    StartTimes = {0}
    EditWhileLoading = FALSE
    MaxTime = 0
    MaxRuns = 2
    MaxEdits = 0
    MaxStreams = 1
    EmptyName = ""
    ReloadKey = "reload"
    CommandsKey = "commands"
    Missing = Missing
    Broken = Broken
    NoFile = NoFile
    NoMetadata = NoMetadata
    NoHandler = NoHandler
    NativeReload = NativeReload
    NativeCommands = NativeCommands
PROPERTIES LimitPerStream
