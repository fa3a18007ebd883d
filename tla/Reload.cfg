SPECIFICATION Spec
CONSTANTS
    Names <- MCNames
    lower <- MCLower
    Users = {"ann", "bob"}
    Badges = {"moderator"}
    TicksPerSecond = 1
    Files = {"f1", "f2"}
    Bodies = {"d1", "d2", "r1"}
    Scripts <- ReloadScripts
    InitialDisks <- ReloadDisks
    StartTimes = {0}
    EditWhileLoading = FALSE
    MaxTime = 0
    MaxRuns = 1
    MaxEdits = 2
    MaxStreams = 1
    EmptyName = ""
    ReloadKey = "reload"
    CommandsKey = "commands"
    Missing = Missing
    Broken = Broken
    NoFile = NoFile
    NoMetadata = NoMetadata
    NoHandler = NoHandler
    NativeReload = NativeReload
    NativeCommands = NativeCommands
INVARIANTS RunsUnderOwnRules AlwaysConfigured ListedCommandsAnswer
PROPERTIES ReloadEnds
