SPECIFICATION Spec
CONSTANTS
    Names <- MCNames
    lower <- MCLower
    Users = {"ann", "bob"}
    Badges = {}
    TicksPerSecond = 2
    Files = {"f1"}
    Bodies = {"d1", "d2"}
    Scripts <- LimitScripts
    InitialDisks <- LimitDisks
    StartTimes = {0}
    EditWhileLoading = TRUE
    MaxTime = 4
    MaxRuns = 3
    MaxEdits = 1
    MaxStreams = 0
    EmptyName = ""
    ReloadKey = "reload"
    CommandsKey = "commands"
    Missing = Missing
    Broken = Broken
    NoFile = NoFile
    NoMetadata = NoMetadata
    NoHandler = NoHandler
    NativeReload = NativeReload
    NativeCommands = NativeCommands
INVARIANTS TypeOK CooldownsKept CooldownJustified UseLimitKept
