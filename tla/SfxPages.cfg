\* The pages of a list of sixty sounds.
SPECIFICATION Spec
CHECK_DEADLOCK FALSE
CONSTANTS
    Letters <- MCLetters
    Prefix = "!"
    Space = " "
    Quote <- MCQuote
    Backslash <- MCBackslash
    FilesByStem <- ManyFiles
    InitialDirs <- ManyDirs
    lower_char <- MCLower
    lower_ext <- MCLowerExt
    Digits <- MCDigits
    ListWord <- MCList
    RandomWord <- MCRandom
    Header = 18
    Limit = 450
    PerPage = 15
    IOErrors = FALSE
    MaxEdits = 0
    FirstLines <- ManyLines
    Lines <- ManyLines
    MaxLines = 2
    MaxTime = 3
    Names <- MCNames
    Rules <- MCRules
    Users = {"ann", "bob"}
    Badges = {}
    TicksPerSecond = 1
INVARIANT
    LastPageEndsTheList
