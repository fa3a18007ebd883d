\* The chat line, the command, the directory and the player.
SPECIFICATION Spec
CHECK_DEADLOCK FALSE
CONSTANTS
    Letters <- MCLetters
    Prefix = "!"
    Space = " "
    Quote <- MCQuote
    Backslash <- MCBackslash
    FilesByStem <- MCFiles
    InitialDirs <- MCDirs
    lower_char <- MCLower
    lower_ext <- MCLowerExt
    Digits <- MCDigits
    ListWord <- MCList
    RandomWord <- MCRandom
    Header = 2
    Limit = 10
    PerPage = 2
    IOErrors = TRUE
    MaxEdits = 1
    FirstLines <- MCFirstLines
    Lines <- MCLines
    MaxLines = 2
    MaxTime = 3
    Names <- MCNames
    Rules <- MCRules
    Users = {"ann", "bob"}
    Badges = {}
    TicksPerSecond = 1
INVARIANTS
    TokensAreWords
    PageIsFull
    PlayedAsAnswered
    ListedSoundPlays
PROPERTIES
    EveryRequestAnswered
