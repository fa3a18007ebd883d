SPECIFICATION Spec
CONSTANTS
    Accounts = {"ann", "bob"}
    NoAccount = "nobody"
    MaxLogins = 3
INVARIANTS TypeOK CredentialsAreOfThisLogin PollSchedule
PROPERTIES LoginEnds ImplementsLogin
CHECK_DEADLOCK FALSE
