\* The main thread and a login, each with scopes of its own.
SPECIFICATION Spec
CONSTANTS
    Main = "main"
    MainContext = "Main"
    Actors = {"main", "login"}
    Contexts <- LoginContexts
    MaxDepth = 2
INVARIANT
    ScopedContext
