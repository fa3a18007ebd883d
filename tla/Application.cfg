\* Two test messages and one coroutine of the Twitch service on two threads.
SPECIFICATION Spec
CHECK_DEADLOCK FALSE
CONSTANTS
    m_thread_count = 2
    Sends = {"s1", "s2"}
    Background = {"login"}
    Operations = {"s1", "s2", "login"}
    NoOperation = "idle"
    Urls = {"u1"}
    NoUrl = "none"
    Torn = "torn"
INVARIANTS
    NoThreadOutlivesManager
    ManagerOutlivesOwners
    ReferencesAreLive
    
PROPERTIES
    PostedToCurrentUrl
    ExitEnds
    EveryTestPosts
