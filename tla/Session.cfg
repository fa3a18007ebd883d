SPECIFICATION Spec
CONSTANTS
    Accounts = {ann, bob}
    NoAccount = nobody
    SubTypes = {}
    MaxLogins = 2
    MaxConnects = 2
    MaxWire = 1
    MaxSends = 1
SYMMETRY AccountSymmetry
CONSTRAINT NotOvertaken
VIEW SessionView
INVARIANTS TypeOK ConnectedSessionIsComplete PostedAsTyped
PROPERTIES StateFollowsEdges ImplementsLogin
