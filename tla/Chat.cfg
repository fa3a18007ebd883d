SPECIFICATION Spec
CONSTANTS
    Accounts = {"ann"}
    NoAccount = "nobody"
    SubTypes = {"stream.online"}
    MaxLogins = 1
    MaxConnects = 1
    MaxWire = 2
    MaxSends = 1
INVARIANTS ChatInOrder
PROPERTIES BusyStatesEnd QueueIsDrained
