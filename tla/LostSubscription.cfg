SPECIFICATION Spec
CONSTANTS
    Accounts = {"ann"}
    NoAccount = "nobody"
    SubTypes = {"stream.online"}
    MaxLogins = 1
    MaxConnects = 1
    MaxWire = 0
    MaxSends = 0
PROPERTIES FailedSubscriptionIsNoticed
