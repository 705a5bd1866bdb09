SPECIFICATION FairSpec
CONSTANTS
    Conns = {a, b}
    Credentials = {k1, k2}
    Sources = {home, work}
    Admins = {p}
    Server = server
    MaxOps = 3
    NoConn = NoConn
INVARIANTS
    RoutesHold
    RevokedStaysOut
PROPERTIES
    HandlersSettle
CHECK_DEADLOCK FALSE
