SPECIFICATION Spec
CONSTANTS
    Conns = {a}
    Credentials = {k1}
    Sources = {home}
    Admins = {p}
    Server = server
    MaxOps = 2
    NoConn = NoConn
INVARIANT DisabledKeyDisconnected
CHECK_DEADLOCK FALSE
