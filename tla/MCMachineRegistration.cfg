SPECIFICATION Spec
CONSTANTS
    Users = {u}
    Machines = {m1, m2}
    Requests = {r1, r2}
    Times = {1, 2}
    Calls = {c1, c2}
    Admins = {adm}
    MaxKeys = 2
    MaxRestarts = 1
    NoOwner = NoOwner
    NoRequest = NoRequest
    NoKey = NoKey
    NoProc = NoProc
SYMMETRY Interchangeable
INVARIANTS
    MachinesClaimedOnce
    KeysAccounted
    RequestsDecidedOnce
PROPERTIES
    NumbersMeanLastShown
CHECK_DEADLOCK FALSE
