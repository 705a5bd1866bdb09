SPECIFICATION FairSpec
CONSTANTS
    Users = {u1}
    Machines = {m1, m2}
    Slots = {p1}
    Sessions = {s1, s2}
    Conns = {c1, c2}
    Waiters = {w1}
    Modes = {image}
    MaxSeq = 2
    NoKey = NoKey
    NoConn = NoConn
    NoTarget = NoTarget
    Vacant = Vacant
    DefaultMode = DefaultMode
    NoWait = NoWait
INVARIANTS
    CatalogConsistent
PROPERTIES
    SelectionStable
    ModeFollowsSlot
    NoStuckWait
