SPECIFICATION MCFairSpec
CONSTANTS
    w1 = w1
    w2 = w2
    Callers = {w1, w2}
    EventCap = 1
    MaxSessions = 2
    QueueCap = 1
    DedupeCap = 1
    MaxMessages = 3
    Loads <- LoadsOf
    v1 = v1
    Servers = {v1, v2}
    Addresses = {1, 2}
    Inodes = {i1, i2}
    Pairs = {q1, q2, q3}
    NoServer = NoServer
    NoInode = NoInode
    NoPair = NoPair
    Unwhole = Unwhole
    Writers = {g1, g2}
    InboxCap = 1
    MaxLines = 2
    MaxWrites = 2
INVARIANTS
    ServerReachable
    NothingLeftBlocks
    HandledOnce
    AnswerKept
PROPERTIES
    IntakeRests
    AdapterEnds
CHECK_DEADLOCK FALSE
