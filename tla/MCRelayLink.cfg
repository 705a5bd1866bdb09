SPECIFICATION Spec
CONSTANTS
    Messages = {m1, m2}
    Sessions = {s1, s2}
    MaxCalls = 2
    MaxLinks = 2
    MaxChanges = 1
    MaxRestarts = 1
    MaxOutputs = 2
    MaxNotices = 0
    Lapses = FALSE
    NoRoute = NoRoute
    NoMail = NoMail
    NoMessage = NoMessage
    NoExec = NoExec
    NoEntry = NoEntry
    NoSnapshot = NoSnapshot
    NoNotice = NoNotice
    NoSession = NoSession
    NotRun = NotRun
    NoAnswer = NoAnswer
SYMMETRY Interchangeable
INVARIANTS
    LinksHold
PROPERTIES
    ImplementsOnce
CHECK_DEADLOCK FALSE
