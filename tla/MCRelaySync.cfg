SPECIFICATION FairSpec
CONSTANTS
    Messages = {m1}
    Sessions = {s1, s2}
    MaxCalls = 1
    MaxLinks = 2
    MaxChanges = 1
    MaxRestarts = 0
    MaxOutputs = 1
    MaxNotices = 1
    Lapses = TRUE
    NoRoute = NoRoute
    NoMail = NoMail
    NoMessage = NoMessage
    NoExec = NoExec
    NoEntry = NoEntry
    NoSnapshot = NoSnapshot
    NoNotice = NoNotice
    NoSession = NoSession
    NotRun = NotRun
    NoAnswer = NoAnswer
INVARIANTS
    NoticesNameAckedSnapshots
PROPERTIES
    LinkSettles
CHECK_DEADLOCK FALSE
