SPECIFICATION Spec
CONSTANTS
    Messages = {m1}
    Sessions = {s1, s2}
    MaxCalls = 1
    MaxLinks = 1
    MaxChanges = 1
    MaxRestarts = 0
    MaxOutputs = 0
    MaxNotices = 1
    Lapses = FALSE
    NoRoute = NoRoute
    NoMail = NoMail
    NoMessage = NoMessage
    NoExec = NoExec
    NoEntry = NoEntry
    NoSnapshot = NoSnapshot
    NoNotice = NoNotice
    NoSession = NoSession
    NotRun = NotRun
    NoAnswer = NoAnswer
INVARIANT NoticesNameAckedSessions
CHECK_DEADLOCK FALSE
