SPECIFICATION MCSpec
CONSTANTS
    Users = {u1}
    Machines = {m1}
    Slots = {p1, p2}
    Sessions = {s1, s2}
    Conns = {c1}
    Waiters = {u1}
    Modes = {image}
    MaxSeq = 2
    MaxRelinks = 2
    NoKey = NoKey
    NoConn = NoConn
    NoTarget = NoTarget
    Vacant = Vacant
    DefaultMode = DefaultMode
    NoWait = NoWait
    Commands <- CommandsOf
    Limits <- LimitsOf
    SecondWindow = 2
    MinuteWindow = 5
    MaxClock = 8
    Sizes = {1, 2, 5, 7}
    MaxEvents = 2
    MaxBytes = 6
    MaxBatchEvents = 2
    MaxBatchBytes = 4
    MaxEmitted = 5
    r1 = r1
    r2 = r2
    Runs = {r1, r2}
    NoRun = NoRun
    Names = {n1, n2}
    Sources = {w1, w2}
    Logins = {l1, l2}
    FailureLimit = 2
    LockDuration = 2
    SweepInterval = 2
    Capacities = {1, 2}
    MaxVerifyTime = 1
    MaxTries = 3
    MaxTime = 5
    w1 = w1
    w2 = w2
    l1 = l1
    l2 = l2
    n1 = n1
    n2 = n2
    root = root
    second = second
    third = third
    AdminNames = {root, second, third}
    NoAdmin = NoAdmin
    NoSession = NoSession
    Requests = {k1, k2}
    SessionIDs = {1, 2}
    IdleTimeout = 2
    AbsoluteTimeout = 3
    Files <- FilesOf
    Offers <- OffersOf
    MaxNow = 3
    t1 = t1
    t2 = t2
    Stops = {t1, t2}
    NoComponent = NoComponent
    Nobody = Nobody
    MaxAgents = 2
    MaxIncarnations = 2
    MaxRevisions = 2
    MaxCommands = 2
    MaxIDs = 2
    MaxSecrets = 2
    MaxFaults = 2
    Absent = Absent
    Torn = Torn
    WordBits = 8
    DelayBounds <- DelayBoundsOf
    Jitters = {80, 100, 120}
    ProbeInterval = 30
    MaxFailures = 9
    Texts <- TextsOf
    WideBytes = 3
    Wrappings = {2}
    Plain = Plain
    MarkerBytes = 1
    Radix = 2
    LimitsOfMessage = {0, 1, 2, 3, 4, 5, 8, 10, 11, 12}
    Nil = Nil
    Uncut = Uncut
    MaxItems = 2
    MaxReplaced = 2
    OutboundCap = 1
    KeyCap = 1
    ImageSizes <- ImageSizesOf
    ChunkSize = 2
    MaxParts = 2
    ModesSet <- Presentations
    None = None
INVARIANTS
    RetryExact
    AuditAccounted
    RunsContained
    LockExact
    DshSessionsServed
    StoreDurable
    DelaysGrow
    SplitWhole
    ToldTruly
PROPERTIES
    SwitchesHonest
    AccessEnds
    StopKept
CHECK_DEADLOCK FALSE
