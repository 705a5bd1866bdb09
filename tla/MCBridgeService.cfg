SPECIFICATION MCFairSpec
CONSTANTS
    Panes = {p}
    Occupants = {a, b}
    h1 = h1
    h2 = h2
    Handlers = {h1, h2}
    Mixes <- MixesOf
    PageSize = 2
    MaxLines = 6
    MaxPrinted = 6
    MaxKeys = 2
    MaxClients = 1
    Supervisor = Supervisor
    None = None
    a1 = a1
    a2 = a2
    x = x
    PaneIDs = {q1}
    OccupantKeys = {a1, a2, x}
    AgentOf <- AgentsOf
    Statuses = {"idle", "working"}
    NoAgent = NoAgent
    Capacity = 1
    MaxChanges = 2
    MaxCycles = 2
    MaxRebinds = 1
INVARIANTS
    LeasesHold
    PanelHolds
    DirectoryFollowsHerdr
PROPERTIES
    TransitionsEnd
CHECK_DEADLOCK FALSE
