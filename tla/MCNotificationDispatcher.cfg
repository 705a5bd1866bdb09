SPECIFICATION FairSpec
CONSTANTS
    Panes = {p1, p2}
    Occupants = {a}
    Statuses = {"done", "idle"}
    Capacity = 2
    MaxTasks = 3
    MaxEpochs = 2
    None = None
INVARIANTS
    NoticesCarried
    SendsJustified
PROPERTIES
    InvalidationsEnd
