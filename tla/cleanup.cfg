SPECIFICATION CleanupSpec
CONSTANTS
    u1 = u1
    g1 = g1
    j1 = j1
    None = None
    Uids = {u1}
    Targets = {g1}
    Jobs = {j1}
    Pins <- MCPins
    DisableAfter = 1
    DeleteAfter = 1
    MaxTime = 5
    MaxEdits = 2
INVARIANTS
    DeletesOnlyItsOwn
    EnabledGetsItsTime
CHECK_DEADLOCK FALSE
