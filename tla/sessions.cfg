SPECIFICATION Spec
CONSTANTS
    c1 = c1
    c2 = c2
    c3 = c3
    c4 = c4
    r1 = r1
    r2 = r2
    r3 = r3
    None = None
    Calls = {c1, c2, c3, c4}
    Private = {c3}
    Publishing = {c2, c3, c4}
    Readers = {r1, r2, r3}
    Casts <- MCCasts
    MaxSessions = 3
    MaxFaults = 2
    MaxEdits = 1
INVARIANTS
    KeptClean
    OwnChangesOnly
    PublishedIsCommitted
    
