SPECIFICATION Spec
CONSTANTS
    d1 = d1
    d2 = d2
    l1 = l1
    l2 = l2
    NoEntry = NoEntry
    Nobody = Nobody
    Layers <- OneLayer
    Readers <- TwoReaders
    Sharing = {TRUE, FALSE}
    Revalidate = 1
    MaxAge = 2
    MaxRev = 3
    MaxTime = 1
CHECK_DEADLOCK FALSE
SYMMETRY Symmetry
INVARIANTS
    AnswersAreRecent
    OwnPublishSeen
PROPERTY NeverOlder
