SPECIFICATION Spec
CONSTANTS
    Deliveries <- MCDeliveries
    Keys <- MCKeys
    Changes <- MCChanges
    Settling <- MCSettling
    Key <- MCKey
    Asks <- MCAsks
    Surface <- MCSurface
    Pooling = {TRUE, FALSE}
    MaxSends = 2
    MaxFaults = 1
CHECK_DEADLOCK FALSE
INVARIANTS
    SettlingOnce
    RetryReplays
PROPERTIES
    EveryCallEnds
