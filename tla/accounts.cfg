SPECIFICATION AccountsSpec
CONSTANTS
    Config = config
    Users = {config, u1, u2}
    Requests = {r1, r2}
    NoUser = nobody
    EditRequests = 3
SYMMETRY Interchangeable
INVARIANTS
    ConfigRemains
PROPERTIES
    RanksHold
CHECK_DEADLOCK FALSE
