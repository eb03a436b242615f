SPECIFICATION Spec
CONSTANTS
    f = f
    n = n
    t1 = t1
    t2 = t2
    NoRow = NoRow
    Rules <- MCRules
    Foreign <- MCForeign
    Actors <- MCActors
    MaxChanges = 2
    MaxFaults = 1
    Events = {"crash", "timeout", "outofband", "dberror", "forget"}
SYMMETRY Symmetry
CHECK_DEADLOCK FALSE
INVARIANTS
    OneThreadPerChange
    LogTellsTruth
    LogMatchesPolicy
PROPERTIES
    ForeignRulesSurvive
    LifecycleSpec
