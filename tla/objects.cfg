SPECIFICATION ObjectsSpec
CONSTANTS
    V4Max = 7
    V6Base = 16
    V6Max = 3
    Bits = 3
    Cap = 2
    None = None
    d0 = d0
    d1 = d1
    d2 = d2
    Fqdns <- MCFqdns
    Parent <- MCParent
    AppLimit = 3
    CatLimit = 2
    Autocorrect = 85
    Starts <- MCStarts
    ListPage = 1
    LookupPage = 1
    Objects <- MCAdded
    Catalogues <- MCCatalogues
    Layers <- MCLayers
    CellsOfRule <- MCCellsOfRule
    Hidden <- MCHidden
    Requests <- MCRequests
    PageSize = 2
    MaxEdits = 1
INVARIANTS
    CellIsHonest
    ReferenceIsTheRequest
    WrittenIsReadBack
    ShownIsDone
    NeverAGuess
    RefusedIsMissing
CHECK_DEADLOCK FALSE
