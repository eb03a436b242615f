CONSTANTS
    h1 = h1
    h2 = h2
    d1 = d1
    d2 = d2
    Sources <- MCSources
    Destinations <- MCDestinations
    Ports <- MCPorts
    WebPorts <- MCWebPorts
    Apps <- MCApps
    NoPort <- MCNoPort
    Categories <- MCCategories
    Named <- MCNamed
    Unbounded <- MCUnbounded
    Flows <- MCFlows
    Layers <- MCLayers
    Requests <- MCRequests
    Settings <- MCSettings
    MaxApplied = 1

SPECIFICATION Spec

INVARIANTS
    LeapsNoPossibleDeny
    UnnotedAnswerHolds
    BlockDenies
    AskedAgainWritesNothing

PROPERTY GrantsNothingElse

\* The walk of an answered request ends.
CHECK_DEADLOCK FALSE
