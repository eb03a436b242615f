CONSTANTS
    h1 = h1
    h2 = h2
    d1 = d1
    d2 = d2
    Sources <- MCSources
    Destinations <- MCDestinations
    Ports <- MCPorts
    WebPorts <- MCWebPorts
    Apps <- MCApps
    NoPort <- MCNoPort
    Categories <- MCCategories
    Named <- MCNamed
    Unbounded <- MCUnbounded
    Flows <- MCFlows
    Layers <- MCLayers
    Requests <- MCRequests
    Ignoring = {FALSE, TRUE}

SPECIFICATION Spec

INVARIANTS
    RevokedIsRevoked
    OthersKeepTheirs
    RemovedOnce

\* The walk of an answered removal ends.
CHECK_DEADLOCK FALSE
