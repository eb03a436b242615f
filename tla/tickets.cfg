\* The doors of the scopes, and behind the webhook's the life of a ticket.
SPECIFICATION Spec
CONSTANTS
    Secrets = {k1, k2}
    Token = k2
    Calls = {c1, c2}
    TTL = 1
    MaxTime = 3
    Time <- MCTime
    Expiries <- MCExpiries
    Edits <- MCEdits
    Networks <- Addresses
    Domains <- DomainNames
    BadNames = {"long name"}
    Bodies <- MCBodies
    Allowlists <- MCAllowlists
    Ready = {"1", "2"}
    Hosts <- Resolves
    MaxCommits = 2
SYMMETRY Same
INVARIANTS AnswersItsServer ToldOnce
PROPERTIES AcceptedWasLive RequestMeansTicket
CHECK_DEADLOCK FALSE
