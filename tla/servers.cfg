SPECIFICATION Spec
CONSTANTS
    Ids = {1, 2}
    Users = {u}
    hq = hq
    hqMgmt = hqMgmt
    site = site
    siteMgmt = siteMgmt
    acme = acme
    own = own
    Words = {hq, hqMgmt, site, siteMgmt, acme}
    Within <- MCWithin
    NoWord = noWord
    Forms <- MCForms
    Keys = {k}
    NoKey = noKey
    Certs = {own}
    NoCert = noCert
    Public = {}
    Profiles = 2
    Changes = 1
INVARIANTS
    ChangesStayAtTheirServer
CHECK_DEADLOCK FALSE
