SPECIFICATION FairSpec
CONSTANTS
    p1 = p1
    p2 = p2
    p3 = p3
    p4 = p4
    p5 = p5
    ra = ra
    rb = rb
    n1 = n1
    h1 = h1
    h2 = h2
    None = None
    Pushes = {p1, p2, p3, p4, p5}
    Agents = {p2, p3}
    Mock = {p4}
    Dry = {p5}
    Casts <- MCCasts
    Ids = {1, 2}
    Names = {n1}
    Rules = {ra, rb}
    Uses <- MCUses
    Inline = {ra}
    Contents <- MCContents
    Hosts = {h1, h2}
INVARIANTS
    SucceededWasTaken
    FailedEarlyLeftAlone
PROPERTY
    EveryPushEnds
