------------------------------ MODULE MCObjects ------------------------------
(* Bounds: addresses 0..7 for IPv4 and 16..19 for IPv6, domains two labels   *)
(* deep, two objects on the server at first and one edit.                     *)
EXTENDS ReadBack, TLC

CONSTANTS d0, d1, d2

MCFqdns == {d0, d1, d2}
MCParent == d1 :> d0 @@ d2 :> d1 @@ d0 :> None

Address(n, t, iv) == [name |-> n, is |-> "address", type |-> t, iv |-> iv]
Domain(n, b, s) == [name |-> n, is |-> "typed", typed |-> [kind |-> "domain", base |-> b, sub |-> s]]
Port(n, p, x) == [name |-> n, is |-> "port", port |-> p, narrow |-> x]

Host == Address("web", "host", {<<2, 2>>})
Dual == Address("dual", "host", {<<2, 2>>, <<17, 17>>})
Net == Address("lan", "network", {<<2, 3>>})
Low == Address("low", "range", {<<0, 1>>})
High == Address("high", "range", {<<4, 5>>})
Gateway == [name |-> "gw", is |-> "infra", type |-> "simple-gateway", iv |-> {<<2, 2>>}]
Wild == [name |-> "wild", is |-> "wildcard", type |-> "wildcard", addr |-> 2, mask |-> 4]
TooWild == [name |-> "toowild", is |-> "wildcard", type |-> "wildcard", addr |-> 1, mask |-> 6]
Taken == Address("n2", "host", {<<3, 3>>})
Feed == [name |-> "feed", is |-> "feed", iv |-> {<<2, 2>>}, typed |-> [kind |-> "feed"]]
Column(n, k, l, s) ==
    [name |-> n, is |-> "column", kind |-> k, level |-> l, score |-> s, found |-> TRUE, near |-> FALSE]
Identity(n, l) ==
    [Column(n, "access-role", l, 97) EXCEPT !.is = "typed"] @@ [typed |-> [kind |-> "access-role"]]
Role == Identity("role", "exact")
Time == Column("hours", "time", "normalized", 97)
Group(n, ms) == [name |-> n, is |-> "group", members |-> ms]
Except(n, i, e) == [name |-> n, is |-> "exclusion", inc |-> i, exc |-> e]

MCObjectsThere ==
    {Host, Dual, Net, Gateway, Wild, Taken, Time, Role,
     Domain(".d1", d1, TRUE), Domain(".d1", d1, FALSE), Port("http", 80, FALSE), Port("odd", 80, TRUE)}
MCAdded == {Host, Taken, Domain(".d1", d1, TRUE), Port("s80", 81, FALSE), Time}
MCInitial ==
    UNION {kSubset(k, MCObjectsThere) : k \in 0..1} \cup kSubset(2, {Host, Net, Gateway, Wild})
    \cup {{Host, Taken}, {Dual, Net}, {Port("http", 80, FALSE), Port("odd", 80, TRUE)}, {Role, Time}, {Host, Gateway, Net}, {Wild, Net, Gateway}}

MCCellsOfRule ==
    {{AnyObject}, {Host}, {Net, High}, {Low, Net}, {Low, Gateway}, {Feed}, {Role, Net},
     {Wild}, {TooWild, Host}, {Dual, Low}, {Group("g", {Low, Net})}, {Group("g", {})}, {Group("g", None), Low},
     {Group("g", {Group("gg", {Net}), High})}, {Except("e", AnyObject, Net)}, {Except("e", Net, Host)},
     {Except("e", Group("g", {Low, Net}), Gateway)}, {Except("e", Net, Role)}, {Except("e", AnyObject, TooWild), Low},
     {Except("e", None, Net)}, {Except("e", Feed, Net)},
     {Domain(".d1", d1, TRUE)}, {Domain(".d1", d1, FALSE)}, {Domain(".d0", d0, FALSE), Host}}

AnySource == [kind |-> "any", new |-> "Any"]
IP(s, n) == [kind |-> "ip", scope |-> s, new |-> n]
MCSources ==
    {IP(<<2, 2>>, "n2"), IP(<<2, 3>>, "n2-3"), IP(<<17, 17>>, "n17"), AnySource,
     [kind |-> "internet", new |-> "Internet"], [kind |-> "access-role", new |-> "role"],
     [kind |-> "dynamic", new |-> "dyn"],
     [kind |-> "domain", base |-> d1, sub |-> TRUE, new |-> ".d1"],
     [kind |-> "domain", base |-> d1, sub |-> FALSE, new |-> ".d1"]}

Request(q, s) == [src |-> q, svc |-> s, column |-> None, asks |-> None]
Http == [kind |-> "port", port |-> 80, new |-> "s80"]
MCPlain ==
    {Request(q, Http) : q \in MCSources}
    \cup {Request(IP(<<2, 2>>, "n2"), s) : s \in {[kind |-> "term", new |-> "t"], [kind |-> "service", new |-> "t"]}}

\* A further column whose object is given, or asked for before; and an identity that is asked for.
Given(k, n) == [Request(AnySource, Http) EXCEPT !.column = [kind |-> k, name |-> n]]
Asks(k) == [Request(AnySource, Http) EXCEPT !.asks = k]

Twins(k1, k2) == {Column("x", k1, "exact", 100), Column("y", k1, "normalized", 97), Column("z", k2, "normalized", 97),
                  Column("v", k2, "fuzzy", 60)}
MCNamed(k) ==
    CASE k = "time" -> Twins("time", "time-group") \cup {Column("d", "data", "fuzzy", 50)}
      [] k = "data" -> Twins("data", "data-group") \cup {Column("t", "time", "fuzzy", 50)}
      [] k = "message" -> Twins("message", "message") \cup {Column("u", "message", "fuzzy", 30), Column("t", "time", "fuzzy", 50)}
      [] k = "limit" -> Twins("limit", "limit")
      [] k = "gateway" -> Twins("gateway", "group")
      [] k = "vpn" -> Twins("meshed", "star")
      [] OTHER -> {Identity("x", "exact"), Identity("y", "normalized"), Identity("z", "normalized"), Identity("w", "fuzzy")}
MCClasses == {"time", "data", "message", "limit", "gateway", "vpn"}

MCRequests == MCPlain \cup {Given(k, "z") : k \in MCClasses} \cup {Asks(k) : k \in MCClasses \cup {"access-role"}}
MCStarts ==
    {[objs |-> os, request |-> r] : os \in MCInitial, r \in MCPlain}
    \cup UNION {{[objs |-> os, request |-> r] : os \in SUBSET MCNamed(k), r \in {Given(k, "z"), Asks(k)}} : k \in MCClasses}
    \cup {[objs |-> os, request |-> Asks("access-role")] : os \in SUBSET MCNamed("access-role")}

Entry(i, k, l, s, f) ==
    [name |-> i, kind |-> k, level |-> l, score |-> s, found |-> f, near |-> TRUE, obj |-> [name |-> i, is |-> k]]
Service(o, l) == [Entry(o.name, "service", l, IF l = "exact" THEN 100 ELSE 97, TRUE) EXCEPT !.obj = o]
Echo == [name |-> "echo", is |-> "icmp"]
Gre == [name |-> "gre", is |-> "other"]
MCNames ==
    {Entry("a1", "app", "exact", 100, TRUE), Entry("c2", "category", "exact", 100, TRUE),
     Entry("a3", "app", "normalized", 97, TRUE), Entry("c4", "category", "normalized", 97, FALSE),
     Entry("a5", "app", "fuzzy", 94, FALSE), Entry("a6", "app", "fuzzy", 80, FALSE), Entry("a7", "app", "fuzzy", 70, TRUE),
     Service(Group("s8", {Port("m1", 443, FALSE), Port("m2", 25, TRUE), Echo}), "exact"),
     Service(Port("s9", 80, FALSE), "normalized"), Service(Port("s10", None, FALSE), "normalized"),
     Service(Group("s11", {Port("m2", 25, TRUE), Group("m3", None)}), "exact"),
     Service(Group("s12", {Port("m1", 443, FALSE), [name |-> "a1", is |-> "app"], Gre}), "exact"),
     Service(Echo, "exact"), Service(Gre, "normalized")}
MCCatalogues ==
    UNION {kSubset(k, MCNames) : k \in 0..2}
    \cup {{c \in MCNames : c.found /\ c.kind = k} : k \in {"app", "service"}}

Layer(i, l) == [id |-> i, level |-> l]
MCLayers == {{}, {Layer(1, "exact"), Layer(2, "normalized")}, {Layer(2, "normalized")},
             {Layer(2, "normalized"), Layer(3, "normalized")}, {Layer(4, "fuzzy")}}
MCHidden == {{}, {2}, {0, 5, 18}, 0..7}

=============================================================================
