------------------------------ MODULE MCRulebase ------------------------------
(***************************************************************************)
(* A small world for the access layers: two sources, two destinations, a   *)
(* web port and another, an application and its category, two kinds of     *)
(* ICMP and an unbounded service, and rules of every kind.                 *)
(***************************************************************************)
EXTENDS Rulebase

CONSTANTS h1, h2, d1, d2

MCSources == {h1, h2}
MCDestinations == {d1, d2}
MCPorts == {22, 443}
MCWebPorts == {443}
MCNoPort == 0
MCApps == {"app"}
MCCategories == {"social"}
MCNamed == {"ping", "echo", "gre", "web"}
MCUnbounded == {"gre"}

\* ssh, plain and social web, ICMP, and what the unbounded service lets through.
MCFlows ==
    {[port |-> 22, names |-> {}], [port |-> 443, names |-> {}],
     [port |-> 443, names |-> {"app", "social"}],
     [port |-> MCNoPort, names |-> {"ping"}], [port |-> MCNoPort, names |-> {"echo"}],
     [port |-> 443, names |-> {"gre"}]}

Cell(s) == [seen |-> s, real |-> s, trust |-> "exact"]
Opaquely(s, t) == [seen |-> s, real |-> t, trust |-> "unknown"]
Roughly(s, t) == [seen |-> s, real |-> t, trust |-> "approx"]
AnySource == Cell(MCSources)
AnyDestination == Cell(MCDestinations)

Nothing == [any |-> FALSE, ports |-> {}, names |-> {}, opaque |-> FALSE, grouped |-> FALSE,
            unknown |-> FALSE, hidden |-> {}]
AnyService == [Nothing EXCEPT !.any = TRUE]
Https == [Nothing EXCEPT !.ports = {443}]
Ssh == [Nothing EXCEPT !.ports = {22}]
App == [Nothing EXCEPT !.names = {"app"}]
Category == [Nothing EXCEPT !.names = {"social"}, !.opaque = TRUE]
AppGroup == [Nothing EXCEPT !.opaque = TRUE, !.grouped = TRUE,
                            !.hidden = {f \in MCFlows : "app" \in f.names}]

Ping == [Nothing EXCEPT !.names = {"ping"}]

\* Service groups: of a port and a ping, of two kinds of ICMP, of a port and an unbounded
\* service, and of a port and what cannot be read.
PortAndPing == [Ping EXCEPT !.ports = {443}, !.grouped = TRUE]
Icmp == [Ping EXCEPT !.names = {"ping", "echo"}, !.grouped = TRUE]
PortAndGre == [Nothing EXCEPT !.ports = {22}, !.names = {"gre"}, !.opaque = TRUE,
                              !.grouped = TRUE]
PortAndMore == [Https EXCEPT !.grouped = TRUE, !.unknown = TRUE,
                             !.hidden = {f \in MCFlows : f.port = 443 \/ "echo" \in f.names}]

Rule(action, src, dst, svc) ==
    [enabled |-> TRUE, action |-> action, verdict |-> action, src |-> src, dst |-> dst,
     svc |-> svc, cond |-> FALSE, holds |-> TRUE, dynamic |-> FALSE, layered |-> FALSE,
     inline |-> <<>>, cleanup |-> "drop"]

Off(r) == [r EXCEPT !.enabled = FALSE]
When(r, holds) == [r EXCEPT !.cond = TRUE, !.holds = holds]
Other(verdict, src, dst, svc) ==
    [Rule("drop", src, dst, svc) EXCEPT !.action = "other", !.verdict = verdict]
Dynamic(verdict, src) == [Other(verdict, src, AnyDestination, AnyService) EXCEPT !.dynamic = TRUE]
Applying(src, sub, cleanup) ==
    [Other("drop", src, AnyDestination, AnyService)
        EXCEPT !.layered = TRUE, !.inline = sub, !.cleanup = cleanup]

H1 == Cell({h1})
H2 == Cell({h2})
D1 == Cell({d1})
D2 == Cell({d2})

Cleanup == Rule("drop", AnySource, AnyDestination, AnyService)

\* A deny nobody can resolve, a grant to widen, a deny to leap.
Hard ==
    {Rule("drop", Opaquely({h1}, {h2}), AnyDestination, Https),
     Rule("drop", Roughly({h1}, MCSources), D1, AnyService),
     Rule("accept", H2, D1, Https),
     Rule("accept", H1, D1, Ssh),
     Rule("drop", H1, AnyDestination, Https),
     Rule("drop", AnySource, D1, Category),
     Rule("drop", H1, AnyDestination, AppGroup),
     Rule("accept", H1, D1, PortAndPing),
     Dynamic("drop", H1)}

Shapes ==
    Hard \cup
    {Rule("accept", AnySource, D1, Https),
     Rule("accept", H1, D2, Https),
     Rule("accept", Cell({h1, h2}), AnyDestination, App),
     Rule("accept", Opaquely({}, {h1}), D1, Https),
     Rule("accept", H1, Roughly({d1}, MCDestinations), Ssh),
     Rule("drop", H1, D1, App),
     Rule("accept", H2, D1, PortAndGre),
     Rule("accept", H2, D1, [PortAndGre EXCEPT !.hidden = AppGroup.hidden]),
     Rule("drop", H1, D1, Ping),
     Off(Rule("accept", H1, D1, Https)),
     When(Rule("accept", H1, D1, Https), FALSE),
     When(Rule("drop", AnySource, D1, Https), TRUE),
     When(Rule("drop", H1, Cell({d1, d2}), Https), FALSE),
     When(Cleanup, TRUE),
     Other("drop", H1, D1, AnyService),
     Other("ask", AnySource, D1, Https),
     Applying(H1, <<Rule("accept", H1, D1, Https)>>, "drop"),
     Applying(AnySource, <<Rule("drop", H1, Opaquely({}, {d1}), Https)>>, "accept"),
     Applying(AnySource, <<Rule("drop", H1, D1, AnyService), Cleanup>>, "accept"),
     Rule("accept", AnySource, AnyDestination, AnyService)}
=============================================================================
