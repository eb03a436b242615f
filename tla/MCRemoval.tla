------------------------------ MODULE MCRemoval -------------------------------
(***************************************************************************)
(* Layers for a removal: two rules of any shape above a cleanup, and a     *)
(* grant of the request, exact or broader, above any two rules.            *)
(***************************************************************************)
EXTENDS Removal, MCRulebase

Granting ==
    {Rule("accept", H1, D1, Https), Rule("accept", H1, D1, App),
     Rule("accept", H1, D1, PortAndGre),
     Rule("accept", H1, D1, [PortAndGre EXCEPT !.hidden = AppGroup.hidden]),
     Rule("accept", AnySource, D1, Https), Rule("accept", AnySource, AnyDestination, App),
     Rule("accept", Roughly({h1}, MCSources), D1, Https)}

MCLayers ==
    {<<a, b>> : a, b \in Shapes}
        \cup {<<a, b, c>> : a \in Granting, b, c \in Shapes}

\* The removal of what an object stands for.
Revoke(src, dst, obj) ==
    [src |-> src, dst |-> dst, obj |-> obj,
     svc |-> [any |-> obj.any, ports |-> obj.ports, names |-> obj.names, opaque |-> obj.opaque]]

AppAndPort == [App EXCEPT !.ports = {443}, !.grouped = TRUE]

MCRequests ==
    {Revoke({h1}, {d1}, Https),
     Revoke({h1}, {d1}, App),
     Revoke(MCSources, {d1}, Https),
     Revoke({h1}, {d1}, PortAndPing),
     Revoke({h1}, {d1}, PortAndGre),
     Revoke({h1}, {d1}, Icmp),
     Revoke({h1}, {d1}, AppAndPort),
     Revoke({h1}, {d1}, PortAndMore),
     [Revoke({h1}, {d1}, Https) EXCEPT !.svc.ports = {}, !.svc.names = {"web"}],
     Revoke({h1}, MCDestinations, AnyService),
     Revoke({h1}, {}, Https)}
=============================================================================
