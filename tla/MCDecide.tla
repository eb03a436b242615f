------------------------------- MODULE MCDecide -------------------------------
(***************************************************************************)
(* Layers for the access decision: a hard rule and another above a         *)
(* cleanup, a hard one and another or a conditional drop of everything     *)
(* without a cleanup, one above an approximated cleanup, and three         *)
(* different hard ones, the last of them a grant or a possible deny.       *)
(***************************************************************************)
EXTENDS Decide, MCRulebase, Functions

Rough == Rule("drop", Roughly(MCSources, MCSources), AnyDestination, AnyService)

\* A grant, or one more possible deny.
Third == {r \in Hard : r.action = "accept" \/ r.svc = AppGroup}

MCLayers ==
    {<<a, b>> : a \in Hard, b \in Hard \cup {When(Cleanup, TRUE)}}
        \cup {<<a, b, Cleanup>> : a \in Hard, b \in Shapes}
        \cup {<<a, b, Cleanup>> : a \in Shapes, b \in Hard}
        \cup {<<a, Rough>> : a \in Shapes}
        \cup {t \in {<<a, b, c, Cleanup>> : a, b \in Hard, c \in Third} : IsInjective(t)}

\* A request for an object that is read in full.
Ask(src, dst, obj) ==
    [src |-> src, dst |-> dst, obj |-> obj,
     svc |-> [any |-> obj.any, ports |-> obj.ports, names |-> obj.names, opaque |-> obj.opaque],
     action |-> "accept", restricted |-> FALSE]
HostWeb == Ask({h1}, {d1}, Https)

MCRequests ==
    {HostWeb,
     Ask(MCSources, {d1}, Https),
     Ask({h1}, {d1}, App),
     Ask({h1}, {d1}, PortAndPing),
     Ask({h1}, {d1}, PortAndGre),
     Ask({h1}, {d1}, Icmp),
     Ask({h1}, {d1}, PortAndMore),
     [Ask({h1}, {d1}, Category) EXCEPT !.svc.opaque = FALSE],
     Ask({h1}, MCDestinations, AnyService),
     [HostWeb EXCEPT !.restricted = TRUE],
     [HostWeb EXCEPT !.action = "block"],
     [Ask(MCSources, {d1}, PortAndPing) EXCEPT !.action = "block"],
     [Ask(MCSources, {d1}, Https) EXCEPT !.action = "ask"],
     [HostWeb EXCEPT !.svc.ports = {}, !.svc.names = {"web"}],
     Ask({}, {d1}, Https)}

Default == [ignore |-> FALSE, carveout |-> TRUE, override |-> TRUE, widen |-> TRUE,
            section |-> TRUE]

\* The defaults, and three others that flip each setting once.
MCSettings ==
    {Default,
     [Default EXCEPT !.ignore = TRUE],
     [Default EXCEPT !.carveout = FALSE, !.widen = FALSE],
     [Default EXCEPT !.override = FALSE, !.section = FALSE]}
=============================================================================
