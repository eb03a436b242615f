------------------------------ MODULE Requests ------------------------------
(***************************************************************************)
(* How a body that asks for access is read (services/ticketing.py): the     *)
(* field names it may use, the verdict, the endpoints, the columns that     *)
(* restrict a rule, and the one service.  The webhook, the portal's form    *)
(* and the tools of agents all read their requests here.                    *)
(*                                                                         *)
(* A body is a function from the fields it gives, those that are not empty, *)
(* to values.  A list column's value is a set of names, a port's is the     *)
(* sequence of its parts (0 for a part that is no number).                  *)
(***************************************************************************)
EXTENDS Naturals, Sequences

CONSTANTS
    Networks,   \* addresses as they are written, with the network each one is
    Domains,    \* domains as they are written, with their normal form
    BadNames    \* object names that are too long or hold control characters

ASSUME NetworksAssumption == \A word \in DOMAIN Networks : Networks[word] # "Any"  \* no network is Any

AnyWords == {"any", "all", "*"}
Anything == "Any"
TypedKinds == {"domain", "access-role", "dynamic-object", "updatable-object", "security-zone"}
Allowing == {"Accept", "Ask", "Inform"}
Blocking == {"Drop", "Reject"}
Absent == ""

\* The first of these fields that the body gives.
First(body, fields, default) ==
    LET given == {i \in DOMAIN fields : fields[i] \in DOMAIN body}
    IN IF given = {} THEN default ELSE body[fields[CHOOSE i \in given : \A j \in given : i <= j]]

---------------------------------------------------------------------------
\* The verdict.  A field that is only for it is taken as it stands; a bare "action" is
\* often the ticket's own, and counts only when it names a verdict.

Canonical(word) ==
    CASE word \in {"accept", "allow", "permit"}      -> "Accept"
      [] word \in {"drop", "deny", "block"}          -> "Drop"
      [] word = "reject"                             -> "Reject"
      [] word = "ask"                                -> "Ask"
      [] word = "inform"                             -> "Inform"
      [] word \in {"apply layer", "layer"}           -> "Apply Layer"
      [] OTHER                                       -> Absent
Verdict(body) == First(body, <<"verdict", "u_action", "cp_action">>, Absent)
BareAction(body) == First(body, <<"action">>, Absent)
AskedAction(body) ==
    IF Verdict(body) # Absent THEN Verdict(body)
    ELSE IF Canonical(BareAction(body)) # Absent THEN BareAction(body) ELSE "accept"
Action(body) == Canonical(AskedAction(body))

Inline(body) == First(body, <<"inline_layer", "inline-layer", "apply_layer", "u_inline_layer">>, Absent)
Limit(body) == First(body, <<"action_limit", "u_action_limit">>, Absent)
Portal(body) == First(body, <<"captive_portal", "enable_captive_portal", "u_captive_portal">>, FALSE)

\* What does not go with the action is refused, never dropped.
ActionWrong(body) ==
    LET action == Action(body)
    IN \/ action = Absent
       \/ (action = "Apply Layer") # (Inline(body) # Absent)
       \/ action \notin Allowing /\ (Limit(body) # Absent \/ Portal(body))

---------------------------------------------------------------------------
\* The columns that restrict a rule.

Names(body, fields) == First(body, fields, {})
Content(body) == Names(body, <<"content", "data_type", "data_types", "content_type", "u_content">>) \ AnyWords
Negated(body) == First(body, <<"content_negate", "data_negate", "u_content_negate">>, FALSE)
Direction(body) == First(body, <<"content_direction", "data_direction", "u_content_direction">>, "any")
Times(body) == Names(body, <<"time", "time_objects", "time_object", "window", "u_time">>) \ AnyWords
Targets(body) ==
    Names(body, <<"install_on", "install-on", "targets", "gateways", "gateway", "u_install_on", "u_targets">>)
        \ (AnyWords \cup {"policy targets"})
Communities(body) == Names(body, <<"vpn", "vpn_community", "vpn_communities", "u_vpn">>) \ AnyWords

ColumnsWrong(body) ==
    \/ Negated(body) /\ Content(body) = {}
    \/ Direction(body) \notin {"any", "up", "down"}
    \/ (Content(body) \cup Times(body) \cup Targets(body) \cup Communities(body)) \cap BadNames # {}

---------------------------------------------------------------------------
\* The endpoints.  The two networks of every address are not Any, which is both families.

Endpoint(kind, networks, value) == [kind |-> kind, networks |-> networks, value |-> value]
Internet == Endpoint("internet", {}, "Internet")

Address(word) == IF word \in AnyWords THEN Anything ELSE Networks[word]
AddressWrong(word) == word \notin AnyWords /\ word \notin DOMAIN Networks

EndpointWrong(kind, word, isSource) ==
    \/ kind = "ip" /\ AddressWrong(word)
    \/ kind = "internet" /\ isSource
    \/ kind \notin TypedKinds \cup {"ip", "internet"}
    \/ kind = "domain" /\ word \notin DOMAIN Domains
    \/ kind \in TypedKinds /\ word \in BadNames

Resolved(kind, word) ==
    CASE kind = "ip"       -> Endpoint("ip", {Address(word)}, Absent)
      [] kind = "internet" -> Internet
      [] kind = "domain"   -> Endpoint("domain", {}, Domains[word])
      [] OTHER             -> Endpoint(kind, {}, word)

Source(body) == First(body, <<"source", "src", "source_ip", "u_source">>, Absent)
Destination(body) == First(body, <<"destination", "dst", "dest", "destination_ip", "u_destination">>, Absent)
SourceKind(body) == First(body, <<"source_kind", "src_kind", "u_source_kind">>, "ip")
DestinationKind(body) ==
    First(body, <<"destination_kind", "dst_kind", "dest_kind", "u_destination_kind">>, "ip")

EndpointsWrong(body) ==
    \/ Source(body) = Absent \/ Destination(body) = Absent
    \/ EndpointWrong(SourceKind(body), Source(body), TRUE)
    \/ EndpointWrong(DestinationKind(body), Destination(body), FALSE)

Application(body) == First(body, <<"application", "app", "u_application">>, Absent)

\* An application that goes anywhere goes to the Internet object.
ToInternet(body) == Application(body) # Absent /\ DestinationKind(body) = "ip" /\ Destination(body) \in AnyWords
Going(body) == IF ToInternet(body) THEN Internet ELSE Resolved(DestinationKind(body), Destination(body))

---------------------------------------------------------------------------
\* The service: an application, else a named service, else a port of a protocol.

NoPort == <<>>
PortWrong(port) ==
    \/ Len(port) \notin {1, 2}
    \/ \E i \in DOMAIN port : port[i] \notin 1..65535
    \/ port[1] > port[Len(port)]

Port(body) == First(body, <<"port", "ports", "service_port", "u_port">>, NoPort)
Protocol(body) == First(body, <<"protocol", "proto", "u_protocol">>, "tcp")
Service(body) == First(body, <<"service", "service_name", "u_service">>, Absent)

\* Mutant: a request that names no service is of every service, whatever it asks.
AllByOmission(body) == Service(body) = Absent /\ Port(body) = NoPort

\* Only a block that names no service is of all of them.
BlocksAll(body) == Service(body) = Absent /\ Port(body) = NoPort /\ Action(body) \in Blocking
Named(body) == IF BlocksAll(body) THEN Anything ELSE Service(body)
ServiceWrong(body) ==
    /\ Application(body) = Absent
    /\ Named(body) = Absent
    /\ Protocol(body) \notin {"tcp", "udp", "sctp"} \/ PortWrong(Port(body))

---------------------------------------------------------------------------
Malformed(body) == ActionWrong(body) \/ ColumnsWrong(body) \/ EndpointsWrong(body) \/ ServiceWrong(body)

\* The request a well-formed body makes.
Built(body) ==
    [source |-> Resolved(SourceKind(body), Source(body)), destination |-> Going(body),
     action |-> Action(body), inline |-> Inline(body), limit |-> Limit(body), portal |-> Portal(body),
     content |-> Content(body), direction |-> Direction(body), negated |-> Negated(body),
     times |-> Times(body), targets |-> Targets(body), communities |-> Communities(body),
     application |-> Application(body),
     service |-> IF Application(body) = Absent THEN Named(body) ELSE Absent,
     protocol |-> Protocol(body),
     port |-> IF Application(body) = Absent /\ Named(body) = Absent THEN Port(body) ELSE NoPort]

\* What the ticket is about, besides the request.
Ticket(body) ==
    First(body, <<"ticket_id", "ticket", "number", "key", "id", "request_id", "u_number", "sys_id">>, Absent)
Server(body) == First(body, <<"server_id", "management_server_id", "sms_id", "u_server_id">>, Absent)
Layer(body) == First(body, <<"layer", "policy_layer", "u_layer">>, Absent)
Applies(body) == First(body, <<"apply", "commit", "u_apply">>, FALSE)
Unusable(body) == Server(body) = Absent \/ Layer(body) = Absent \/ Malformed(body)

---------------------------------------------------------------------------
\* The values a body gives in these fields; and the value, when it gives one and no other.
Said(body, fields) == {body[n] : n \in DOMAIN body \cap fields}
Only(body, fields) == {v \in Said(body, fields) : Said(body, fields) = {v}}
Listed(body, fields) == (UNION Only(body, fields)) \ AnyWords

ServiceNames == {"service", "service_name", "u_service"}
VerdictNames == {"verdict", "u_action", "cp_action", "action"}
InlineNames == {"inline_layer", "inline-layer", "apply_layer", "u_inline_layer"}
LimitNames == {"action_limit", "u_action_limit"}
ContentNames == {"content", "data_type", "data_types", "content_type", "u_content"}
TimeNames == {"time", "time_objects", "time_object", "window", "u_time"}
TargetNames == {"install_on", "install-on", "targets", "gateways", "gateway", "u_install_on", "u_targets"}
VPNNames == {"vpn", "vpn_community", "vpn_communities", "u_vpn"}

\* A restriction that the ticket gives, under any name and under no two that differ, is in
\* the request.
Restricts(body, request) ==
    /\ Only(body, InlineNames) \subseteq {request.inline}
    /\ Only(body, LimitNames) \subseteq {request.limit}
    /\ Listed(body, ContentNames) \subseteq request.content
    /\ Listed(body, TimeNames) \subseteq request.times
    /\ Listed(body, TargetNames) \ {"policy targets"} \subseteq request.targets
    /\ Listed(body, VPNNames) \subseteq request.communities
    /\ request.negated => request.content # {}

\* What a request that is let in may not do, whatever fields the ticket uses: allow all
\* services, or block, unless the ticket says so; reach Any for an application; be
\* without a restriction that the ticket gives.
MeansWhatItSays(body, request) ==
    /\ request.service \in AnyWords \cup {Anything} =>
          request.action \in Blocking \/ request.service \in Said(body, ServiceNames)
    /\ request.action \in Blocking => \E word \in Said(body, VerdictNames) : Canonical(word) \in Blocking
    /\ request.application # Absent => Anything \notin request.destination.networks
    /\ Restricts(body, request)
=============================================================================
