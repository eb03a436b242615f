----------------------------- MODULE MCTickets -----------------------------
(***************************************************************************)
(* One ticket of two servers, sent in the wordings below.                   *)
(***************************************************************************)
EXTENDS Tickets, TLC

Addresses == [n \in {"10.0.0.1", "10.0.0.0/24"} |-> n]
DomainNames == [n \in {"example.com"} |-> n]
Resolves == [h \in {"itsm", "inside", "localhost", "nowhere"} |->
               CASE h = "itsm" -> {"public"} [] h = "inside" -> {"private"}
                 [] h = "localhost" -> {"loopback"} [] OTHER -> {}]

\* A ticket that asks for one service of one host, and what others say besides or instead.
Plain == [number |-> "T1", server_id |-> "1", layer |-> "Network",
          source |-> "10.0.0.1", destination |-> "10.0.0.0/24", service |-> "http"]
Without(fields) == [n \in DOMAIN Plain \ fields |-> Plain[n]]
Apply == [apply |-> TRUE]

Wordings == {
    [action |-> "escalate"], [action |-> "drop"], [verdict |-> "escalate"],
    [verdict |-> "reject", action |-> "accept"], [verdict |-> "layer"],
    [verdict |-> "layer", inline_layer |-> "Web"], [inline_layer |-> "Web"],
    [action_limit |-> "Slow"], [action_limit |-> "Slow", verdict |-> "drop"],
    [captive_portal |-> TRUE, u_action |-> "block"],
    [content |-> {"SQL"}, content_direction |-> "up"], [content |-> {"any"}, content_negate |-> TRUE],
    [u_content |-> {"SQL"}, content_negate |-> TRUE], [content_direction |-> "sideways"],
    [time |-> {"Work"}], [install_on |-> {"gw", "policy targets"}], [vpn |-> {"any"}], [vpn |-> {"long name"}],
    [destination |-> "any", application |-> "Facebook"], [destination |-> "10.0.0", port |-> <<443>>],
    [destination |-> "example.com", destination_kind |-> "domain"],
    [source |-> "Finance", source_kind |-> "access-role"], [source_kind |-> "internet"],
    [destination_kind |-> "internet"], [destination_kind |-> "host"], [layer |-> Absent]}

\* Tickets that name a port, or no service at all.
Ports == {[port |-> <<443>>], [port |-> <<80, 90>>], [port |-> <<90, 80>>], [port |-> <<0>>], [port |-> <<1, 2, 3>>],
          [port |-> <<53>>, protocol |-> "udp"], [port |-> <<53>>, protocol |-> "gre"],
          [verdict |-> "drop"], [verdict |-> "ask"], [service |-> "any"]}

Applied == {[number |-> "T1"], [server_id |-> "2"], [callback_url |-> "itsm"], [callback_url |-> "inside"],
            [callback_url |-> "localhost"], [callback_url |-> "nowhere"], [server_id |-> "3"]}

MCBodies ==
    {w @@ Plain : w \in Wordings} \cup {w @@ Without({"service"}) : w \in Ports}
    \cup {w @@ Apply @@ Plain : w \in Applied} \cup {Without({"server_id"}), Apply @@ Without({"number"})}

MCAllowlists == {{}, {"1"}, Unreadable}

\* Behind the webhook's door tickets come, while time stands still and there is one key or one restart.
MCEdits == [mcp |-> 2, api |-> 2, webhook |-> 1]
MCExpiries == [mcp |-> {1, 4}, api |-> {1, 3, 4}, webhook |-> {4}]
MCTime == [mcp |-> 3, api |-> 3, webhook |-> 1]

Same == Permutations(Calls)
=============================================================================
