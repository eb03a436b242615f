------------------------------- MODULE Rulebase -------------------------------
(***************************************************************************)
(* An access layer as services/access_automation.py sees it and as the     *)
(* gateway enforces it.  A cell of a rule has two extents: what the engine *)
(* resolved, and what the gateway matches.  They agree on an exact cell;   *)
(* an infra object resolved to its main address is approximated from       *)
(* below; of a negated or unresolvable cell nothing is known.              *)
(*                                                                         *)
(* Addresses are compared as sets: the interval sets of the code are one   *)
(* representation of them.  A typed endpoint (a domain, a role, a zone)    *)
(* yields a relation and an unknown flag of the same shape.                *)
(*                                                                         *)
(* A service column holds things of four kinds: ports, applications,       *)
(* application categories, and services that are told by their name.  A    *)
(* request for a service group spans several of them at once.              *)
(***************************************************************************)
EXTENDS Naturals, Sequences

CONSTANTS
    Sources,       \* source addresses; the Any cell holds all of them
    Destinations,  \* destination addresses
    Ports,         \* transport ports
    WebPorts,      \* the ports App Control identifies applications on
    NoPort,        \* what a connection without ports shows in their place
    Apps,          \* applications
    Categories,    \* application categories
    Named,         \* services told by (family, name): icmp, rpc, other protocols, ...
    Unbounded,     \* those whose ports and protocol are not bounded (service-other, rpc, ...)
    Flows          \* what a connection may show to the service column

Names == Apps \cup Categories \cup Named

ASSUME PortsAssumption == WebPorts \subseteq Ports /\ NoPort \notin Ports
ASSUME NamesAssumption ==
    /\ Apps \cap Categories = {} /\ Apps \cap Named = {} /\ Categories \cap Named = {}
    /\ Unbounded \subseteq Named

\* A connection shows one application or bounded service at most, in any number of
\* categories; an application is seen on a web port, a bounded service has no port.
ASSUME FlowsAssumption ==
    /\ Flows \subseteq [port : Ports \cup {NoPort}, names : SUBSET Names]
    /\ \A f \in Flows :
        /\ f.names \cap (Apps \cup Categories) # {} => f.port \in WebPorts
        /\ f.names \cap (Named \ Unbounded) # {} => f.port = NoPort
        /\ \A m, n \in f.names \ (Categories \cup Unbounded) : m = n

Packets == [src : Sources, dst : Destinations, flow : Flows]

Trust == {"exact", "approx", "unknown"}

AddressCell(Space) ==
    {c \in [seen : SUBSET Space, real : SUBSET Space, trust : Trust] :
        /\ c.trust = "exact" => c.real = c.seen
        /\ c.trust = "approx" => c.seen \subseteq c.real}

\* _parse_svc.  opaque: what it holds cannot be bounded, as of a category, an application
\* group or an unbounded service; grouped: it holds a group; hidden: the flows it matches by
\* what is not read of it.
ServiceCell ==
    {c \in [any : BOOLEAN, ports : SUBSET Ports, names : SUBSET Names, opaque : BOOLEAN,
            grouped : BOOLEAN, unknown : BOOLEAN, hidden : SUBSET Flows] :
        /\ c.names \cap (Categories \cup Unbounded) # {} => c.opaque
        /\ c.hidden # {} => c.unknown \/ (c.opaque /\ c.grouped)
        /\ c.any => c.ports = {} /\ c.names = {} /\ ~c.opaque /\ ~c.grouped}

\* What the engine compares of a request's service.
Service == [any : BOOLEAN, ports : SUBSET Ports, names : SUBSET Names, opaque : BOOLEAN]

Verdicts == {"accept", "drop", "ask"}

\* action "other" stands for what the engine does not evaluate (Ask, Inform, Client Auth, Apply
\* Layer); verdict is what the gateway does, holds whether the condition is met.
RuleOf(Layered, Inline) ==
    {r \in [enabled : BOOLEAN, action : {"accept", "drop", "other"}, verdict : Verdicts,
            src : AddressCell(Sources), dst : AddressCell(Destinations), svc : ServiceCell,
            cond : BOOLEAN, holds : BOOLEAN,
            dynamic : BOOLEAN,               \* applies a Dynamic Layer, managed elsewhere
            layered : Layered,               \* applies an inline layer:
            inline : Inline,                 \* its rules
            cleanup : {"accept", "drop"}] :  \* and its implicit cleanup; unknown counts as drop
        r.action # "other" /\ ~r.dynamic => r.verdict = r.action}

PlainRule == RuleOf({FALSE}, {<<>>})

\* Bound: an inline layer applies no further layer.
LayerRule == {r \in RuleOf({TRUE}, Seq(PlainRule)) : r.action = "other"}

-----------------------------------------------------------------------------
(* What the gateway does: first match, top down. *)

FlowMatches(c, f) ==
    \/ f \in c.hidden
    \/ ~c.unknown /\ (c.any \/ f.port \in c.ports \/ f.names \cap c.names # {})

Matches(r, p) ==
    /\ r.enabled
    /\ r.cond => r.holds
    /\ p.src \in r.src.real
    /\ p.dst \in r.dst.real
    /\ FlowMatches(r.svc, p.flow)

\* The first rule of a layer that matches, or 0.
FirstHit(rules, p) ==
    LET hits == {i \in DOMAIN rules : Matches(rules[i], p)}
    IN  IF hits = {} THEN 0 ELSE CHOOSE i \in hits : \A j \in hits : i <= j

InlineVerdict(r, p) ==
    LET i == FirstHit(r.inline, p) IN IF i = 0 THEN r.cleanup ELSE r.inline[i].verdict

\* The verdict of a layer whose implicit cleanup drops.
Verdict(rules, p) ==
    LET i == FirstHit(rules, p)
    IN  IF i = 0 THEN "drop"
        ELSE IF rules[i].layered THEN InlineVerdict(rules[i], p)
        ELSE rules[i].verdict

-----------------------------------------------------------------------------
(* How the engine relates a request to a rule, one column at a time. *)

\* relation(): the request's extent against the cell's.
Relation(req, cell) ==
    CASE req \cap cell = {}                        -> "disjoint"
      [] req \cap cell # {} /\ req = cell          -> "equal"
      [] req \cap cell # {} /\ req # cell /\ req \subseteq cell -> "subset"
      [] req \cap cell # {} /\ req # cell /\ cell \subseteq req -> "superset"
      [] OTHER                                     -> "overlap"

Covered(rel) == rel \in {"subset", "equal"}

\* _svc_single(), for the names of one kind.
NameRelation(leg, c) ==
    IF leg \cap c.names = {} THEN IF c.opaque THEN "overlap" ELSE "disjoint"
    ELSE IF /\ c.names = leg /\ c.ports = {}
            /\ IF leg \subseteq Categories THEN ~c.grouped ELSE ~c.opaque
         THEN "equal" ELSE "subset"

\* _svc_single(), for ports.
PortRelation(ports, c) ==
    IF c.ports = {} THEN IF c.opaque THEN "overlap" ELSE "disjoint"
    ELSE IF Relation(ports, c.ports) = "equal" /\ (c.names # {} \/ c.opaque) THEN "subset"
    ELSE Relation(ports, c.ports)

\* The names a request is for, kind by kind.
Legs(q) == {q.names \cap kind : kind \in {Apps, Categories, Named}} \ {{}}

Several(q) ==
    /\ q.names # {}
    /\ q.ports # {} \/ \A kind \in {Apps, Categories, Named} : ~(q.names \subseteq kind)

LegRelations(q, c) ==
    {NameRelation(leg, c) : leg \in Legs(q)}
        \cup {PortRelation(ports, c) : ports \in {q.ports} \ {{}}}

\* _svc_sets_equal
SameService(q, c) == c.names = q.names /\ c.ports = q.ports /\ c.opaque = q.opaque

\* Mutant: a leg that is covered speaks for the others.
AnyLegCovered(q, c) ==
    IF \E rel \in LegRelations(q, c) : Covered(rel)
    THEN IF SameService(q, c) THEN "equal" ELSE "subset"
    ELSE IF LegRelations(q, c) = {"disjoint"} THEN "disjoint"
    ELSE "overlap"

\* A request of several kinds is covered only when each of them is.
Meet(q, c) ==
    IF \A rel \in LegRelations(q, c) : Covered(rel)
    THEN IF SameService(q, c) THEN "equal" ELSE "subset"
    ELSE IF LegRelations(q, c) = {"disjoint"} THEN "disjoint"
    ELSE "overlap"

\* svc_relation()
ServiceRelation(q, c) ==
    CASE c.any /\ q.any    -> "equal"
      [] c.any /\ ~q.any   -> "subset"
      [] ~c.any /\ q.any   -> "superset"
      [] ~c.any /\ ~q.any  -> IF Several(q) THEN Meet(q, c)
                              ELSE IF q.names # {} THEN NameRelation(q.names, c)
                              ELSE PortRelation(q.ports, c)

ForApp(q) == q.names \cap (Apps \cup Categories) # {}

\* _svc_uncertain: an opaque container may hold what is asked for by name.
ServiceUncertain(q, c) ==
    ~c.any /\ c.opaque /\ \E leg \in Legs(q) : leg \cap c.names = {}

\* _svc_indeterminate: an application rides on web ports, so neither side proves the
\* other disjoint.
ServiceIndeterminate(q, c) ==
    \/ ServiceUncertain(q, c)
    \/ q.ports # {} /\ (c.names \cap Apps # {} \/ c.opaque) /\ ~(q.ports \subseteq c.ports)
    \/ ForApp(q) /\ ~c.any /\ c.ports \cap WebPorts # {}

\* _is_catchall, on the resolved extents.
CatchAll(r) == r.src.seen = Sources /\ r.dst.seen = Destinations /\ r.svc.any

\* The three relations of a request to a rule.
Rel(q, r) ==
    [src |-> Relation(q.src, r.src.seen),
     dst |-> Relation(q.dst, r.dst.seen),
     svc |-> ServiceRelation(q.svc, r.svc)]

\* The rule's extent is unknown for this request.
Unresolved(r) == r.src.trust = "unknown" \/ r.dst.trust = "unknown" \/ r.svc.unknown

Approximate(r) == r.src.trust = "approx" \/ r.dst.trust = "approx"

\* _out_of_path: provably disjoint on some column.
OutOfPath(q, r) ==
    \/ r.src.trust # "unknown" /\ Rel(q, r).src = "disjoint"
    \/ r.dst.trust # "unknown" /\ Rel(q, r).dst = "disjoint"
    \/ ~r.svc.unknown /\ ~ServiceIndeterminate(q.svc, r.svc) /\ Rel(q, r).svc = "disjoint"

\* _is_subset: every column of the rule covers the request.
Within(q, r) == \A d \in {"src", "dst", "svc"} : Covered(Rel(q, r)[d])

\* _is_proper_superset: the rule is strictly more specific than the request.
MoreSpecific(q, r) ==
    /\ \A d \in {"src", "dst", "svc"} : Rel(q, r)[d] \in {"superset", "equal"}
    /\ \E d \in {"src", "dst", "svc"} : Rel(q, r)[d] = "superset"

\* _cant_cover_dim on each column.  A request for Any cannot lie in a narrower cell.
CantCover(q, r) ==
    LET short(rel) == rel \in {"superset", "overlap", "disjoint"}
    IN  \/ q.src = Sources /\ r.src.seen # Sources
        \/ r.src.trust = "exact" /\ short(Rel(q, r).src)
        \/ q.dst = Destinations /\ r.dst.seen # Destinations
        \/ r.dst.trust = "exact" /\ short(Rel(q, r).dst)
        \/ q.svc.any /\ ~r.svc.any
        \/ ~r.svc.unknown /\ ~ServiceIndeterminate(q.svc, r.svc) /\ short(Rel(q, r).svc)

\* The packets a request is about: those of the object it is for.
Asked(q) ==
    {p \in Packets : p.src \in q.src /\ p.dst \in q.dst /\ FlowMatches(q.obj, p.flow)}

\* A service that nothing is known of.
Blank(s) == ~s.any /\ s.ports = {} /\ s.names = {}

-----------------------------------------------------------------------------
(* What the engine reads of a service, and where that is not what it matches. *)

\* What is compared is what is asked for.  It is not where a service could not be expanded
\* and is compared by name, nor where it holds what cannot be read.
Understood(q) ==
    /\ q.svc.any = q.obj.any /\ q.svc.ports = q.obj.ports /\ q.svc.names = q.obj.names
    /\ ~q.obj.unknown /\ q.obj.hidden = {}

\* One name of a kind is found in the cell and stands for the others of the kind.
Halves(q, c) ==
    ~c.any /\ \E leg \in Legs(q) : leg \cap c.names # {} /\ ~(leg \subseteq c.names)

\* Taken to be apart, though the names meet: an unbounded service may use the cell's ports,
\* a category holds applications.
Strays(q, c) ==
    /\ ~c.any /\ ~c.opaque
    /\ \/ q.names \cap Unbounded # {}
       \/ q.names \cap Categories # {} /\ c.names \cap Apps # {}

\* A cell that is read as covering the request's service does, and one read apart is.
Legible(q, c) ==
    Understood(q) /\ ~Halves(q.svc, c) /\ ~Strays(q.svc, c)

\* Taken to be the same, though the cell is opaque by a group the request does not hold.
Loose(q, c) == Several(q) /\ q.opaque /\ c.hidden # {}

-----------------------------------------------------------------------------
(* What an answer writes. *)

\* The cell of a rule that is made for a request.
ExactCell(s) == [seen |-> s, real |-> s, trust |-> "exact"]

\* A service cell that another object is added to.
Joined(c, o) ==
    IF \E x \in {c, o} : x.any /\ ~x.unknown
    THEN [any |-> TRUE, ports |-> {}, names |-> {}, opaque |-> FALSE, grouped |-> FALSE,
          unknown |-> FALSE, hidden |-> {}]
    ELSE [any |-> FALSE, ports |-> c.ports \cup o.ports, names |-> c.names \cup o.names,
          opaque |-> c.opaque \/ o.opaque, grouped |-> c.grouped \/ o.grouped,
          unknown |-> c.unknown \/ o.unknown,
          hidden |-> IF c.unknown \/ o.unknown
                     THEN {f \in Flows : FlowMatches(c, f) \/ FlowMatches(o, f)}
                     ELSE c.hidden \cup o.hidden]

\* position above: the rule becomes the i-th.
InsertAt(s, i, r) == SubSeq(s, 1, i - 1) \o <<r>> \o SubSeq(s, i, Len(s))
=============================================================================
