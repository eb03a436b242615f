------------------------------- MODULE ReadBack -------------------------------
(***************************************************************************)
(* Objects and Cells together: what is resolved of the cells of a rule,    *)
(* also of one that an apply has written, when the rule is read again.     *)
(***************************************************************************)
EXTENDS Objects, Cells

CONSTANTS
    Requests,   \* what is asked for: the requests of Starts
    Hidden      \* what the reach of objects that cannot be resolved may be

Endpoints == {r.src : r \in Requests}

Agrees(rel, req, real) ==
    /\ rel = "disjoint" <=> req \cap real = {}
    /\ rel \in {"equal", "subset"} <=> req \cap real # {} /\ req \subseteq real
    /\ rel \in {"equal", "superset"} <=> req \cap real # {} /\ real \subseteq req

\* What is resolved of a cell is all that it matches when it is trusted, and part of it when it is
\* approximated; and how an address compares with it can be read off the intervals.
CellIsHonest ==
    \A c \in {cell} \cup (IF written = None THEN {} ELSE {written.src}), h \in Hidden :
        LET p == ParseNet(c)
            real == Matched(c, h)
        IN  /\ Trust(p, FALSE) = "exact" => AddressesOf(p.iv) = real
            /\ Trust(p, FALSE) = "approx" => AddressesOf(p.iv) \subseteq real
            /\ \A q \in {r \in Endpoints : r.kind = "ip"} :
                   Agrees(IntervalRelation({q.scope}, p.iv), AddressesOf({q.scope}), AddressesOf(p.iv))

\* Mutant: no service is expanded, and all are compared by their names.
AskedByName(q) ==
    CASE q.kind = "port" -> [NoService EXCEPT !.ports = {q.port}]
      [] OTHER -> [NoService EXCEPT !.named = {q.new}]

\* svc(): what is compared of the service that is asked for.
AskedFor(q) ==
    CASE q.kind = "port" -> [NoService EXCEPT !.ports = {q.port}]
      [] q.kind # "port" /\ q.is.obj.is = "app" -> [NoService EXCEPT !.apps = {q.new}]
      [] q.kind # "port" /\ q.is.obj.is = "category" -> [NoService EXCEPT !.categories = {q.new}]
      [] q.kind # "port" /\ q.expanded -> ParseService(q.is.obj)
      [] OTHER -> [NoService EXCEPT !.named = {q.new}]

\* svc_relation() is "equal" or "subset": the cell covers each kind of service that is asked for.
Grants(there, asked) ==
    \/ there.any
    \/ /\ ~asked.any /\ asked.ports \subseteq there.ports
       /\ \A f \in {"apps", "categories", "named"} : asked[f] # {} => asked[f] \cap there[f] # {}

\* A service that could not be expanded, or that a cell holds and nothing is known of.
Unread(q, there) ==
    \/ q.kind # "port" /\ TRUE \in Expansions(q.is.obj) /\ ~q.expanded
    \/ there.complex

\* Asked again, the request finds itself in the cells that were written for it, so that it is not
\* written a second time: what is read of the cells, through the objects they refer to, covers what
\* its own parts are compared by.
\* Left out: what people did in between, wildcards, hosts of both families, services that match by
\* more than their port, and those whose expansion failed.
WrittenIsReadBack ==
    Done /\ edits = MaxEdits =>
        LET p == ParseNet(written.src)
            s == ParseSvc(written.svc)
        IN  /\ job.use["src"] # None /\ job.src.kind = "ip" =>
                   IntervalRelation({job.src.scope}, p.iv) \in {"equal", "subset"}
            /\ job.use["src"] # None /\ job.src.kind = "domain" /\ AnyObject \notin written.src =>
                   DomainRelation(job.src, p) \in {"equal", "subset"}
            /\ job.use["svc"] # None /\ ~Unread(job.svc, s) => Grants(s, AskedFor(job.svc))

\* The same of every service, one whose expansion failed and one that is unknown to the engine too.
AlwaysReadBack ==
    Done /\ edits = MaxEdits /\ job.use["svc"] # None => Grants(ParseSvc(written.svc), AskedFor(job.svc))

\* _find_dns_domain() says that the name of a domain object starts with a dot in both cases and
\* is-sub-domain tells: a cell that is read as covering a domain really covers it.
DomainNeverOverclaims ==
    \A q \in {r \in Endpoints : r.kind = "domain"} :
        LET p == ParseNet(cell)
        IN  DomainRelation(q, p) \in {"equal", "subset"} =>
                Covering(q) \subseteq UNION {Covering(t) : t \in {u \in p.typed : u.kind = "domain"}}

=============================================================================
