-------------------------------- MODULE Cells --------------------------------
(***************************************************************************)
(* How a cell of a rule is resolved: intervals, objects of every kind with *)
(* their members, domains, and services.  Next to what the code resolves   *)
(* stands what the gateway matches, so that the first can be compared with *)
(* the second; of an object whose reach nobody can know, that is "hidden". *)
(***************************************************************************)
EXTENDS Addresses, Sequences, FiniteSetsExt, SequencesExt, Functions

CONSTANT Cap       \* most intervals a wildcard may expand to

-----------------------------------------------------------------------------
(* Intervals. *)

Sorted(iv) == SetToSortSeq(iv, LAMBDA a, b : a[1] < b[1] \/ (a[1] = b[1] /\ a[2] < b[2]))

Larger(a, b) == IF a > b THEN a ELSE b

\* Mutant: intervals that touch stay apart.
MergeOverlapping(iv) ==
    LET fuse(out, i) ==
            IF out # <<>> /\ i[1] <= Last(out)[2]
            THEN [out EXCEPT ![Len(out)] = <<@[1], Larger(@[2], i[2])>>]
            ELSE Append(out, i)
    IN  ToSet(FoldLeft(fuse, <<>>, Sorted(iv)))

\* _merge(): sorted, and fused where they overlap or touch.
Merge(iv) ==
    LET fuse(out, i) ==
            IF out # <<>> /\ i[1] <= Last(out)[2] + 1
            THEN [out EXCEPT ![Len(out)] = <<@[1], Larger(@[2], i[2])>>]
            ELSE Append(out, i)
    IN  ToSet(FoldLeft(fuse, <<>>, Sorted(iv)))

\* What an excluded interval leaves of a segment.
Left(s, e) ==
    IF e[2] < s[1] \/ e[1] > s[2] THEN {s}
    ELSE {i \in {<<s[1], e[1] - 1>>, <<e[2] + 1, s[2]>>} : i[1] <= i[2]}

\* _subtract()
Subtract(base, exclude) ==
    Merge(FoldSet(LAMBDA e, segs : UNION {Left(s, e) : s \in segs}, Merge(base), Merge(exclude)))

\* _covers(): each interval lies in one of the others.
Covers(big, small) == \A s \in small : \E b \in big : b[1] <= s[1] /\ s[2] <= b[2]

Overlaps(a, b) == \E x \in a, y \in b : x[1] <= y[2] /\ y[1] <= x[2]

\* relation()
IntervalRelation(req, rule) ==
    CASE ~Overlaps(req, rule)                         -> "disjoint"
      [] Overlaps(req, rule) /\ Covers(rule, req) /\ Covers(req, rule) -> "equal"
      [] Overlaps(req, rule) /\ Covers(rule, req) /\ ~Covers(req, rule) -> "subset"
      [] Overlaps(req, rule) /\ ~Covers(rule, req) /\ Covers(req, rule) -> "superset"
      [] OTHER                                        -> "overlap"

\* _wildcard_to_intervals(): a run of low bits that do not matter is one block, each
\* combination of the others starts one; None past the cap.
Wildcard(addr, mask) ==
    LET free == {i \in 0..(Bits - 1) : Bit(mask, i) = 1}
        low == Max({n \in 0..Bits : \A i \in 0..(n - 1) : i \in free})
        scattered == {i \in free : i >= low}
        fixed == MapThenSumSet(LAMBDA i : 2^i * Bit(addr, i), (0..(Bits - 1)) \ free)
        start(on) == fixed + MapThenSumSet(LAMBDA i : 2^i, on)
    IN  IF 2^Cardinality(scattered) > Cap THEN None
        ELSE Merge({<<start(on), start(on) + 2^low - 1>> : on \in SUBSET scattered})

-----------------------------------------------------------------------------
(* Address objects.  "is" is what resolves them; iv the intervals of a host, *)
(* a network, a range (both bands for a dual-stack one), the main address   *)
(* of a gateway, the addresses a feed shows.                                 *)

\* What _parse_net() returns of a cell, group uids left aside.
Nothing == [iv |-> {}, cx |-> FALSE, approx |-> FALSE, typed |-> {}]

Opaque == [Nothing EXCEPT !.cx = TRUE]

Joined(ps) ==
    [iv |-> UNION {p.iv : p \in ps}, cx |-> \E p \in ps : p.cx,
     approx |-> \E p \in ps : p.approx, typed |-> UNION {p.typed : p \in ps}]

\* A group with exclusion: exact only when what is excluded is, and free of typed objects.
ExceptOf(b, e) ==
    [iv |-> IF b.cx \/ e.cx \/ e.approx THEN {} ELSE Subtract(b.iv, e.iv),
     cx |-> b.cx \/ e.cx \/ e.approx \/ e.typed # {},
     approx |-> ~(b.cx \/ e.cx \/ e.approx) /\ b.approx,
     typed |-> IF e.typed # {} THEN {} ELSE b.typed]

RECURSIVE ParseNet(_)

\* One object of a cell other than Any.
ParseOne(o) ==
    CASE o.is = "address"   -> [Nothing EXCEPT !.iv = o.iv]
      [] o.is = "infra"     -> [Nothing EXCEPT !.iv = o.iv, !.approx = TRUE]
      [] o.is = "feed"      -> [Nothing EXCEPT !.iv = o.iv, !.approx = o.iv # {}, !.typed = {o.typed}]
      [] o.is = "typed"     -> [Nothing EXCEPT !.typed = {o.typed}]
      [] o.is = "wildcard"  -> LET w == Wildcard(o.addr, o.mask)
                               IN  IF w = None THEN Opaque ELSE [Nothing EXCEPT !.iv = w]
      [] o.is = "group"     -> IF o.members = None THEN Opaque
                               ELSE LET p == ParseNet(o.members)
                                    IN  [p EXCEPT !.cx = @ \/ (o.members # {} /\ p.iv = {} /\ p.typed = {})]
      [] o.is = "exclusion" -> IF o.inc = None \/ o.exc = None THEN Opaque
                               ELSE ExceptOf(ParseNet({o.inc}), ParseNet({o.exc}))
      [] OTHER              -> Opaque

\* _parse_net(): Any stands alone in a cell, as the server keeps it.
ParseNet(cell) ==
    IF \E o \in cell : o.is = "any" THEN [Nothing EXCEPT !.iv = AnyIp]
    ELSE LET p == Joined({ParseOne(o) : o \in cell}) IN [p EXCEPT !.iv = Merge(@)]

RECURSIVE Matched(_, _)

\* What the gateway matches; hidden is the reach of what cannot be resolved.
MatchedBy(o, hidden) ==
    CASE o.is \in {"any", "address", "wildcard"} -> Reach(o)
      [] o.is \in {"infra", "feed"} -> Reach(o) \cup hidden
      [] o.is = "group" /\ o.members # None -> Matched(o.members, hidden)
      [] o.is = "exclusion" /\ o.inc # None /\ o.exc # None ->
             Matched({o.inc}, hidden) \ Matched({o.exc}, hidden)
      [] OTHER              -> hidden

Matched(cell, hidden) == UNION {MatchedBy(o, hidden) : o \in cell}

\* _parse_rule(): how far an IP request may trust what was resolved of a cell.
Trust(p, negate) ==
    IF p.cx \/ negate \/ p.typed # {} THEN "unknown" ELSE IF p.approx THEN "approx" ELSE "exact"

-----------------------------------------------------------------------------
(* Domains. *)

\* _domain_norm() of an object's name: the dot reads as the sub-domains.
Normal(d) == [base |-> d.base, sub |-> TRUE]

\* _domain_covers()
DomainCovers(cell, req) ==
    LET c == Normal(cell)
    IN  IF req.base = c.base THEN c.sub \/ ~req.sub ELSE c.sub /\ c.base \in Above[req.base]

\* typed_relation() of a domain request.
DomainRelation(req, p) ==
    LET domains == {t \in p.typed : t.kind = "domain"}
    IN  IF \E d \in domains : DomainCovers(d, req)
        THEN IF (\E d \in domains : Normal(d) = [base |-> req.base, sub |-> req.sub])
                /\ Cardinality(p.typed) = 1 /\ p.iv = {}
             THEN "equal" ELSE "subset"
        ELSE IF \E t \in p.typed : t.kind = "updatable" THEN "overlap" ELSE "disjoint"

-----------------------------------------------------------------------------
(* Services. *)

NoService == [any |-> FALSE, ports |-> {}, apps |-> {}, categories |-> {}, named |-> {}, opaque |-> FALSE,
              complex |-> FALSE]

AnyService == [NoService EXCEPT !.any = TRUE]

JoinedServices(ps) ==
    IF \E p \in ps : p.any THEN AnyService
    ELSE [any |-> FALSE, ports |-> UNION {p.ports : p \in ps}, apps |-> UNION {p.apps : p \in ps},
          categories |-> UNION {p.categories : p \in ps}, named |-> UNION {p.named : p \in ps}, opaque |-> \E p \in ps : p.opaque,
          complex |-> \E p \in ps : p.complex]

\* _parse_svc() of one object.  A port service that matches by more than its port, a port that
\* cannot be read and a group without members are complex.
RECURSIVE ParseSvc(_)
ParseService(o) ==
    CASE o.is = "any"      -> AnyService
      [] o.is = "port"     -> IF o.port = None \/ o.narrow THEN [NoService EXCEPT !.complex = TRUE]
                              ELSE [NoService EXCEPT !.ports = {o.port}]
      [] o.is = "app"      -> [NoService EXCEPT !.apps = {o.name}]
      [] o.is = "category" -> [NoService EXCEPT !.categories = {o.name}, !.opaque = TRUE]
      [] o.is = "icmp"     -> [NoService EXCEPT !.named = {o.name}]
      [] o.is = "other"    -> [NoService EXCEPT !.named = {o.name}, !.opaque = TRUE]
      [] o.is = "group"    -> IF o.members = None THEN [NoService EXCEPT !.complex = TRUE] ELSE [ParseSvc(o.members) EXCEPT !.categories = {}]
      [] OTHER             -> [NoService EXCEPT !.complex = TRUE]

ParseSvc(cell) == JoinedServices({ParseService(o) : o \in cell})

=============================================================================
