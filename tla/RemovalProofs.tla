---------------------------- MODULE RemovalProofs ----------------------------
(***************************************************************************)
(* Proofs about Removal for every layer, request and set of addresses,     *)
(* ports and applications.                                                 *)
(***************************************************************************)
EXTENDS Removal, RulebaseProofs

\* A rule that the walk passes without a carrier.
Aside(r) == ~r.enabled \/ r.dynamic \/ OutOfPath(req, r)

\* A drop in the path that the engine resolved.
ProvenDrop(r) ==
    r.enabled /\ ~r.dynamic /\ ~OutOfPath(req, r) /\ ~Opaque(r) /\ ~Unclear(r) /\ r.action = "drop"

\* It denies all of the request,
Covering(r) == ProvenDrop(r) /\ Within(req, r)

\* or some of it.
Partial(r) == ProvenDrop(r) /\ ~Within(req, r)

\* Where a drop goes: above it nothing lets the request through.
First == IF enabler = 0 THEN at ELSE enabler

Typed ==
    /\ rules \in Seq(AnyRule) /\ before \in Seq(AnyRule)
    /\ req \in Requests /\ ignore \in Ignoring
    /\ at \in 1 .. Len(rules) + 1 /\ enabler \in 0 .. at - 1
    /\ applied \in BOOLEAN /\ narrowed \in BOOLEAN

\* A grant that may be disabled: it grants the request and nothing else, and what comes
\* below it denies the request or says nothing of it.
Disablable(r) ==
    /\ r \in PlainRule /\ ~Unresolved(r) /\ ~Approximate(r)
    /\ \A d \in {"src", "dst", "svc"} : Rel(req, r)[d] = "equal"
    /\ ~StillGrantedBelow

\* What was decided, from where the walk ended.
Answer ==
    /\ decision.outcome \in {"noop", "review", "disable", "deny"}
    /\ decision.outcome # "review" => ~Empty
    /\ decision.outcome # "deny" => decision.narrow = 0
    /\ decision.outcome = "noop" => enabler = 0 /\ (at <= Len(rules) => Covering(rules[at]))
    /\ decision.outcome = "disable" =>
         enabler = 0 /\ at <= Len(rules) /\ decision.target = at /\ Disablable(rules[at])
    /\ decision.outcome = "deny" =>
         /\ First <= Len(rules) /\ decision.target = First
         /\ decision.narrow # 0 => enabler # 0 /\ decision.narrow = at /\ at <= Len(rules) /\ rules[at] \in PlainRule

\* A walk of the layer that meets no carrier stops at rule t: it is a drop, and what is above
\* lets nothing of the request through.
StopsAt(layer, t) ==
    /\ \A k \in 1 .. t - 1 : Aside(layer[k]) \/ Partial(layer[k])
    /\ t <= Len(layer) => Covering(layer[t]) \/ layer[t] = NewDrop

\* A removal that was applied meets what it wrote, where that is what it compares.
Repeated == applied /\ Understood(req)

\* The layer of a removal that was applied.
Removed == \E t \in at .. Len(rules) + 1 : StopsAt(rules, t)

\* Inductive: what the walk has passed, what an answer was made of, and what it did.
IInv ==
    /\ Typed
    /\ \A k \in 1 .. First - 1 : Aside(rules[k])
    /\ decision # Pending => Answer
    /\ ~applied => before = rules /\ ~narrowed
    /\ applied =>
         /\ ~Empty
         /\ ~Blind => \A p \in Asked(req) : Verdict(rules, p) # "accept"
         /\ EqualIsSame =>
              \A p \in Packets \ Asked(req) : (narrowed /\ p.src \in req.src) \/ Kept(p)
    /\ Repeated =>
         /\ enabler = 0 /\ Removed
         /\ decision # Pending => decision.outcome \in {"noop", "review"}

---------------------------------------------------------------------------
(* Rules, and the layer under a removal *)

\* What the assumption on requests says.
LEMMA RequestIs ==
    ASSUME req \in Requests
    PROVE  /\ req.src \subseteq Sources /\ req.dst \subseteq Destinations
           /\ req.svc \in Service /\ req.obj \in ServiceCell
BY RequestsAssumption

\* What the engine cannot see of a rule.
Unseen(r) ==
    \/ r.dynamic
    \/ r.src.trust = "approx" /\ Rel(req, r).src = "disjoint"
    \/ r.dst.trust = "approx" /\ Rel(req, r).dst = "disjoint"
    \/ ~Legible(req, r.svc)

\* A rule that was passed matches nothing asked for.
LEMMA AsideMisses ==
    ASSUME req \in Requests, NEW r \in AnyRule, Aside(r), ~Unseen(r), NEW p \in Asked(req)
    PROVE  ~Matches(r, p)
<1>1. CASE ~r.enabled
  BY <1>1 DEF Matches
<1>2. CASE OutOfPath(req, r)
  BY <1>2, RequestIs, ApartMisses DEF Unseen
<1> QED
  BY <1>1, <1>2 DEF Aside, Unseen

\* A proven drop denies what it matches.
LEMMA ProvenDrops ==
    ASSUME NEW r \in AnyRule, ProvenDrop(r), NEW p
    PROVE  RuleVerdict(r, p) = "drop" /\ ~r.cond /\ ~Unresolved(r) /\ r.enabled
<1>1. ~r.layered /\ ~r.cond /\ ~Unresolved(r) /\ r.enabled /\ r.action = "drop" /\ ~r.dynamic
  BY RuleFields DEF ProvenDrop, Opaque
<1>2. r.verdict = "drop"
  BY <1>1, RuleFields
<1> QED
  BY <1>1, <1>2 DEF RuleVerdict

\* One that covers the request matches all of it.
LEMMA CoveringMatches ==
    ASSUME req \in Requests, ~Empty, NEW r \in AnyRule, Covering(r), ~Unseen(r), NEW p \in Asked(req)
    PROVE  Matches(r, p) /\ RuleVerdict(r, p) = "drop"
<1>1. /\ RuleVerdict(r, p) = "drop" /\ ~r.cond /\ ~Unresolved(r) /\ r.enabled
  BY ProvenDrops DEF Covering
<1>2. Within(req, r) /\ Legible(req, r.svc) /\ ~Blank(req.svc)
  BY DEF Covering, Unseen, Empty
<1>3. Matches(r, p)
  BY <1>1, <1>2, RequestIs, CoversMatches
<1> QED
  BY <1>1, <1>3

\* A layer whose rules deny what they match, down to one that does or to the last, denies.
LEMMA StoppedIs ==
    ASSUME NEW layer \in Seq(AnyRule), NEW p, NEW t \in 1 .. Len(layer) + 1,
           \A k \in 1 .. t - 1 : Matches(layer[k], p) => RuleVerdict(layer[k], p) = "drop",
           t <= Len(layer) => Matches(layer[t], p) /\ RuleVerdict(layer[t], p) = "drop"
    PROVE  Verdict(layer, p) = "drop"
<1> DEFINE h == FirstHit(layer, p)
<1>1. CASE MissesTo(layer, p, Len(layer) + 1)
  BY <1>1, VerdictNone
<1>2. CASE h \in 1 .. Len(layer) /\ Matches(layer[h], p) /\ MissesTo(layer, p, h)
  <2>1. Verdict(layer, p) = RuleVerdict(layer[h], p)
    BY <1>2, VerdictAt
  <2>2. CASE h < t
    <3>1. h \in 1 .. t - 1
      BY <1>2, <2>2
    <3> QED
      BY <1>2, <2>1, <3>1
  <2>3. CASE h = t
    BY <1>2, <2>1, <2>3
  <2>4. CASE h > t
    <3>1. t \in 1 .. h - 1 /\ t <= Len(layer)
      BY <1>2, <2>4
    <3> QED
      BY <1>2, <3>1 DEF MissesTo
  <2> QED
    BY <1>2, <2>2, <2>3, <2>4
<1> QED
  BY <1>1, <1>2, HitOrMiss

---------------------------------------------------------------------------
(* What a removal writes *)

\* The drop matches what was asked for and nothing else.
LEMMA NewDropIs ==
    ASSUME req \in Requests
    PROVE  /\ NewDrop \in PlainRule
           /\ \A p \in Packets : Matches(NewDrop, p) <=> p \in Asked(req)
           /\ \A p : RuleVerdict(NewDrop, p) = "drop"
<1> DEFINE n == NewDrop
<1>1. req.src \subseteq Sources /\ req.dst \subseteq Destinations /\ req.obj \in ServiceCell
  BY RequestIs
<1>2. ExactCell(req.src) \in AddressCell(Sources) /\ ExactCell(req.dst) \in AddressCell(Destinations)
  BY <1>1 DEF ExactCell, AddressCell, Trust
<1>3. /\ n.enabled /\ n.verdict = "drop" /\ ~n.cond /\ ~n.layered
      /\ n.src = ExactCell(req.src) /\ n.dst = ExactCell(req.dst) /\ n.svc = req.obj
  BY DEF NewDrop
<1>4. n \in PlainRule
  BY <1>1, <1>2 DEF NewDrop, PlainRule, RuleOf, Verdicts
<1> HIDE DEF n
<1>5. ASSUME NEW p \in Packets PROVE Matches(n, p) <=> p \in Asked(req)
  <2>1. (p.src \in n.src.real <=> p.src \in req.src) /\ (p.dst \in n.dst.real <=> p.dst \in req.dst)
    BY <1>3 DEF ExactCell
  <2> QED
    BY <1>3, <2>1 DEF Matches, Asked
<1>6. \A p : RuleVerdict(n, p) = "drop"
  BY <1>3 DEF RuleVerdict
<1> QED
  BY <1>4, <1>5, <1>6 DEF n

\* A walk that carries nothing stops at the drop, where it reads what the drop holds.
LEMMA NewDropStops ==
    ASSUME req \in Requests, ~Empty, Understood(req)
    PROVE  /\ ~Aside(NewDrop) /\ ~Opaque(NewDrop) /\ Within(req, NewDrop)
           /\ NewDrop.action = "drop"
<1> DEFINE n == NewDrop
<1>1. req.svc \in Service /\ req.obj \in ServiceCell
  BY RequestIs
<1>2. /\ n.enabled /\ n.action = "drop" /\ ~n.cond /\ ~n.dynamic /\ ~n.layered
      /\ n.src.seen = req.src /\ n.dst.seen = req.dst
      /\ n.src.trust = "exact" /\ n.dst.trust = "exact" /\ n.svc = req.obj
  BY DEF NewDrop, ExactCell
<1> HIDE DEF n
<1>3. req.src # {} /\ req.dst # {} /\ ~Blank(req.svc)
  BY DEF Empty
<1>4. Covered(Relation(req.src, n.src.seen)) /\ Covered(Relation(req.dst, n.dst.seen))
  BY <1>2, <1>3, RelationIs
<1>5. Covered(ServiceRelation(req.svc, n.svc))
  <2>1. /\ req.svc.any = n.svc.any /\ req.svc.ports = n.svc.ports /\ req.svc.names = n.svc.names
        /\ n.svc \in ServiceCell
    BY <1>1, <1>2 DEF Understood
  <2>2. CASE req.svc.any
    BY <1>1, <2>1, <2>2, ServiceRelationIs DEF Covered
  <2>3. CASE ~req.svc.any
    <3>1. \A leg \in Legs(req.svc) : leg \cap n.svc.names # {}
      BY <1>1, <2>1, LegsAre
    <3> QED
      BY <1>1, <1>3, <2>1, <2>3, <3>1, ReadCovered
  <2> QED
    BY <2>2, <2>3
<1>6. Within(req, n)
  BY <1>4, <1>5 DEF Within, Rel
<1>7. ~OutOfPath(req, n)
  BY <1>4, <1>5 DEF OutOfPath, Rel, Covered
<1>8. ~Opaque(n)
  BY <1>2 DEF Opaque, Unresolved, Understood
<1> QED
  BY <1>2, <1>6, <1>7, <1>8 DEF Aside, n

\* What the engine sees of the rules a walk meets on its way to rule t.
Visible(layer, t) ==
    \A k \in 1 .. Len(layer) : k <= t /\ layer[k].enabled => layer[k] = NewDrop \/ ~Unseen(layer[k])

\* Where a walk stops, nothing of the request comes through.
LEMMA StopsDenied ==
    ASSUME req \in Requests, ~Empty, NEW layer \in Seq(AnyRule), NEW t \in 1 .. Len(layer) + 1,
           StopsAt(layer, t), Visible(layer, t), NEW p \in Asked(req)
    PROVE  Verdict(layer, p) = "drop"
<1>1. p \in Packets
  BY DEF Asked
<1>2. ASSUME NEW k \in 1 .. t - 1, Matches(layer[k], p) PROVE RuleVerdict(layer[k], p) = "drop"
  <2>1. k \in 1 .. Len(layer) /\ layer[k] \in AnyRule /\ k <= t
    OBVIOUS
  <2>2. layer[k].enabled
    BY <1>2 DEF Matches
  <2>3. CASE layer[k] = NewDrop
    BY <2>3, NewDropIs
  <2>4. CASE layer[k] # NewDrop
    <3>1. ~Unseen(layer[k])
      BY <2>1, <2>2, <2>4 DEF Visible
    <3>2. ~Aside(layer[k])
      BY <1>2, <2>1, <3>1, AsideMisses
    <3>3. ProvenDrop(layer[k])
      BY <3>2 DEF StopsAt, Partial
    <3> QED
      BY <2>1, <3>3, ProvenDrops
  <2> QED
    BY <2>3, <2>4
<1>3. ASSUME t <= Len(layer) PROVE Matches(layer[t], p) /\ RuleVerdict(layer[t], p) = "drop"
  <2>1. t \in 1 .. Len(layer) /\ layer[t] \in AnyRule
    BY <1>3
  <2>2. CASE layer[t] = NewDrop
    BY <1>1, <2>2, NewDropIs
  <2>3. CASE layer[t] # NewDrop
    <3>1. Covering(layer[t])
      BY <1>3, <2>3 DEF StopsAt
    <3>2. ~Unseen(layer[t])
      BY <2>1, <2>3, <3>1 DEF Visible, Covering, ProvenDrop
    <3> QED
      BY <2>1, <3>1, <3>2, CoveringMatches
  <2> QED
    BY <2>2, <2>3
<1> QED
  BY <1>2, <1>3, StoppedIs

\* A second grant that lost a source matches what it matched from every other.
LEMMA WithoutIs ==
    ASSUME NEW r \in PlainRule, NEW lost
    PROVE  /\ Without(r, lost) \in PlainRule
           /\ \A p : p.src \notin lost => (Matches(Without(r, lost), p) <=> Matches(r, p))
           /\ \A p : RuleVerdict(Without(r, lost), p) = RuleVerdict(r, p)
<1> DEFINE c == [r.src EXCEPT !.seen = @ \ lost, !.real = @ \ lost]
<1>1. /\ r.src \in AddressCell(Sources)
      /\ r \in [enabled : BOOLEAN, action : {"accept", "drop", "other"}, verdict : Verdicts,
                src : AddressCell(Sources), dst : AddressCell(Destinations), svc : ServiceCell,
                cond : BOOLEAN, holds : BOOLEAN, dynamic : BOOLEAN, layered : {FALSE},
                inline : {<<>>}, cleanup : {"accept", "drop"}]
      /\ r.action # "other" /\ ~r.dynamic => r.verdict = r.action
  BY DEF PlainRule, RuleOf
<1>2. c \in AddressCell(Sources) /\ c.real = r.src.real \ lost
  BY <1>1 DEF AddressCell
<1>3. Without(r, lost) = [r EXCEPT !.src = c]
  BY <1>1 DEF Without, AddressCell
<1> HIDE DEF c
<1> DEFINE x == [r EXCEPT !.src = c]
<1>4. /\ x.src = c /\ x.enabled = r.enabled /\ x.cond = r.cond /\ x.holds = r.holds /\ x.dst = r.dst
      /\ x.svc = r.svc /\ x.verdict = r.verdict /\ ~x.layered /\ ~r.layered
  BY <1>1
<1>5. x \in PlainRule
  BY <1>1, <1>2 DEF PlainRule, RuleOf
<1> HIDE DEF x
<1>6. \A p : p.src \notin lost => (Matches(x, p) <=> Matches(r, p))
  BY <1>2, <1>4 DEF Matches
<1>7. \A p : RuleVerdict(x, p) = RuleVerdict(r, p)
  BY <1>4 DEF RuleVerdict
<1> QED
  BY <1>3, <1>5, <1>6, <1>7 DEF x

\* A rule that is switched off matches nothing.
Off(r) == [r EXCEPT !.enabled = FALSE]

LEMMA OffIs ==
    ASSUME NEW r \in PlainRule
    PROVE  Off(r) \in PlainRule /\ ~Off(r).enabled /\ \A p : ~Matches(Off(r), p)
<1>1. ~Off(r).enabled
  BY DEF Off, PlainRule, RuleOf
<1>2. Off(r) \in PlainRule
  BY DEF Off, PlainRule, RuleOf
<1> QED
  BY <1>1, <1>2 DEF Matches

\* A grant that equals the request in resolved cells matches nothing else.
LEMMA ExactlyAsked ==
    ASSUME req \in Requests, NEW r \in AnyRule, ~Unresolved(r), ~Approximate(r),
           Understood(req), ~Loose(req.svc, r.svc),
           \A d \in {"src", "dst", "svc"} : Rel(req, r)[d] = "equal",
           NEW p \in Packets, Matches(r, p)
    PROVE  p \in Asked(req)
<1>1. /\ Relation(req.src, r.src.seen) = "equal" /\ Relation(req.dst, r.dst.seen) = "equal"
      /\ ServiceRelation(req.svc, r.svc) = "equal"
  BY DEF Rel
<1>2. /\ r.src \in AddressCell(Sources) /\ r.dst \in AddressCell(Destinations) /\ r.svc \in ServiceCell
  BY RuleFields
<1>3. r.src.trust = "exact" /\ r.dst.trust = "exact" /\ ~r.svc.unknown
  BY <1>2, CellIs DEF Unresolved, Approximate
<1>4. r.src.real = req.src /\ r.dst.real = req.dst
  BY <1>1, <1>2, <1>3, ExactCellIs
<1>5. p.flow \in Flows /\ FlowMatches(r.svc, p.flow) /\ p.src \in req.src /\ p.dst \in req.dst
  BY <1>4 DEF Matches, Packets
<1>6. Wanted(req.svc, p.flow)
  BY <1>1, <1>2, <1>3, <1>5, RequestIs, ServiceEquals
<1>7. FlowMatches(req.obj, p.flow)
  BY <1>6, UnderstoodIs
<1> QED
  BY <1>5, <1>7 DEF Asked

---------------------------------------------------------------------------
(* The walk *)

\* What the branches say of the rule.
LEMMA BranchIs ==
    ASSUME R \in AnyRule
    PROVE  /\ Branch = "pass" => Aside(R) \/ enabler # 0
           /\ Branch = "denied" => Covering(R) /\ enabler = 0
           /\ Branch = "grants" => ~Opaque(R)
           /\ Aside(R) => Branch = "pass"
           /\ enabler = 0 /\ Covering(R) => Branch = "denied"
           /\ enabler = 0 /\ Partial(R) => Branch = "review"
<1>1. R.enabled \in BOOLEAN /\ R.dynamic \in BOOLEAN /\ R.action \in {"accept", "drop", "other"}
  BY RuleFields
<1>2. /\ Branch = "pass" => Aside(R) \/ enabler # 0
      /\ Branch = "denied" => Covering(R) /\ enabler = 0
      /\ Branch = "grants" => ~Opaque(R)
  BY <1>1 DEF Branch, Aside, Covering, ProvenDrop
<1>3. Aside(R) => Branch = "pass"
  BY <1>1 DEF Branch, Aside
<1>4. /\ enabler = 0 /\ Covering(R) => Branch = "denied"
      /\ enabler = 0 /\ Partial(R) => Branch = "review"
  BY <1>1 DEF Branch, Covering, Partial, ProvenDrop
<1> QED
  BY <1>2, <1>3, <1>4

\* Where the walk is.
LEMMA WalkIs ==
    ASSUME Typed
    PROVE  /\ at \in Nat /\ at >= 1 /\ Len(rules) \in Nat /\ at <= Len(rules) + 1
           /\ enabler \in Nat /\ enabler < at /\ First \in 1 .. at
           /\ ~Done => at \in 1 .. Len(rules) /\ R \in AnyRule /\ R = rules[at]
<1>1. /\ at \in Nat /\ at >= 1 /\ Len(rules) \in Nat /\ at <= Len(rules) + 1
      /\ enabler \in Nat /\ enabler < at /\ rules \in Seq(AnyRule)
  BY DEF Typed
<1>2. ASSUME ~Done PROVE at \in 1 .. Len(rules) /\ R \in AnyRule /\ R = rules[at]
  <2>1. at \in 1 .. Len(rules)
    BY <1>1, <1>2 DEF Done
  <2> QED
    BY <1>1, <2>1, ElementOfSeq DEF R
<1> QED
  BY <1>1, <1>2 DEF First

\* The walk of a removal that was applied goes on to where it stops.
LEMMA AppliedWalks ==
    ASSUME IInv, Repeated, decision = Pending, ~Done
    PROVE  /\ Branch \in {"pass", "denied", "review"}
           /\ Branch = "pass" => Aside(R) /\ \E t \in at + 1 .. Len(rules) + 1 : StopsAt(rules, t)
<1>1. enabler = 0 /\ Typed /\ ~Empty /\ Understood(req) /\ req \in Requests
  BY DEF IInv, Repeated, Typed
<1>2. PICK t \in at .. Len(rules) + 1 : StopsAt(rules, t)
  BY DEF IInv, Removed
<1>3. at \in 1 .. Len(rules) /\ R \in AnyRule /\ R = rules[at] /\ at \in Nat /\ Len(rules) \in Nat
  BY <1>1, WalkIs
<1>4. CASE t = at
  <2>1. Covering(R) \/ R = NewDrop
    BY <1>2, <1>3, <1>4 DEF StopsAt
  <2>2. CASE Covering(R)
    BY <1>1, <1>3, <2>2, BranchIs
  <2>3. CASE R = NewDrop
    <3>1. ~Aside(R) /\ ~Opaque(R) /\ Within(req, R) /\ R.action = "drop"
      BY <1>1, <2>3, NewDropStops
    <3>2. Branch \in {"denied", "review"}
      BY <1>1, <3>1 DEF Branch, Aside
    <3> QED
      BY <3>2
  <2> QED
    BY <2>1, <2>2, <2>3
<1>5. CASE t # at
  <2>1. t \in at + 1 .. Len(rules) + 1 /\ at \in 1 .. t - 1
    BY <1>2, <1>3, <1>5
  <2>2. Aside(R) \/ Partial(R)
    BY <1>2, <1>3, <2>1 DEF StopsAt
  <2>3. (Aside(R) /\ Branch = "pass") \/ Branch = "review"
    BY <1>1, <1>3, <2>2, BranchIs
  <2> QED
    BY <1>2, <2>1, <2>3
<1> QED
  BY <1>4, <1>5

\* What a step that leaves the layer alone keeps.
LEMMA SameRule ==
    ASSUME UNCHANGED <<req, ignore>>, NEW r
    PROVE  /\ Aside(r)' <=> Aside(r)
           /\ Partial(r)' <=> Partial(r)
           /\ Covering(r)' <=> Covering(r)
           /\ Unseen(r)' <=> Unseen(r)
BY DEF Aside, Partial, Covering, ProvenDrop, Opaque, Unclear, Unseen

LEMMA SameStop ==
    ASSUME UNCHANGED <<req, ignore>>, NEW layer, NEW t
    PROVE  StopsAt(layer, t)' <=> StopsAt(layer, t)
<1>1. \A k : /\ Aside(layer[k])' <=> Aside(layer[k])
             /\ Partial(layer[k])' <=> Partial(layer[k])
             /\ Covering(layer[k])' <=> Covering(layer[k])
  BY SameRule
<1>2. NewDrop' = NewDrop
  BY DEF NewDrop
<1> QED
  BY <1>1, <1>2 DEF StopsAt

LEMMA SameHistory ==
    ASSUME IInv, UNCHANGED <<rules, req, ignore, before, applied, narrowed>>
    PROVE  /\ ~applied' => before' = rules' /\ ~narrowed'
           /\ applied' =>
                /\ ~Empty'
                /\ ~Blind' => \A p \in Asked(req') : Verdict(rules', p) # "accept"
                /\ EqualIsSame' =>
                     \A p \in Packets \ Asked(req') : (narrowed' /\ p.src \in req'.src) \/ Kept(p)'
<1>1. /\ (Empty' <=> Empty) /\ (Blind' <=> Blind) /\ (EqualIsSame' <=> EqualIsSame)
      /\ \A p : Kept(p)' <=> Kept(p)
  BY DEF Empty, Blind, EqualIsSame, Kept
<1> QED
  BY <1>1 DEF IInv

\* A step to the next rule keeps the invariant.
LEMMA OnwardKeeps ==
    ASSUME IInv, decision = Pending, ~Done, Onward,
           \/ enabler' = enabler /\ (enabler = 0 => Aside(R))
           \/ ~Repeated /\ enabler' = FirstCarrier,
           Repeated => \E t \in at + 1 .. Len(rules) + 1 : StopsAt(rules, t)
    PROVE  IInv'
<1>1. /\ at' = at + 1 /\ UNCHANGED <<rules, req, ignore, decision, before, applied, narrowed>>
      /\ Typed /\ at \in Nat /\ at >= 1 /\ Len(rules) \in Nat /\ enabler \in Nat /\ enabler < at
      /\ at \in 1 .. Len(rules) /\ R = rules[at] /\ First \in 1 .. at
  BY WalkIs DEF Onward, IInv
<1>2. enabler' \in 0 .. at
  BY <1>1 DEF FirstCarrier
<1>3. Typed'
  BY <1>1, <1>2 DEF Typed
<1>4. \A k \in 1 .. First' - 1 : Aside(rules[k])
  <2>1. CASE enabler' = enabler /\ enabler = 0
    <3>1. First' = at + 1 /\ First = at /\ Aside(R)
      BY <1>1, <1>2, <2>1 DEF First, FirstCarrier
    <3>2. \A k \in 1 .. at - 1 : Aside(rules[k])
      BY <3>1 DEF IInv
    <3> QED
      BY <1>1, <3>1, <3>2
  <2>2. CASE enabler' = enabler /\ enabler # 0
    <3>1. First' = First
      BY <1>1, <2>2 DEF First
    <3> QED
      BY <3>1 DEF IInv
  <2>3. CASE enabler' = FirstCarrier
    <3>1. First' = First
      BY <1>1, <2>3 DEF First, FirstCarrier
    <3> QED
      BY <3>1 DEF IInv
  <2> QED
    BY <2>1, <2>2, <2>3
<1>5. (\A k \in 1 .. First - 1 : Aside(rules[k]))'
  <2>1. \A k : Aside(rules[k])' <=> Aside(rules[k])
    BY <1>1 DEF Aside
  <2> QED
    BY <1>1, <1>4, <2>1
<1>6. Repeated' => enabler' = 0 /\ Removed'
  <2>1. SUFFICES ASSUME Repeated PROVE enabler' = 0 /\ Removed'
    BY <1>1 DEF Repeated
  <2>2. enabler' = 0
    BY <2>1 DEF IInv
  <2>3. PICK t \in at + 1 .. Len(rules) + 1 : StopsAt(rules, t)
    BY <2>1
  <2>4. PICK layer : layer = rules
    OBVIOUS
  <2>5. StopsAt(layer, t)'
    BY <1>1, <2>3, <2>4, SameStop
  <2>6. StopsAt(rules, t)'
    BY <1>1, <2>4, <2>5 DEF StopsAt
  <2> QED
    BY <1>1, <2>2, <2>3, <2>6 DEF Removed
<1>7. decision' = Pending
  BY <1>1
<1> QED
  BY <1>1, <1>3, <1>5, <1>6, <1>7, SameHistory DEF IInv

\* An answer keeps it.
LEMMA ConcludeKeeps ==
    ASSUME IInv, NEW outcome, NEW target, NEW narrow, Conclude(outcome, target, narrow),
           Repeated => outcome \in {"noop", "review"}, Answer'
    PROVE  IInv'
<1>1. /\ decision' = [outcome |-> outcome, target |-> target, narrow |-> narrow]
      /\ UNCHANGED <<rules, req, ignore, at, enabler, before, applied, narrowed>>
  BY DEF Conclude
<1>2. Typed'
  BY <1>1 DEF IInv, Typed
<1>3. (\A k \in 1 .. First - 1 : Aside(rules[k]))'
  <2>1. \A k : Aside(rules[k])' <=> Aside(rules[k])
    BY <1>1 DEF Aside
  <2>2. First' = First
    BY <1>1 DEF First
  <2> QED
    BY <1>1, <2>1, <2>2 DEF IInv
<1>4. Repeated' => enabler' = 0 /\ Removed'
  <2>1. SUFFICES ASSUME Repeated PROVE enabler' = 0 /\ Removed'
    BY <1>1 DEF Repeated
  <2>2. enabler' = 0
    BY <1>1, <2>1 DEF IInv
  <2>3. PICK t \in at .. Len(rules) + 1 : StopsAt(rules, t)
    BY <2>1 DEF IInv, Removed
  <2>4. PICK layer : layer = rules
    OBVIOUS
  <2>5. StopsAt(layer, t)'
    BY <1>1, <2>3, <2>4, SameStop
  <2>6. StopsAt(rules, t)'
    BY <1>1, <2>4, <2>5 DEF StopsAt
  <2> QED
    BY <1>1, <2>2, <2>3, <2>6 DEF Removed
<1>5. Repeated' => decision'.outcome \in {"noop", "review"}
  BY <1>1 DEF Repeated
<1> QED
  BY <1>1, <1>2, <1>3, <1>4, <1>5, SameHistory DEF IInv

---------------------------------------------------------------------------
(* The steps of the walk *)

LEMMA PassKeeps ==
    ASSUME IInv, Pass
    PROVE  IInv'
<1>1. decision = Pending /\ ~Done /\ Branch = "pass" /\ Onward /\ enabler' = enabler /\ Typed
  BY DEF Pass, Walking, IInv
<1>2. R \in AnyRule
  BY <1>1, WalkIs
<1>3. enabler = 0 => Aside(R)
  BY <1>1, <1>2, BranchIs
<1>4. Repeated => \E t \in at + 1 .. Len(rules) + 1 : StopsAt(rules, t)
  BY <1>1, AppliedWalks
<1> QED
  BY <1>1, <1>3, <1>4, OnwardKeeps

\* A carrier is met only by a removal that was not applied: one that was has its drop.
LEMMA CarriesKeeps ==
    ASSUME IInv, Carries
    PROVE  IInv'
<1>1. decision = Pending /\ ~Done /\ Branch = "carries" /\ Onward /\ enabler' = FirstCarrier
  BY DEF Carries, Walking
<1>2. ~Repeated
  BY <1>1, AppliedWalks
<1> QED
  BY <1>1, <1>2, OnwardKeeps

LEMMA ReviewAnswers ==
    ASSUME NEW target, Conclude("review", target, 0)
    PROVE  Answer'
<1>1. decision'.outcome = "review" /\ decision'.narrow = 0
  BY DEF Conclude
<1> QED
  BY <1>1 DEF Answer

LEMMA IncompleteKeeps ==
    ASSUME IInv, Incomplete
    PROVE  IInv'
<1>1. Conclude("review", 0, 0)
  BY DEF Incomplete
<1> QED
  BY <1>1, ReviewAnswers, ConcludeKeeps

LEMMA ReviewKeeps ==
    ASSUME IInv, Review
    PROVE  IInv'
<1>1. Conclude("review", at, 0)
  BY DEF Review
<1> QED
  BY <1>1, ReviewAnswers, ConcludeKeeps

LEMMA DeniedKeeps ==
    ASSUME IInv, Denied
    PROVE  IInv'
<1>1. /\ Conclude("noop", at, 0) /\ decision = Pending /\ ~Empty /\ ~Done /\ Branch = "denied" /\ Typed
  BY DEF Denied, Walking, IInv
<1>2. R = rules[at] /\ R \in AnyRule
  BY <1>1, WalkIs
<1>3. Covering(R) /\ enabler = 0
  BY <1>1, <1>2, BranchIs
<1>4. /\ decision'.outcome = "noop" /\ decision'.narrow = 0
      /\ UNCHANGED <<rules, req, ignore, at, enabler, before, applied, narrowed>>
  BY <1>1 DEF Conclude
<1>5. PICK r : r = rules[at]
  OBVIOUS
<1>6. Covering(r)'
  BY <1>2, <1>3, <1>4, <1>5, SameRule
<1>7. Covering(rules[at])'
  BY <1>4, <1>5, <1>6 DEF Covering
<1>8. ~Empty'
  BY <1>1, <1>4 DEF Empty
<1>9. Answer'
  BY <1>3, <1>4, <1>7, <1>8 DEF Answer
<1> QED
  BY <1>1, <1>9, ConcludeKeeps

LEMMA EndKeeps ==
    ASSUME IInv, End
    PROVE  IInv'
<1>1. decision = Pending /\ ~Empty /\ Done /\ Typed
  BY DEF End, IInv
<1>2. /\ at \in Nat /\ Len(rules) \in Nat /\ at > Len(rules) /\ enabler \in Nat /\ enabler < at
      /\ at <= Len(rules) + 1
  BY <1>1, WalkIs DEF Done
<1>3. CASE enabler # 0
  <2>1. Conclude("deny", enabler, 0) /\ ~Repeated
    BY <1>3 DEF End, IInv
  <2>2. /\ decision'.outcome = "deny" /\ decision'.target = enabler /\ decision'.narrow = 0
        /\ UNCHANGED <<rules, req, ignore, at, enabler, before, applied, narrowed>>
    BY <2>1 DEF Conclude
  <2>3. ~Empty' /\ First' = enabler
    BY <1>1, <1>3, <2>2 DEF Empty, First
  <2>4. Answer'
    BY <1>2, <2>2, <2>3 DEF Answer
  <2> QED
    BY <2>1, <2>4, ConcludeKeeps
<1>4. CASE enabler = 0
  <2>1. Conclude("noop", 0, 0)
    BY <1>4 DEF End
  <2>2. /\ decision'.outcome = "noop" /\ decision'.narrow = 0
        /\ UNCHANGED <<rules, req, ignore, at, enabler, before, applied, narrowed>>
    BY <2>1 DEF Conclude
  <2>3. ~Empty'
    BY <1>1, <2>2 DEF Empty
  <2>4. Answer'
    BY <1>2, <1>4, <2>2, <2>3 DEF Answer
  <2> QED
    BY <2>1, <2>4, ConcludeKeeps
<1> QED
  BY <1>3, <1>4

\* A grant is a rule of its own, and the engine resolved it.
LEMMA GrantIs ==
    ASSUME IInv, Walking("grants")
    PROVE  /\ R \in PlainRule /\ ~Unresolved(R) /\ R = rules[at] /\ at \in 1 .. Len(rules)
           /\ ~Repeated /\ ~Empty
<1>1. decision = Pending /\ ~Empty /\ ~Done /\ Branch = "grants" /\ Typed
  BY DEF Walking, IInv
<1>2. R = rules[at] /\ R \in AnyRule /\ at \in 1 .. Len(rules)
  BY <1>1, WalkIs
<1>3. ~R.layered /\ ~Unresolved(R)
  BY <1>1, <1>2, BranchIs DEF Opaque
<1>4. R \in PlainRule
  BY <1>2, <1>3 DEF AnyRule, LayerRule, RuleOf
<1>5. ~Repeated
  BY <1>1, AppliedWalks
<1> QED
  BY <1>1, <1>2, <1>3, <1>4, <1>5

LEMMA GrantsKeeps ==
    ASSUME IInv, Grants
    PROVE  IInv'
<1>1. /\ R \in PlainRule /\ ~Unresolved(R) /\ R = rules[at] /\ at \in 1 .. Len(rules)
      /\ ~Repeated /\ ~Empty
  BY GrantIs DEF Grants
<1>2. Typed /\ at \in Nat /\ Len(rules) \in Nat /\ enabler \in Nat /\ enabler < at
  BY WalkIs DEF IInv
<1>3. CASE enabler # 0
  <2>1. PICK n \in {0, at} : Conclude("deny", enabler, n)
    BY <1>3 DEF Grants
  <2>2. /\ decision'.outcome = "deny" /\ decision'.target = enabler /\ decision'.narrow = n
        /\ UNCHANGED <<rules, req, ignore, at, enabler, before, applied, narrowed>>
    BY <2>1 DEF Conclude
  <2>3. ~Empty' /\ First' = enabler
    BY <1>1, <1>3, <2>2 DEF Empty, First
  <2>4. Answer'
    BY <1>1, <1>2, <1>3, <2>1, <2>2, <2>3 DEF Answer
  <2> QED
    BY <1>1, <2>1, <2>4, ConcludeKeeps
<1>4. CASE enabler = 0 /\ ExactlyThis /\ ~StillGrantedBelow
  <2>1. Conclude("disable", at, 0)
    BY <1>4 DEF Grants
  <2>2. /\ decision'.outcome = "disable" /\ decision'.target = at /\ decision'.narrow = 0
        /\ UNCHANGED <<rules, req, ignore, at, enabler, before, applied, narrowed>>
    BY <2>1 DEF Conclude
  <2>3. ~Empty' /\ ~StillGrantedBelow'
    BY <1>1, <1>4, <2>2 DEF Empty, StillGrantedBelow, Decides, Survives, Opaque, Unclear
  <2>4. PICK r : r = rules[at]
    OBVIOUS
  <2>5. /\ r \in PlainRule /\ ~Unresolved(r) /\ ~Approximate(r)
        /\ \A d \in {"src", "dst", "svc"} : Rel(req, r)[d] = "equal"
    BY <1>1, <1>4, <2>4 DEF ExactlyThis
  <2>6. \A d \in {"src", "dst", "svc"} : Rel(req', r)[d] = "equal"
    BY <2>2, <2>5
  <2>7. rules'[at'] = r
    BY <2>2, <2>4
  <2>8. Disablable(rules[at])'
    BY <2>3, <2>5, <2>6, <2>7 DEF Disablable
  <2>9. Answer'
    BY <1>1, <1>2, <1>4, <2>2, <2>3, <2>8 DEF Answer
  <2> QED
    BY <1>1, <2>1, <2>9, ConcludeKeeps
<1>5. CASE enabler = 0 /\ ~(ExactlyThis /\ ~StillGrantedBelow)
  <2>1. Conclude("deny", at, 0)
    BY <1>5 DEF Grants
  <2>2. /\ decision'.outcome = "deny" /\ decision'.target = at /\ decision'.narrow = 0
        /\ UNCHANGED <<rules, req, ignore, at, enabler, before, applied, narrowed>>
    BY <2>1 DEF Conclude
  <2>3. ~Empty' /\ First' = at
    BY <1>1, <1>5, <2>2 DEF Empty, First
  <2>4. Answer'
    BY <1>1, <1>2, <2>2, <2>3 DEF Answer
  <2> QED
    BY <1>1, <2>1, <2>4, ConcludeKeeps
<1> QED
  BY <1>3, <1>4, <1>5

---------------------------------------------------------------------------
(* The removal that is applied *)

\* It keeps the invariant when the layer it leaves stops the request under rules that were
\* there before, and grants everyone else what it granted.
LEMMA AppliedKeeps ==
    ASSUME IInv, ~applied, ~Empty, Published, narrowed' \in BOOLEAN,
           NEW new \in Seq(AnyRule), rules' = new,
           NEW t \in 1 .. Len(new) + 1, StopsAt(new, t),
           \A k \in 1 .. Len(new) :
               k <= t /\ new[k].enabled =>
                   new[k] = NewDrop \/ \E i \in 1 .. Len(before) : new[k] = before[i],
           EqualIsSame =>
               \A p \in Packets \ Asked(req) :
                   \/ narrowed' /\ p.src \in req.src
                   \/ Verdict(before, p) = "accept" => Verdict(new, p) = "accept"
    PROVE  IInv'
<1>1. /\ applied' = TRUE /\ decision' = Pending /\ at' = 1 /\ enabler' = 0
      /\ UNCHANGED <<req, ignore, before>> /\ Typed
  BY DEF Published, IInv
<1>2. Len(new) \in Nat
  OBVIOUS
<1>3. Typed'
  BY <1>1, <1>2 DEF Typed
<1>4. (\A k \in 1 .. First - 1 : Aside(rules[k]))'
  BY <1>1 DEF First
<1>5. Removed'
  <2>1. StopsAt(new, t)'
    BY <1>1, SameStop
  <2>2. StopsAt(rules, t)'
    BY <2>1 DEF StopsAt
  <2> QED
    BY <1>1, <2>2 DEF Removed
<1>6. ~Empty' /\ (Blind' <=> Blind) /\ (EqualIsSame' <=> EqualIsSame)
  BY <1>1 DEF Empty, Blind, EqualIsSame
<1>7. ASSUME ~Blind, NEW p \in Asked(req) PROVE Verdict(new, p) # "accept"
  <2>1. req \in Requests /\ DOMAIN before = 1 .. Len(before)
    BY <1>1 DEF Typed
  <2>2. Visible(new, t)
    BY <1>7, <2>1 DEF Blind, Unseen, Visible
  <2>3. Verdict(new, p) = "drop"
    BY <2>1, <2>2, StopsDenied
  <2> QED
    BY <2>3
<1>8. ~Blind' => \A p \in Asked(req') : Verdict(rules', p) # "accept"
  BY <1>1, <1>6, <1>7
<1>9. EqualIsSame' =>
        \A p \in Packets \ Asked(req') : (narrowed' /\ p.src \in req'.src) \/ Kept(p)'
  BY <1>1, <1>6 DEF Kept
<1> QED
  BY <1>1, <1>3, <1>4, <1>5, <1>6, <1>8, <1>9 DEF IInv

\* A drop above the first rule that may let the request through stops it.
LEMMA DenyStops ==
    ASSUME req \in Requests, NEW layer \in Seq(AnyRule), NEW i \in 1 .. Len(layer) + 1,
           \A k \in 1 .. i - 1 : Aside(layer[k])
    PROVE  /\ InsertAt(layer, i, NewDrop) \in Seq(AnyRule)
           /\ Len(InsertAt(layer, i, NewDrop)) = Len(layer) + 1
           /\ StopsAt(InsertAt(layer, i, NewDrop), i)
           /\ \A k \in 1 .. i - 1 : InsertAt(layer, i, NewDrop)[k] = layer[k]
           /\ InsertAt(layer, i, NewDrop)[i] = NewDrop
           /\ \A p \in Packets \ Asked(req) :
                Verdict(InsertAt(layer, i, NewDrop), p) = Verdict(layer, p)
<1>1. NewDrop \in AnyRule /\ \A p \in Packets : Matches(NewDrop, p) <=> p \in Asked(req)
  BY NewDropIs DEF AnyRule
<1> DEFINE new == InsertAt(layer, i, NewDrop)
<1>2. /\ new \in Seq(AnyRule) /\ Len(new) = Len(layer) + 1 /\ new[i] = NewDrop
      /\ \A k \in 1 .. i - 1 : new[k] = layer[k]
  BY <1>1, InsertIs
<1>3. \A p \in Packets \ Asked(req) : Verdict(new, p) = Verdict(layer, p)
  BY <1>1, InsertedElsewhere
<1> HIDE DEF new
<1>4. StopsAt(new, i)
  BY <1>1, <1>2 DEF StopsAt
<1> QED
  BY <1>2, <1>3, <1>4 DEF new

\* What a decision to deny was made of.
LEMMA DenyIs ==
    ASSUME IInv, ~applied, decision.outcome = "deny"
    PROVE  /\ Typed /\ ~Empty /\ before = rules /\ rules \in Seq(AnyRule) /\ req \in Requests
           /\ decision.target = First /\ First \in 1 .. Len(rules) /\ First <= at
           /\ \A k \in 1 .. First - 1 : Aside(rules[k])
           /\ decision.narrow # 0 =>
                decision.narrow = at /\ at \in 1 .. Len(rules) /\ rules[at] \in PlainRule
<1>1. decision # Pending
  BY DEF Pending
<1>2. Answer /\ Typed /\ before = rules /\ \A k \in 1 .. First - 1 : Aside(rules[k])
  BY <1>1 DEF IInv
<1>3. /\ at \in Nat /\ Len(rules) \in Nat /\ First \in 1 .. at /\ at >= 1
  BY <1>2, WalkIs
<1> QED
  BY <1>2, <1>3 DEF Answer, Typed

LEMMA DenyKeeps ==
    ASSUME IInv, Deny
    PROVE  IInv'
<1>1. /\ ~applied /\ decision.outcome = "deny" /\ rules' = InsertAt(rules, decision.target, NewDrop)
      /\ Published /\ narrowed' = narrowed
  BY DEF Deny, Inserted
<1>2. PICK layer : layer = rules
  OBVIOUS
<1>3. PICK i : i = First
  OBVIOUS
<1>4. /\ Typed /\ ~Empty /\ before = layer /\ layer \in Seq(AnyRule) /\ req \in Requests
      /\ decision.target = i /\ i \in 1 .. Len(layer) /\ Len(layer) \in Nat
      /\ \A k \in 1 .. i - 1 : Aside(layer[k])
  BY <1>1, <1>2, <1>3, DenyIs
<1>5. PICK new : new = InsertAt(layer, i, NewDrop)
  OBVIOUS
<1>6. /\ new \in Seq(AnyRule) /\ Len(new) = Len(layer) + 1 /\ StopsAt(new, i)
      /\ new[i] = NewDrop /\ \A k \in 1 .. i - 1 : new[k] = layer[k]
      /\ \A p \in Packets \ Asked(req) : Verdict(new, p) = Verdict(layer, p)
  BY <1>4, <1>5, DenyStops
<1>7. rules' = new /\ i \in 1 .. Len(new) + 1 /\ narrowed' \in BOOLEAN
  BY <1>1, <1>2, <1>4, <1>5, <1>6 DEF Typed
<1>8. \A k \in 1 .. Len(new) :
        k <= i /\ new[k].enabled => new[k] = NewDrop \/ \E j \in 1 .. Len(before) : new[k] = before[j]
  BY <1>4, <1>6
<1>9. \A p \in Packets \ Asked(req) : Verdict(before, p) = "accept" => Verdict(new, p) = "accept"
  BY <1>4, <1>6
<1> QED
  BY <1>1, <1>4, <1>6, <1>7, <1>8, <1>9, AppliedKeeps

LEMMA DenyAndNarrowKeeps ==
    ASSUME IInv, DenyAndNarrow
    PROVE  IInv'
<1>1. PICK lost \in SUBSET req.src :
        rules' = Inserted([rules EXCEPT ![decision.narrow] = Without(@, lost)])
  BY DEF DenyAndNarrow
<1>2. /\ ~applied /\ decision.outcome = "deny" /\ decision.narrow # 0 /\ Published /\ narrowed' = TRUE
  BY DEF DenyAndNarrow
<1>3. PICK old : old = rules
  OBVIOUS
<1>4. PICK i : i = First
  OBVIOUS
<1>5. PICK n : n = at
  OBVIOUS
<1>6. /\ Typed /\ ~Empty /\ before = old /\ old \in Seq(AnyRule) /\ req \in Requests
      /\ decision.target = i /\ i \in 1 .. Len(old) /\ Len(old) \in Nat /\ i <= n
      /\ \A k \in 1 .. i - 1 : Aside(old[k])
      /\ decision.narrow = n /\ n \in 1 .. Len(old) /\ old[n] \in PlainRule
  BY <1>2, <1>3, <1>4, <1>5, DenyIs
<1>7. PICK r : r = Without(old[n], lost)
  OBVIOUS
<1>8. /\ r \in AnyRule
      /\ \A p : p.src \notin lost => (Matches(r, p) <=> Matches(old[n], p))
      /\ \A p : RuleVerdict(r, p) = RuleVerdict(old[n], p)
  BY <1>6, <1>7, WithoutIs DEF AnyRule
<1>9. PICK layer : layer = [old EXCEPT ![n] = r]
  OBVIOUS
<1>10. /\ layer \in Seq(AnyRule) /\ Len(layer) = Len(old)
       /\ \A k \in 1 .. i - 1 : layer[k] = old[k] /\ Aside(layer[k])
       /\ i \in 1 .. Len(layer) + 1
  BY <1>6, <1>8, <1>9
<1>11. ASSUME NEW p, p.src \notin lost PROVE Verdict(layer, p) = Verdict(old, p)
  <2>1. Matches(r, p) <=> Matches(old[n], p)
    BY <1>8, <1>11
  <2>2. SameHit(old, layer, p)
    BY <1>6, <1>8, <1>9, <2>1, ReplacedSame
  <2> QED
    BY <2>2, SameHitVerdict
<1>12. PICK new : new = InsertAt(layer, i, NewDrop)
  OBVIOUS
<1>13. /\ new \in Seq(AnyRule) /\ Len(new) = Len(layer) + 1 /\ StopsAt(new, i)
       /\ new[i] = NewDrop /\ \A k \in 1 .. i - 1 : new[k] = layer[k]
       /\ \A p \in Packets \ Asked(req) : Verdict(new, p) = Verdict(layer, p)
  BY <1>6, <1>10, <1>12, DenyStops
<1>14. rules' = new
  BY <1>1, <1>3, <1>6, <1>7, <1>9, <1>12 DEF Inserted
<1>15. i \in 1 .. Len(new) + 1 /\ narrowed' \in BOOLEAN
  BY <1>2, <1>6, <1>10, <1>13
<1>16. \A k \in 1 .. Len(new) :
        k <= i /\ new[k].enabled => new[k] = NewDrop \/ \E j \in 1 .. Len(before) : new[k] = before[j]
  BY <1>6, <1>10, <1>13
<1>17. \A p \in Packets \ Asked(req) :
          \/ narrowed' /\ p.src \in req.src
          \/ Verdict(before, p) = "accept" => Verdict(new, p) = "accept"
  BY <1>2, <1>6, <1>11, <1>13
<1> QED
  BY <1>2, <1>6, <1>13, <1>14, <1>15, <1>16, <1>17, AppliedKeeps

\* What is below a grant that may be disabled stops the request too.
LEMMA BelowStops ==
    ASSUME Typed, at \in 1 .. Len(rules), ~StillGrantedBelow
    PROVE  \E t \in at + 1 .. Len(rules) + 1 :
              /\ \A k \in at + 1 .. t - 1 : Aside(rules[k]) \/ Partial(rules[k])
              /\ t <= Len(rules) => Covering(rules[t])
<1> DEFINE T == {j \in at + 1 .. Len(rules) : Decides(rules[j])}
<1>1. /\ at \in Nat /\ Len(rules) \in Nat
      /\ \A k \in 1 .. Len(rules) : rules[k] \in AnyRule
  BY WalkIs DEF Typed
<1>2. ASSUME NEW k \in at + 1 .. Len(rules), k \notin T PROVE Aside(rules[k]) \/ Partial(rules[k])
  BY <1>1, <1>2 DEF Decides, Aside, Partial, ProvenDrop
<1>3. CASE T = {}
  <2>1. Len(rules) + 1 \in at + 1 .. Len(rules) + 1 /\ ~(Len(rules) + 1 <= Len(rules))
    BY <1>1
  <2>2. \A k \in at + 1 .. (Len(rules) + 1) - 1 : Aside(rules[k]) \/ Partial(rules[k])
    BY <1>1, <1>2, <1>3
  <2> QED
    BY <2>1, <2>2
<1>4. CASE T # {}
  <2>1. T \subseteq Nat
    BY <1>1
  <2>2. PICK j \in T : \A k \in T : j <= k
    BY <1>4, <2>1, LeastOf
  <2>3. j \in at + 1 .. Len(rules) /\ Decides(rules[j]) /\ j \in Nat
    BY <2>1, <2>2
  <2>4. \A k \in at + 1 .. j - 1 : k \in at + 1 .. Len(rules) /\ k \notin T
    BY <1>1, <2>2, <2>3
  <2>5. \A k \in at + 1 .. j - 1 : ~Decides(rules[k])
    BY <2>4
  <2>6. ~Survives(rules[j])
    BY <2>3, <2>5 DEF StillGrantedBelow
  <2>7. j \in 1 .. Len(rules)
    BY <1>1, <2>3
  <2>8. rules[j].action \in {"accept", "drop", "other"}
    BY <1>1, <2>7, RuleFields
  <2>9. Covering(rules[j])
    BY <2>3, <2>6, <2>8 DEF Decides, Survives, Covering, ProvenDrop, Opaque
  <2> QED
    BY <1>2, <2>3, <2>4, <2>9, <1>1
<1> QED
  BY <1>3, <1>4

LEMMA DisableKeeps ==
    ASSUME IInv, Disable
    PROVE  IInv'
<1>1. /\ ~applied /\ decision.outcome = "disable" /\ Published /\ narrowed' = narrowed
      /\ rules' = [rules EXCEPT ![decision.target].enabled = FALSE] /\ decision # Pending
  BY DEF Disable, Disabled, Pending
<1>2. /\ Answer /\ Typed /\ before = rules /\ \A k \in 1 .. First - 1 : Aside(rules[k])
  BY <1>1 DEF IInv
<1>3. /\ enabler = 0 /\ at <= Len(rules) /\ decision.target = at /\ Disablable(rules[at]) /\ ~Empty
  BY <1>1, <1>2 DEF Answer
<1>4. PICK old : old = rules
  OBVIOUS
<1>5. PICK n : n = at
  OBVIOUS
<1>6. /\ n \in 1 .. Len(old) /\ old \in Seq(AnyRule) /\ Len(old) \in Nat /\ First = n /\ req \in Requests
  BY <1>2, <1>3, <1>4, <1>5, WalkIs DEF Typed, First
<1>7. /\ old[n] \in PlainRule /\ ~Unresolved(old[n]) /\ ~Approximate(old[n])
      /\ \A d \in {"src", "dst", "svc"} : Rel(req, old[n])[d] = "equal"
      /\ ~StillGrantedBelow
  BY <1>3, <1>4, <1>5 DEF Disablable
<1>8. PICK t \in n + 1 .. Len(old) + 1 :
              /\ \A k \in n + 1 .. t - 1 : Aside(old[k]) \/ Partial(old[k])
              /\ t <= Len(old) => Covering(old[t])
  BY <1>2, <1>4, <1>5, <1>6, <1>7, BelowStops
<1>9. PICK r : r = Off(old[n])
  OBVIOUS
<1>10. r \in AnyRule /\ ~r.enabled /\ \A p : ~Matches(r, p)
  BY <1>7, <1>9, OffIs DEF AnyRule
<1>11. PICK new : new = [old EXCEPT ![n] = r]
  OBVIOUS
<1>12. rules' = new
  BY <1>1, <1>3, <1>4, <1>5, <1>9, <1>11 DEF Off
<1>13. /\ new \in Seq(AnyRule) /\ Len(new) = Len(old) /\ new[n] = r
       /\ \A k \in 1 .. Len(old) : k # n => new[k] = old[k]
  BY <1>6, <1>10, <1>11
<1>14. t \in 1 .. Len(new) + 1 /\ t \in Nat /\ n < t
  BY <1>6, <1>8, <1>13
<1>15. StopsAt(new, t)
  <2>1. ASSUME NEW k \in 1 .. t - 1 PROVE Aside(new[k]) \/ Partial(new[k])
    <3>1. CASE k < n
      BY <1>2, <1>4, <1>6, <1>13, <3>1
    <3>2. CASE k = n
      BY <1>10, <1>13, <3>2 DEF Aside
    <3>3. CASE k > n
      BY <1>6, <1>8, <1>13, <1>14, <3>3
    <3> QED
      BY <1>6, <1>14, <3>1, <3>2, <3>3
  <2>2. t <= Len(new) => Covering(new[t])
    BY <1>6, <1>8, <1>13, <1>14
  <2> QED
    BY <2>1, <2>2 DEF StopsAt
<1>16. \A k \in 1 .. Len(new) :
         k <= t /\ new[k].enabled => new[k] = NewDrop \/ \E i \in 1 .. Len(before) : new[k] = before[i]
  BY <1>2, <1>4, <1>6, <1>10, <1>13, <1>14
<1>17. ASSUME EqualIsSame, NEW p \in Packets \ Asked(req)
       PROVE  Verdict(new, p) = Verdict(before, p)
  <2>1. old[n] \in AnyRule /\ Understood(req) /\ ~Loose(req.svc, old[n].svc)
    BY <1>2, <1>4, <1>6, <1>17 DEF EqualIsSame
  <2>2. ~Matches(old[n], p)
    BY <1>6, <1>7, <1>17, <2>1, ExactlyAsked
  <2> QED
    BY <1>2, <1>4, <1>6, <1>10, <1>11, <2>2, ReplacedSame, SameHitVerdict
<1>18. narrowed' \in BOOLEAN
  BY <1>1, <1>2 DEF Typed
<1> QED
  BY <1>1, <1>3, <1>12, <1>13, <1>14, <1>15, <1>16, <1>17, <1>18, AppliedKeeps

---------------------------------------------------------------------------
(* The theorems *)

LEMMA InitSound == Init => IInv
<1> SUFFICES ASSUME Init PROVE IInv
  OBVIOUS
<1>1. /\ rules \in Layers /\ req \in Requests /\ ignore \in Ignoring /\ at = 1 /\ enabler = 0
      /\ decision = Pending /\ before = rules /\ applied = FALSE /\ narrowed = FALSE
  BY DEF Init
<1>2. rules \in Seq(AnyRule)
  BY <1>1, LayersAssumption DEF AnyRule
<1>3. Typed
  <2>1. Len(rules) \in Nat
    BY <1>2
  <2>2. at \in 1 .. Len(rules) + 1 /\ enabler \in 0 .. at - 1
    BY <1>1, <2>1
  <2>3. applied \in BOOLEAN /\ narrowed \in BOOLEAN /\ ignore \in Ignoring
    BY <1>1
  <2>4. before \in Seq(AnyRule) /\ req \in Requests
    BY <1>1, <1>2
  <2> QED
    BY <1>2, <2>2, <2>3, <2>4 DEF Typed
<1>4. \A k \in 1 .. First - 1 : Aside(rules[k])
  BY <1>1 DEF First
<1>5. ~applied /\ ~Repeated
  BY <1>1 DEF Repeated
<1> QED
  BY <1>1, <1>3, <1>4, <1>5 DEF IInv

LEMMA StutterKeeps ==
    ASSUME IInv, UNCHANGED vars
    PROVE  IInv'
<1>1. UNCHANGED <<rules, req, ignore, at, enabler, decision, before, applied, narrowed>>
  BY DEF vars
<1>2. Typed' /\ First' = First
  BY <1>1 DEF IInv, Typed, First
<1>3. (\A k \in 1 .. First - 1 : Aside(rules[k]))'
  <2>1. \A k : Aside(rules[k])' <=> Aside(rules[k])
    BY <1>1 DEF Aside
  <2> QED
    BY <1>1, <1>2, <2>1 DEF IInv
<1>4. decision' # Pending => Answer'
  <2> SUFFICES ASSUME decision # Pending PROVE Answer'
    BY <1>1
  <2>1. PICK r : r = rules[at]
    OBVIOUS
  <2>2. Covering(rules[at]) => Covering(rules[at])'
    <3>1. Covering(r)' <=> Covering(r)
      BY <1>1, SameRule
    <3> QED
      BY <1>1, <2>1, <3>1 DEF Covering
  <2>3. Disablable(rules[at]) => Disablable(rules[at])'
    <3>1. StillGrantedBelow' <=> StillGrantedBelow
      BY <1>1 DEF StillGrantedBelow, Decides, Survives, Opaque, Unclear
    <3> QED
      BY <1>1, <3>1 DEF Disablable
  <2>4. Empty' <=> Empty
    BY <1>1 DEF Empty
  <2>5. Answer
    BY DEF IInv
  <2> QED
    BY <1>1, <1>2, <2>2, <2>3, <2>4, <2>5 DEF Answer
<1>5. Repeated' => enabler' = 0 /\ Removed'
  <2>1. SUFFICES ASSUME Repeated PROVE enabler' = 0 /\ Removed'
    BY <1>1 DEF Repeated
  <2>2. PICK t \in at .. Len(rules) + 1 : StopsAt(rules, t)
    BY <2>1 DEF IInv, Removed
  <2>3. PICK layer : layer = rules
    OBVIOUS
  <2>4. StopsAt(layer, t)'
    BY <1>1, <2>2, <2>3, SameStop
  <2>5. StopsAt(rules, t)'
    BY <1>1, <2>3, <2>4 DEF StopsAt
  <2> QED
    BY <1>1, <2>1, <2>2, <2>5 DEF IInv, Removed
<1>6. Repeated' /\ decision' # Pending => decision'.outcome \in {"noop", "review"}
  BY <1>1 DEF IInv, Repeated
<1> QED
  BY <1>1, <1>2, <1>3, <1>4, <1>5, <1>6, SameHistory DEF IInv

LEMMA StepKeeps == IInv /\ [Next]_vars => IInv'
<1> SUFFICES ASSUME IInv, [Next]_vars PROVE IInv'
  OBVIOUS
<1>1. CASE Next
  BY <1>1, IncompleteKeeps, PassKeeps, CarriesKeeps, ReviewKeeps, DeniedKeeps, GrantsKeeps, EndKeeps,
     DisableKeeps, DenyKeeps, DenyAndNarrowKeeps
  DEF Next
<1>2. CASE UNCHANGED vars
  BY <1>2, StutterKeeps
<1> QED
  BY <1>1, <1>2

\* What the walk of a removal has passed, what its answer was made of, and what it left once it was
\* applied, is an invariant (decide_removal(), remove_execute()).
THEOREM Invariant == Spec => []IInv
<1>1. Init => IInv
  BY InitSound
<1>2. IInv /\ [Next]_vars => IInv'
  BY StepKeeps
<1> QED
  BY <1>1, <1>2, PTL DEF Spec

\* The variables hold what the walk, the decision and the layer may be: a removal that is to be
\* applied names a rule of the layer, and a second grant to narrow lies below it (decide_removal()).
THEOREM TypeCorrect == Spec => []TypeOK
<1>1. IInv => TypeOK
  <2> SUFFICES ASSUME IInv PROVE TypeOK
    OBVIOUS
  <2>1. Typed /\ rules \in Seq(PlainRule \cup LayerRule) /\ DOMAIN rules = 1 .. Len(rules)
    BY DEF IInv, Typed, AnyRule
  <2>2. ASSUME decision # Pending
        PROVE  /\ decision.outcome \in {"noop", "review", "disable", "deny"}
               /\ decision.outcome \in {"disable", "deny"} => decision.target \in DOMAIN rules
               /\ decision.narrow # 0 => decision.narrow \in decision.target + 1 .. Len(rules)
    <3>1. Answer
      BY <2>2 DEF IInv
    <3>2. /\ at \in Nat /\ at >= 1 /\ Len(rules) \in Nat /\ enabler \in Nat /\ enabler < at /\ First \in 1 .. at
      BY <2>1, WalkIs
    <3>3. decision.outcome \in {"disable", "deny"} => decision.target \in 1 .. Len(rules)
      BY <3>1, <3>2 DEF Answer
    <3>4. ASSUME decision.narrow # 0 PROVE decision.narrow \in decision.target + 1 .. Len(rules)
      <4>1. /\ decision.outcome = "deny" /\ enabler # 0 /\ decision.narrow = at /\ at <= Len(rules)
            /\ decision.target = First
        BY <3>1, <3>4 DEF Answer
      <4>2. First = enabler
        BY <4>1 DEF First
      <4> QED
        BY <3>2, <4>1, <4>2
    <3>5. decision.outcome \in {"noop", "review", "disable", "deny"}
      BY <3>1 DEF Answer
    <3> QED
      BY <2>1, <3>3, <3>4, <3>5
  <2>3. at \in 1 .. Len(rules) + 1 /\ enabler \in 0 .. at - 1 /\ req \in Requests /\ ignore \in Ignoring
        /\ applied \in BOOLEAN /\ narrowed \in BOOLEAN
    BY <2>1 DEF Typed
  <2> QED
    BY <2>1, <2>2, <2>3 DEF TypeOK
<1> QED
  BY <1>1, Invariant, PTL

\* "Already not permitted", and a removal that is published, are true of the gateway: no packet of
\* the requested flow comes through (decide_removal(), remove_execute()).
THEOREM Revoked == Spec => []RevokedIsRevoked
<1>1. IInv => RevokedIsRevoked
  <2> SUFFICES ASSUME IInv, applied \/ (decision # Pending /\ decision.outcome = "noop"), ~Empty, ~Blind,
                      NEW p \in Asked(req)
               PROVE  Verdict(rules, p) # "accept"
    BY DEF RevokedIsRevoked
  <2>1. CASE applied
    BY <2>1 DEF IInv
  <2>2. CASE ~applied
    <3>1. decision # Pending /\ decision.outcome = "noop" /\ before = rules /\ Typed /\ Answer
      BY <2>2 DEF IInv
    <3>2. enabler = 0 /\ First = at /\ (at <= Len(rules) => Covering(rules[at]))
      BY <3>1 DEF Answer, First
    <3>3. \A k \in 1 .. at - 1 : Aside(rules[k])
      BY <3>2 DEF IInv
    <3>4. StopsAt(rules, at)
      BY <3>2, <3>3 DEF StopsAt
    <3>5. at \in 1 .. Len(rules) + 1 /\ rules \in Seq(AnyRule) /\ req \in Requests /\ Len(rules) \in Nat
          /\ DOMAIN rules = 1 .. Len(rules)
      BY <3>1 DEF Typed
    <3>6. Visible(rules, at)
      BY <3>1, <3>5 DEF Blind, Unseen, Visible
    <3>7. Verdict(rules, p) = "drop"
      BY <3>4, <3>5, <3>6, StopsDenied
    <3> QED
      BY <3>7
  <2> QED
    BY <2>1, <2>2
<1> QED
  BY <1>1, Invariant, PTL

\* A removal takes nothing from anyone else: a packet that was not asked about is accepted after it
\* if it was before, but for what the source had by a second grant that was narrowed.
THEOREM OthersKeep == Spec => []OthersKeepTheirs
<1>1. IInv => OthersKeepTheirs
  BY DEF IInv, OthersKeepTheirs
<1> QED
  BY <1>1, Invariant, PTL

\* A removal that was applied, asked again, ends in "already not permitted" or in a review, and never
\* disables or denies once more.
THEOREM Once == Spec => []RemovedOnce
<1>1. IInv => RemovedOnce
  BY DEF IInv, RemovedOnce, Repeated
<1> QED
  BY <1>1, Invariant, PTL
=============================================================================
