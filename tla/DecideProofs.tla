---------------------------- MODULE DecideProofs -----------------------------
(***************************************************************************)
(* Proofs about Decide for every layer, request, setting and set of        *)
(* addresses, ports and applications.                                      *)
(***************************************************************************)
EXTENDS Decide, RulebaseProofs

---------------------------------------------------------------------------
(* A request and a rule                                                     *)

\* A rule that _out_of_path() takes for apart, other than on the word of an approximated
\* cell, matches no packet asked for.
LEMMA OutOfPathMisses ==
    ASSUME NEW r \in AnyRule, req \in Request,
           OutOfPath(req, r), ~Misjudged(r), NEW p \in Asked(req)
    PROVE  ~Matches(r, p)
<1>1. req.svc \in Service
  BY DEF Request
<1> QED
  BY <1>1, ApartMisses DEF Misjudged, TrustedApart

\* A resolved rule that covers the request in every column matches every packet asked for.
LEMMA WithinMatches ==
    ASSUME NEW r \in AnyRule, req \in Request, ~Blank(req.svc), ~Misjudged(r),
           Within(req, r), ~Unresolved(r), r.enabled, r.cond => r.holds, NEW p \in Asked(req)
    PROVE  Matches(r, p)
<1>1. req.svc \in Service
  BY DEF Request
<1> QED
  BY <1>1, CoversMatches DEF Misjudged

---------------------------------------------------------------------------
(* What is written: a new rule, or a wider one                              *)

\* The rule that is created matches what was asked for, and nothing else.
LEMMA NewRuleIs ==
    ASSUME req \in Request
    PROVE  /\ NewRule \in PlainRule
           /\ \A p \in Packets : Matches(NewRule, p) <=> p \in Asked(req)
           /\ req.action = "accept" => NewRule.verdict = "accept"
           /\ req.action = "block" => NewRule.verdict = "drop"
           /\ req.action = "ask" => NewRule.verdict = "ask"
           /\ ~NewRule.layered
<1> DEFINE n == NewRule
           action == CASE req.action = "accept" -> "accept" [] req.action = "block" -> "drop"
                       [] req.action = "ask" -> "other"
           verdict == CASE req.action = "accept" -> "accept" [] req.action = "block" -> "drop"
                        [] req.action = "ask" -> "ask"
<1>1. /\ req.src \subseteq Sources /\ req.dst \subseteq Destinations
      /\ req.obj \in ServiceCell
      /\ req.action \in {"accept", "block", "ask"} /\ req.restricted \in BOOLEAN
  BY DEF Request
<1>2. ExactCell(req.src) \in AddressCell(Sources) /\ ExactCell(req.dst) \in AddressCell(Destinations)
  BY <1>1 DEF ExactCell, AddressCell, Trust
<1>4. /\ req.action = "accept" => action = "accept" /\ verdict = "accept"
      /\ req.action = "block" => action = "drop" /\ verdict = "drop"
      /\ req.action = "ask" => action = "other" /\ verdict = "ask"
  BY Zenon
<1>5. n = [enabled |-> TRUE, action |-> action, verdict |-> verdict, src |-> ExactCell(req.src),
           dst |-> ExactCell(req.dst),
           svc |-> req.obj,
           cond |-> req.restricted, holds |-> TRUE, dynamic |-> FALSE,
           layered |-> FALSE, inline |-> <<>>, cleanup |-> "drop"]
  BY Zenon DEF NewRule
<1> HIDE DEF n, action, verdict
<1>6. action \in {"accept", "drop", "other"} /\ verdict \in Verdicts
  BY <1>1, <1>4 DEF Verdicts
<1>7. action # "other" => verdict = action
  BY <1>1, <1>4
<1>8. n.action = action /\ n.verdict = verdict /\ ~n.layered
  BY <1>5
<1>9. n \in PlainRule
  <2>2. n \in [enabled : BOOLEAN, action : {"accept", "drop", "other"}, verdict : Verdicts,
               src : AddressCell(Sources), dst : AddressCell(Destinations), svc : ServiceCell,
               cond : BOOLEAN, holds : BOOLEAN, dynamic : BOOLEAN, layered : {FALSE},
               inline : {<<>>}, cleanup : {"accept", "drop"}]
    BY <1>1, <1>2, <1>5, <1>6
  <2> QED
    BY <1>7, <1>8, <2>2 DEF PlainRule, RuleOf
<1>10. ASSUME NEW p \in Packets PROVE Matches(n, p) <=> p \in Asked(req)
  <2>1. p.src \in n.src.real <=> p.src \in req.src
    BY <1>5 DEF ExactCell
  <2>2. p.dst \in n.dst.real <=> p.dst \in req.dst
    BY <1>5 DEF ExactCell
  <2>3. n.svc = req.obj
    BY <1>5
  <2>4. n.enabled /\ n.holds
    BY <1>5
  <2> QED
    BY <2>1, <2>2, <2>3, <2>4 DEF Matches, Asked
<1> QED
  BY <1>4, <1>8, <1>9, <1>10 DEF n

\* What makes a rule one to widen in a column: it is an accept that takes effect, resolved,
\* and equals the request in the two others.
CanWiden(r, d) ==
    /\ r.action = "accept" /\ r.enabled /\ ~r.dynamic
    /\ ~Unresolved(r) /\ ~r.cond
    /\ \A e \in Columns \ {d} : Exact(r, e)

\* The cells of a rule that is widened, but for the column it is widened in.
LEMMA CanWidenCells ==
    ASSUME NEW r \in AnyRule, NEW d \in Columns, CanWiden(r, d), req \in Request
    PROVE  /\ d # "src" => r.src.real = req.src
           /\ d # "dst" => r.dst.real = req.dst
           /\ d # "svc" => ServiceRelation(req.svc, r.svc) = "equal"
           /\ ~r.svc.unknown
<1>1. /\ r.src \in AddressCell(Sources) /\ r.dst \in AddressCell(Destinations)
  BY RuleFields
<1>2. r.src.trust # "unknown" /\ r.dst.trust # "unknown" /\ ~r.svc.unknown
  BY DEF CanWiden, Unresolved
<1>3. d # "src" => Rel(req, r).src = "equal" /\ r.src.trust # "approx"
  BY DEF CanWiden, Exact, Columns
<1>4. d # "dst" => Rel(req, r).dst = "equal" /\ r.dst.trust # "approx"
  BY DEF CanWiden, Exact, Columns
<1>5. d # "svc" => Rel(req, r).svc = "equal"
  BY DEF CanWiden, Exact, Columns
<1>6. d # "src" => Relation(req.src, r.src.seen) = "equal" /\ r.src.trust = "exact"
  BY <1>1, <1>2, <1>3, CellIs DEF Rel
<1>7. d # "dst" => Relation(req.dst, r.dst.seen) = "equal" /\ r.dst.trust = "exact"
  BY <1>1, <1>2, <1>4, CellIs DEF Rel
<1>8. d # "src" => r.src.real = req.src
  BY <1>1, <1>6, ExactCellIs
<1>9. d # "dst" => r.dst.real = req.dst
  BY <1>1, <1>7, ExactCellIs
<1> QED
  BY <1>2, <1>5, <1>8, <1>9 DEF Rel

\* A widened cell holds the request and what it held, in what is resolved and what is matched.
WiderCell(c, s) == [c EXCEPT !.seen = @ \cup s, !.real = @ \cup s]

LEMMA WiderCellIs ==
    ASSUME NEW Space, NEW c \in AddressCell(Space), NEW s, s \subseteq Space
    PROVE  /\ WiderCell(c, s) \in AddressCell(Space)
           /\ WiderCell(c, s).real = c.real \cup s
<1>1. /\ WiderCell(c, s).seen = c.seen \cup s /\ WiderCell(c, s).real = c.real \cup s
      /\ WiderCell(c, s).trust = c.trust
  BY DEF WiderCell, AddressCell
<1>2. WiderCell(c, s) \in [seen : SUBSET Space, real : SUBSET Space, trust : Trust]
  BY DEF WiderCell, AddressCell
<1>3. /\ c.trust = "exact" => c.real = c.seen
      /\ c.trust = "approx" => c.seen \subseteq c.real
  BY DEF AddressCell
<1> QED
  BY <1>1, <1>2, <1>3 DEF AddressCell

\* A rule that is widened keeps everything but the column.
LEMMA AddedIs ==
    ASSUME NEW r \in PlainRule, NEW d \in Columns, req \in Request, ~r.svc.unknown
    PROVE  /\ Added(r, d) \in PlainRule
           /\ Added(r, d).verdict = r.verdict
           /\ Added(r, d).enabled = r.enabled /\ Added(r, d).cond = r.cond /\ Added(r, d).holds = r.holds
           /\ Added(r, d).src.real = IF d = "src" THEN r.src.real \cup req.src ELSE r.src.real
           /\ Added(r, d).dst.real = IF d = "dst" THEN r.dst.real \cup req.dst ELSE r.dst.real
           /\ \A f \in Flows : FlowMatches(Added(r, d).svc, f) <=>
                        FlowMatches(r.svc, f) \/ (d = "svc" /\ FlowMatches(req.obj, f))
<1>1. /\ r.src \in AddressCell(Sources) /\ r.dst \in AddressCell(Destinations) /\ r.svc \in ServiceCell
      /\ req.src \subseteq Sources /\ req.dst \subseteq Destinations /\ req.obj \in ServiceCell
  BY DEF PlainRule, RuleOf, Request
<1>2. d \in {"src", "dst", "svc"}
  BY DEF Columns
<1>3. CASE d = "src"
  <2>1. Added(r, d) = [r EXCEPT !.src = WiderCell(r.src, req.src)]
    BY <1>1, <1>3 DEF Added, WiderCell, PlainRule, RuleOf, AddressCell
  <2>2. /\ WiderCell(r.src, req.src) \in AddressCell(Sources)
        /\ WiderCell(r.src, req.src).real = r.src.real \cup req.src
    BY <1>1, WiderCellIs
  <2> DEFINE c == WiderCell(r.src, req.src)
  <2> HIDE DEF c
  <2>3. [r EXCEPT !.src = c] \in PlainRule
    BY <2>2 DEF PlainRule, RuleOf, c
  <2> QED
    BY <1>3, <2>1, <2>2, <2>3 DEF PlainRule, RuleOf, c
<1>4. CASE d = "dst"
  <2>1. Added(r, d) = [r EXCEPT !.dst = WiderCell(r.dst, req.dst)]
    BY <1>1, <1>4 DEF Added, WiderCell, PlainRule, RuleOf, AddressCell
  <2>2. /\ WiderCell(r.dst, req.dst) \in AddressCell(Destinations)
        /\ WiderCell(r.dst, req.dst).real = r.dst.real \cup req.dst
    BY <1>1, WiderCellIs
  <2> DEFINE c == WiderCell(r.dst, req.dst)
  <2> HIDE DEF c
  <2>3. [r EXCEPT !.dst = c] \in PlainRule
    BY <2>2 DEF PlainRule, RuleOf, c
  <2> QED
    BY <1>4, <2>1, <2>2, <2>3 DEF PlainRule, RuleOf, c
<1>5. CASE d = "svc"
  <2> DEFINE c == Joined(r.svc, req.obj)
  <2>1. Added(r, d) = [r EXCEPT !.svc = c]
    BY <1>1, <1>5 DEF Added, PlainRule, RuleOf
  <2>2. /\ c \in ServiceCell
        /\ \A f \in Flows : FlowMatches(c, f) <=> FlowMatches(r.svc, f) \/ FlowMatches(req.obj, f)
    BY <1>1, JoinedIs
  <2> HIDE DEF c
  <2>3. [r EXCEPT !.svc = c] \in PlainRule
    BY <2>2 DEF PlainRule, RuleOf
  <2>4. Added(r, d) = [r EXCEPT !.svc = c]
    BY <2>1 DEF c
  <2> QED
    BY <1>5, <2>2, <2>3, <2>4 DEF PlainRule, RuleOf
<1> QED
  BY <1>2, <1>3, <1>4, <1>5

\* What a widened rule matches.
LEMMA WideningMatches ==
    ASSUME NEW r \in AnyRule, NEW d \in Columns, CanWiden(r, d), req \in Request, NEW p \in Packets
    PROVE  /\ Matches(r, p) <=> p.src \in r.src.real /\ p.dst \in r.dst.real /\ FlowMatches(r.svc, p.flow)
           /\ Matches(Added(r, d), p) <=>
                /\ p.src \in r.src.real \/ (d = "src" /\ p.src \in req.src)
                /\ p.dst \in r.dst.real \/ (d = "dst" /\ p.dst \in req.dst)
                /\ FlowMatches(r.svc, p.flow) \/ (d = "svc" /\ FlowMatches(req.obj, p.flow))
           /\ d # "src" => r.src.real = req.src
           /\ d # "dst" => r.dst.real = req.dst
           /\ d # "svc" => ServiceRelation(req.svc, r.svc) = "equal"
           /\ ~r.svc.unknown
<1>1. r \in PlainRule /\ ~r.svc.unknown
  BY AcceptIsPlain, CanWidenCells DEF CanWiden
<1>2. p.flow \in Flows
  BY DEF Packets
<1> DEFINE w == Added(r, d)
<1>3. /\ w.enabled = r.enabled /\ w.cond = r.cond /\ w.holds = r.holds
      /\ w.src.real = IF d = "src" THEN r.src.real \cup req.src ELSE r.src.real
      /\ w.dst.real = IF d = "dst" THEN r.dst.real \cup req.dst ELSE r.dst.real
      /\ FlowMatches(w.svc, p.flow) <=>
           FlowMatches(r.svc, p.flow) \/ (d = "svc" /\ FlowMatches(req.obj, p.flow))
  BY <1>1, <1>2, AddedIs
<1>4. r.enabled /\ ~r.cond
  BY DEF CanWiden
<1>5. Matches(r, p) <=> p.src \in r.src.real /\ p.dst \in r.dst.real /\ FlowMatches(r.svc, p.flow)
  BY <1>4 DEF Matches
<1>6. Matches(w, p) <=> p.src \in w.src.real /\ p.dst \in w.dst.real /\ FlowMatches(w.svc, p.flow)
  BY <1>3, <1>4 DEF Matches
<1> HIDE DEF w
<1>7. p.src \in w.src.real <=> p.src \in r.src.real \/ (d = "src" /\ p.src \in req.src)
  BY <1>3
<1>8. p.dst \in w.dst.real <=> p.dst \in r.dst.real \/ (d = "dst" /\ p.dst \in req.dst)
  BY <1>3
<1>9. /\ d # "src" => r.src.real = req.src
      /\ d # "dst" => r.dst.real = req.dst
      /\ d # "svc" => ServiceRelation(req.svc, r.svc) = "equal"
  BY CanWidenCells
<1> QED
  BY <1>1, <1>3, <1>5, <1>6, <1>7, <1>8, <1>9 DEF w

\* A rule that is widened to the request matches what it matched, and what was asked for.
LEMMA WideningAdds ==
    ASSUME NEW r \in AnyRule, NEW d \in Columns, CanWiden(r, d), req \in Request,
           NEW p \in Packets
    PROVE  /\ Matches(r, p) => Matches(Added(r, d), p)
           /\ p \in Asked(req) /\ ~Misjudged(r) /\ ~Blank(req.svc) => Matches(Added(r, d), p)
<1>1. Matches(r, p) => Matches(Added(r, d), p)
  BY WideningMatches
<1>2. ASSUME p \in Asked(req), ~Misjudged(r), ~Blank(req.svc) PROVE Matches(Added(r, d), p)
  <2>1. p.src \in req.src /\ p.dst \in req.dst /\ FlowMatches(req.obj, p.flow) /\ p.flow \in Flows
    BY <1>2 DEF Asked, Packets
  <2>2. ASSUME d # "svc" PROVE FlowMatches(r.svc, p.flow)
    <3>1. Covered(ServiceRelation(req.svc, r.svc)) /\ ~r.svc.unknown
      BY <2>2, WideningMatches DEF Covered
    <3>2. r.svc \in ServiceCell /\ req.svc \in Service
      BY RuleFields DEF Request
    <3>3. Wanted(req.svc, p.flow) /\ ~Halves(req.svc, r.svc)
      BY <1>2, <2>1, UnderstoodIs DEF Misjudged, Legible
    <3> QED
      BY <1>2, <2>1, <3>1, <3>2, <3>3, ServiceCovers
  <2>3. d \in {"src", "dst", "svc"}
    BY DEF Columns
  <2> QED
    BY <2>1, <2>2, <2>3, WideningMatches
<1> QED
  BY <1>1, <1>2

\* A rule that is widened to the request matches nothing else that it did not match.
LEMMA WideningOnlyAdds ==
    ASSUME NEW r \in AnyRule, NEW d \in Columns, CanWiden(r, d), req \in Request,
           Understood(req), ~Loose(req.svc, r.svc), NEW p \in Packets, p \notin Asked(req)
    PROVE  Matches(Added(r, d), p) <=> Matches(r, p)
<1>1. ~(p.src \in req.src /\ p.dst \in req.dst /\ FlowMatches(req.obj, p.flow)) /\ p.flow \in Flows
  BY DEF Asked, Packets
<1>2. ASSUME d # "svc", FlowMatches(r.svc, p.flow) PROVE FlowMatches(req.obj, p.flow)
  <2>1. ServiceRelation(req.svc, r.svc) = "equal" /\ ~r.svc.unknown
    BY <1>2, WideningMatches
  <2>2. r.svc \in ServiceCell /\ req.svc \in Service
    BY RuleFields DEF Request
  <2>3. Wanted(req.svc, p.flow)
    BY <1>1, <1>2, <2>1, <2>2, ServiceEquals
  <2> QED
    BY <2>3, UnderstoodIs
<1>3. d \in {"src", "dst", "svc"}
  BY DEF Columns
<1> QED
  BY <1>1, <1>2, <1>3, WideningMatches

---------------------------------------------------------------------------
(* A changed layer decides as before on what was not asked for              *)

\* A decision fits the layer it is about.
Fits(d, layer) ==
    /\ d.outcome \in {"create", "widen", "noop"}
    /\ d.outcome = "create" => d.pos \in 1 .. Len(layer) + 1
    /\ d.outcome = "widen" =>
         /\ d.at \in 1 .. Len(layer)
         /\ d.field \in Columns
         /\ CanWiden(layer[d.at], d.field)

LEMMA ChangedIs ==
    ASSUME NEW layer
    PROVE  /\ decision.outcome = "create" => Changed(layer) = InsertAt(layer, decision.pos, NewRule)
           /\ decision.outcome = "widen" =>
                Changed(layer) = [layer EXCEPT ![decision.at] = Added(@, decision.field)]
           /\ decision.outcome = "noop" => Changed(layer) = layer
<1>1. ASSUME decision.outcome = "create" PROVE Changed(layer) = InsertAt(layer, decision.pos, NewRule)
  <2>1. decision.outcome # "widen" /\ decision.outcome # "noop"
    BY <1>1
  <2> QED
    BY Zenon, <1>1, <2>1 DEF Changed
<1>2. ASSUME decision.outcome = "widen"
      PROVE Changed(layer) = [layer EXCEPT ![decision.at] = Added(@, decision.field)]
  <2>1. decision.outcome # "create" /\ decision.outcome # "noop"
    BY <1>2
  <2> QED
    BY Zenon, <1>2, <2>1 DEF Changed
<1>3. ASSUME decision.outcome = "noop" PROVE Changed(layer) = layer
  <2>1. decision.outcome # "create" /\ decision.outcome # "widen"
    BY <1>3
  <2> QED
    BY Zenon, <1>3, <2>1 DEF Changed
<1> QED
  BY <1>1, <1>2, <1>3

\* What a decision writes into a layer changes nothing for a packet not asked for.
LEMMA ChangedSame ==
    ASSUME NEW layer \in Seq(AnyRule), Fits(decision, layer), req \in Request, Understood(req),
           \A k \in 1 .. Len(layer) : ~Loose(req.svc, layer[k].svc),
           NEW p \in Packets, p \notin Asked(req)
    PROVE  SameHit(layer, Changed(layer), p)
<1>1. CASE decision.outcome = "create"
  <2>1. decision.pos \in 1 .. Len(layer) + 1
    BY <1>1 DEF Fits
  <2>2. NewRule \in AnyRule /\ ~Matches(NewRule, p)
    BY NewRuleIs DEF AnyRule
  <2> DEFINE new == InsertAt(layer, decision.pos, NewRule)
  <2>3. /\ (FirstHit(new, p) = 0) = (FirstHit(layer, p) = 0)
        /\ FirstHit(layer, p) # 0 => new[FirstHit(new, p)] = layer[FirstHit(layer, p)]
    BY <2>1, <2>2, InsertedElsewhere
  <2> HIDE DEF new
  <2>4. SameHit(layer, new, p)
    BY <2>3 DEF SameHit
  <2> QED
    BY <1>1, <2>4, ChangedIs DEF new
<1>2. CASE decision.outcome = "widen"
  <2> DEFINE i == decision.at
             r == layer[i]
             w == Added(r, decision.field)
  <2>1. i \in 1 .. Len(layer) /\ decision.field \in Columns /\ CanWiden(r, decision.field)
    BY <1>2 DEF Fits
  <2>2. r \in AnyRule
    BY <2>1
  <2>3. r \in PlainRule /\ ~r.svc.unknown
    BY <2>1, <2>2, AcceptIsPlain, CanWidenCells DEF CanWiden
  <2>4. w \in PlainRule /\ w.verdict = r.verdict
    BY <2>1, <2>3, AddedIs
  <2>5. Matches(w, p) <=> Matches(r, p)
    BY <2>1, <2>2, WideningOnlyAdds
  <2>6. RuleVerdict(w, p) = RuleVerdict(r, p)
    BY <2>3, <2>4, PlainVerdict
  <2>7. w \in AnyRule
    BY <2>4 DEF AnyRule
  <2> HIDE DEF w
  <2>8. SameHit(layer, [layer EXCEPT ![i] = w], p)
    BY <2>1, <2>5, <2>6, <2>7, ReplacedSame
  <2>9. Changed(layer) = [layer EXCEPT ![i] = w]
    BY <1>2, ChangedIs DEF w
  <2> QED
    BY <2>8, <2>9
<1>3. CASE decision.outcome = "noop"
  BY <1>3, ChangedIs DEF SameHit
<1> QED
  BY <1>1, <1>2, <1>3 DEF Fits

\* What a decision writes into a layer is a rule of it.
LEMMA ChangedTyped ==
    ASSUME NEW S \in {PlainRule, AnyRule}, NEW layer \in Seq(S), Fits(decision, layer), req \in Request
    PROVE  Changed(layer) \in Seq(S)
<1>1. PlainRule \subseteq S /\ S \subseteq AnyRule
  BY DEF AnyRule
<1>2. CASE decision.outcome = "create"
  <2>1. decision.pos \in 1 .. Len(layer) + 1 /\ NewRule \in S
    BY <1>1, <1>2, NewRuleIs DEF Fits
  <2> QED
    BY <1>2, <2>1, InsertIs, ChangedIs
<1>3. CASE decision.outcome = "widen"
  <2> DEFINE w == Added(layer[decision.at], decision.field)
  <2>1. /\ decision.at \in 1 .. Len(layer) /\ decision.field \in Columns
        /\ CanWiden(layer[decision.at], decision.field)
    BY <1>3 DEF Fits
  <2>2. layer[decision.at] \in AnyRule
    BY <1>1, <2>1
  <2>3. layer[decision.at] \in PlainRule /\ ~layer[decision.at].svc.unknown
    BY <2>1, <2>2, AcceptIsPlain, CanWidenCells DEF CanWiden
  <2>4. w \in S
    BY <1>1, <2>1, <2>3, AddedIs
  <2> HIDE DEF w
  <2>5. [layer EXCEPT ![decision.at] = w] \in Seq(S)
    BY <2>1, <2>4
  <2> QED
    BY <1>3, <2>5, ChangedIs DEF w
<1>4. CASE decision.outcome = "noop"
  BY <1>4, ChangedIs
<1> QED
  BY <1>2, <1>3, <1>4 DEF Fits

\* The layer the decision is about.
DecidedIn(d) == IF d.in = 0 THEN rules ELSE rules[d.in].inline

\* Where the decision is about an inline layer, a rule of the layer applies it.
InLayer(d) ==
    \/ d.in = 0
    \/ d.in \in 1 .. Len(rules) /\ rules[d.in] \in LayerRule

\* The request's service is read in full, and so is that of a rule which equals it.
ReadInFull == Understood(req) /\ \A r \in AllRules : ~Loose(req.svc, r.svc)

\* Applying a decision keeps the layer a layer, and changes the verdict of no packet that was
\* not asked for.
LEMMA AppliedIs ==
    ASSUME rules \in Seq(AnyRule), InLayer(decision), Fits(decision, DecidedIn(decision)),
           req \in Request
    PROVE  /\ Applied \in Seq(AnyRule)
           /\ ReadInFull => \A p \in Packets \ Asked(req) : Verdict(Applied, p) = Verdict(rules, p)
<1>1. CASE decision.in = 0
  <2>1. DecidedIn(decision) = rules /\ Applied = Changed(rules)
    BY <1>1 DEF DecidedIn, Applied
  <2>2. Changed(rules) \in Seq(AnyRule)
    BY <2>1, ChangedTyped
  <2>3. ASSUME ReadInFull, NEW p \in Packets \ Asked(req)
        PROVE  Verdict(Applied, p) = Verdict(rules, p)
    <3>1. \A k \in 1 .. Len(rules) : rules[k] \in AllRules
      BY DEF AllRules
    <3>2. SameHit(rules, Changed(rules), p)
      BY <2>1, <2>3, <3>1, ChangedSame DEF ReadInFull
    <3> QED
      BY <2>1, <2>2, <3>2, SameHitVerdict
  <2> QED
    BY <2>1, <2>2, <2>3
<1>2. CASE decision.in # 0
  <2> DEFINE i == decision.in
             r == rules[i]
             new == Changed(r.inline)
             x == [r EXCEPT !.inline = new]
  <2>1. i \in 1 .. Len(rules) /\ r \in LayerRule /\ DecidedIn(decision) = r.inline
    BY <1>2 DEF InLayer, DecidedIn
  <2>2. r.inline \in Seq(PlainRule)
    BY <2>1 DEF LayerRule, RuleOf
  <2>3. new \in Seq(PlainRule)
    BY <2>1, <2>2, ChangedTyped
  <2>4. Applied = [rules EXCEPT ![i] = x]
    BY <1>2 DEF Applied
  <2>5. ASSUME ReadInFull, NEW p \in Packets \ Asked(req) PROVE SameHit(r.inline, new, p)
    <3>1. r.inline \in Seq(AnyRule)
      BY <2>2, PlainAreRules
    <3>2. \A k \in 1 .. Len(r.inline) : r.inline[k] \in AllRules
      BY <2>1, <2>2 DEF AllRules
    <3> QED
      BY <2>1, <2>5, <3>1, <3>2, ChangedSame DEF ReadInFull
  <2> HIDE DEF new
  <2>6. x \in LayerRule /\ x.layered /\ r.layered /\ \A p : Matches(x, p) <=> Matches(r, p)
    BY <2>1, <2>3, InlineTyped
  <2>7. x \in AnyRule
    BY <2>6 DEF AnyRule
  <2>8. ASSUME ReadInFull, NEW p \in Packets \ Asked(req) PROVE RuleVerdict(x, p) = RuleVerdict(r, p)
    <3>1. InlineVerdict(x, p) = InlineVerdict(r, p)
      BY <2>1, <2>3, <2>5, <2>8, SameHitInline
    <3> HIDE DEF x
    <3> QED
      BY <2>6, <3>1 DEF RuleVerdict
  <2> HIDE DEF x
  <2>9. ASSUME ReadInFull, NEW p \in Packets \ Asked(req)
        PROVE  [rules EXCEPT ![i] = x] \in Seq(AnyRule) /\ SameHit(rules, [rules EXCEPT ![i] = x], p)
    BY <2>1, <2>6, <2>7, <2>8, <2>9, ReplacedSame
  <2>10. [rules EXCEPT ![i] = x] \in Seq(AnyRule)
    BY <2>1, <2>7
  <2>11. ASSUME ReadInFull, NEW p \in Packets \ Asked(req)
         PROVE  Verdict(Applied, p) = Verdict(rules, p)
    BY <2>4, <2>9, <2>11, SameHitVerdict
  <2> QED
    BY <2>4, <2>10, <2>11
<1> QED
  BY <1>1, <1>2

---------------------------------------------------------------------------
(* The invariant: what the walk has established of the rules it passed       *)

\* No packet asked for is stopped by the rule: one that it matches is accepted.
LetsThrough(r) == \A p \in Asked(req) : Matches(r, p) => ~r.layered /\ r.verdict = "accept"

MatchesAsked(r) == \A p \in Asked(req) : Matches(r, p)

\* The rule is no possible deny, or denies no packet asked for.
Harmless(r) == PossibleDeny(r) => \A p \in Asked(req) : Matches(r, p) => RuleVerdict(r, p) # "drop"

\* What the walk of a block request passes.
Apart(r) == ~r.enabled \/ r.dynamic \/ OutOfPath(req, r)

\* The conditions of UnnotedAnswerHolds, but for those on the answer.
Promised ==
    /\ req.action = "accept" /\ ~req.restricted /\ MakesItWork
    /\ \A r \in AllRules : ~Misjudged(r)

\* What is known in a layer of the rules above the n-th, when m is remembered.
Remembers(layer, m, n) ==
    /\ m \in Memory(n - 1)
    /\ m.target # 0 => CanWiden(layer[m.target], m.field)
    /\ m.floor # 0 => \A k \in m.floor + 1 .. Len(layer) : ~layer[k].enabled
    /\ m.floor # 0 => Harmless(layer[m.floor])
    /\ m.floor # 0 => layer[m.floor].action = "drop"
    /\ req.action = "block" => \A k \in 1 .. n - 1 : Apart(layer[k])
    /\ req.action = "accept" /\ ~m.doubt => \A k \in 1 .. n - 1 : Harmless(layer[k])
    /\ Promised /\ ~m.doubt => \A k \in 1 .. n - 1 : k = m.floor \/ LetsThrough(layer[k])

\* What is known of the rules above the one whose inline layer is walked.
Entered(in, outer) ==
    /\ in \in 1 .. Len(rules) /\ rules[in] \in LayerRule /\ req.action = "accept"
    /\ Promised => MatchesAsked(rules[in])
    /\ Promised /\ ~outer.doubt => \A k \in 1 .. in - 1 : LetsThrough(rules[k])

WalkSound ==
    /\ cursor.in = 0 \/ Entered(cursor.in, cursor.outer)
    /\ cursor \in [in : Nat, at : 1 .. Len(Here) + 1, outer : Memory(cursor.in)]
    /\ Remembers(Here, walk, cursor.at)

Answer ==
    [outcome : {"create", "widen", "noop"}, in : Nat, at : Nat, pos : Nat, field : Columns,
     noted : BOOLEAN, doubt : BOOLEAN, stop : Nat]

\* The answer to a block request.
Blocks(d) ==
    \/ d.outcome = "create" /\ \A k \in 1 .. d.pos - 1 : Apart(rules[k])
    \/ /\ d.outcome = "noop" /\ d.at \in 1 .. Len(rules)
       /\ rules[d.at].enabled /\ rules[d.at].action = "drop" /\ ~rules[d.at].dynamic
       /\ Settled(rules[d.at])
       /\ \A k \in 1 .. d.at - 1 : Apart(rules[k])

\* Where a rule is written or named that settles an access request, nothing above it says no.
Grants(d, layer) ==
    /\ d.outcome = "create" => \A k \in 1 .. d.pos - 1 : LetsThrough(layer[k])
    /\ d.outcome # "create" => \A k \in 1 .. d.at - 1 : LetsThrough(layer[k])
    /\ d.outcome = "noop" =>
         /\ d.at \in 1 .. Len(layer)
         /\ MatchesAsked(layer[d.at])
         /\ \/ LetsThrough(layer[d.at])
            \/ /\ layer[d.at] \in LayerRule /\ layer[d.at].cleanup = "accept"
               /\ \A k \in 1 .. Len(layer[d.at].inline) : LetsThrough(layer[d.at].inline[k])

\* A rule is written below every possible deny the walk has passed, but for the exceptions
\* LeapsNoPossibleDeny names.
StaysBelow(d, layer) ==
    /\ d.outcome = "create" /\ req.action # "block" =>
         \A k \in d.pos .. Len(layer) :
            k > d.stop \/ Harmless(layer[k]) \/ (d.at = 0 /\ d.pos = Len(layer) /\ k = Len(layer))
    /\ d.outcome = "widen" =>
         \A k \in 1 .. Len(layer) :
            k > d.stop \/ d.doubt \/ Harmless(layer[k]) \/ (k = d.stop /\ layer[k].dynamic)

AnswerSound(d) ==
    /\ d \in Answer /\ InLayer(d) /\ Fits(d, DecidedIn(d))
    /\ d.in # 0 => req.action = "accept"
    /\ d.outcome = "widen" => req.action = "accept"
    /\ req.action = "block" => Blocks(d)
    /\ StaysBelow(d, DecidedIn(d))
    /\ Promised /\ ~d.doubt =>
         /\ Grants(d, DecidedIn(d))
         /\ d.in # 0 => /\ MatchesAsked(rules[d.in])
                        /\ \A k \in 1 .. d.in - 1 : LetsThrough(rules[k])

IInv ==
    /\ rules \in Seq(AnyRule) /\ req \in Requests /\ opts \in Settings
    /\ applied \in 0 .. MaxApplied
    /\ WalkSound
    /\ decision \in {Pending, Incomplete} \/ AnswerSound(decision)
    /\ Answered => ~Empty

---------------------------------------------------------------------------
(* The branches of the walk                                                 *)

\* What _decide() knows of a rule in each branch.
LEMMA AcceptBranchIs ==
    ASSUME NEW r \in AnyRule
    PROVE  /\ AcceptBranch(r) = "skip" =>
                \/ ~r.enabled \/ ~Interferes(req, r)
                \/ r.action = "accept" /\ ~r.dynamic /\ ~r.layered
           /\ AcceptBranch(r) = "note" => r.action = "accept" /\ ~r.dynamic /\ ~r.layered
           /\ AcceptBranch(r) = "consider" =>
                /\ r.enabled /\ ~r.dynamic
                /\ \/ ~Interferes(req, r)
                   \/ /\ ~r.layered /\ r.action # "other"
                      /\ r.action = "drop" => CatchAll(r) /\ ~Within(req, r)
           /\ AcceptBranch(r) = "divert" => r.enabled /\ r.dynamic
           /\ AcceptBranch(r) = "carve" => r.enabled /\ ~r.dynamic /\ Carveable(r)
           /\ AcceptBranch(r) = "enter" =>
                /\ r.enabled /\ ~r.dynamic /\ r.layered
                /\ ~Conditional(r) /\ ~Unresolved(r) /\ Within(req, r)
           /\ AcceptBranch(r) = "granted" =>
                /\ r.enabled /\ ~r.dynamic /\ ~r.layered /\ r.action = "accept"
                /\ ~Conditional(r) /\ ~Unresolved(r) /\ Within(req, r)
           /\ AcceptBranch(r) = "floor" =>
                /\ r.enabled /\ ~r.dynamic /\ r.action = "drop" /\ IsFloor
                /\ ~Conditional(r) /\ ~Unresolved(r) /\ ~Unproven(r)
           /\ AcceptBranch(r) = "blocked" =>
                /\ r.enabled /\ ~r.dynamic /\ r.action = "drop"
                /\ ~Conditional(r) /\ ~Unresolved(r) /\ ~ServiceIndeterminate(req.svc, r.svc)
                /\ Approximate(r) => Within(req, r)
           /\ AcceptBranch(r) \notin {"above", "last", "doubtful"}
<1>1. /\ r.enabled \in BOOLEAN /\ r.dynamic \in BOOLEAN /\ r.layered \in BOOLEAN
      /\ r.action \in {"accept", "drop", "other"}
  BY RuleFields
<1> DEFINE rest ==
           IF r.dynamic THEN "divert"
           ELSE IF Carveable(r) THEN "carve"
           ELSE IF r.layered
                THEN IF Conditional(r) \/ Unresolved(r) \/ ~Within(req, r) THEN "doubt"
                     ELSE "enter"
           ELSE IF Opaque(r)
                THEN IF r.action = "accept"
                     THEN IF CantCover(req, r) THEN "skip" ELSE "note"
                     ELSE "doubt"
           ELSE IF Conditional(r) THEN IF r.action = "accept" THEN "skip" ELSE "doubt"
           ELSE IF Unproven(r)
                THEN IF /\ ~ServiceIndeterminate(req.svc, r.svc)
                        /\ Within(req, r)
                        /\ ~IsFloor
                     THEN "blocked" ELSE "doubt"
           ELSE IF Within(req, r)
                THEN IF r.action = "accept" THEN "granted"
                     ELSE IF IsFloor THEN "floor" ELSE "blocked"
           ELSE IF r.action = "drop" /\ ~CatchAll(r) THEN "blocked"
           ELSE "consider"
<1>2. ~r.enabled => AcceptBranch(r) = "skip"
  BY DEF AcceptBranch
<1>3. r.enabled /\ ~Interferes(req, r) => AcceptBranch(r) = IF r.dynamic THEN "skip" ELSE "consider"
  BY DEF AcceptBranch
<1>4. r.enabled /\ Interferes(req, r) => AcceptBranch(r) = rest
  BY DEF AcceptBranch
<1>5. ~Opaque(r) => ~Unresolved(r) /\ r.action # "other"
  BY DEF Opaque
<1>6. ~Unproven(r) /\ r.action = "drop" => ~ServiceIndeterminate(req.svc, r.svc) /\ ~Approximate(r)
  BY DEF Unproven
<1>7. CASE ~r.enabled
  BY <1>2, <1>7
<1>8. CASE r.enabled /\ ~Interferes(req, r)
  BY <1>3, <1>8
<1>9. CASE r.enabled /\ Interferes(req, r)
  <2> DEFINE b == AcceptBranch(r)
  <2>1. b = rest
    BY <1>4, <1>9
  <2> HIDE DEF b
  <2>2. ASSUME r.dynamic PROVE b = "divert"
    BY <2>1, <2>2
  <2>3. ASSUME ~r.dynamic, Carveable(r) PROVE b = "carve"
    BY <2>1, <2>3
  <2>4. ASSUME ~r.dynamic, ~Carveable(r), r.layered
        PROVE  \/ b = "doubt"
               \/ b = "enter" /\ ~Conditional(r) /\ ~Unresolved(r) /\ Within(req, r)
    BY <2>1, <2>4
  <2>5. ASSUME ~r.dynamic, ~Carveable(r), ~r.layered, Opaque(r)
        PROVE  b = "doubt" \/ (b \in {"skip", "note"} /\ r.action = "accept")
    BY <2>1, <2>5
  <2>6. ASSUME ~r.dynamic, ~Carveable(r), ~r.layered, ~Opaque(r), Conditional(r)
        PROVE  b = "doubt" \/ (b = "skip" /\ r.action = "accept")
    BY <2>1, <2>6
  <2>7. ASSUME ~r.dynamic, ~Carveable(r), ~r.layered, ~Opaque(r), ~Conditional(r), Unproven(r)
        PROVE  \/ b = "doubt"
               \/ b = "blocked" /\ ~ServiceIndeterminate(req.svc, r.svc) /\ Within(req, r)
    BY <2>1, <2>7
  <2>8. ASSUME ~r.dynamic, ~Carveable(r), ~r.layered, ~Opaque(r), ~Conditional(r), ~Unproven(r),
               Within(req, r)
        PROVE  \/ b = "granted" /\ r.action = "accept"
               \/ b = "floor" /\ r.action # "accept" /\ IsFloor
               \/ b = "blocked" /\ r.action # "accept"
    BY <2>1, <2>8
  <2>9. ASSUME ~r.dynamic, ~Carveable(r), ~r.layered, ~Opaque(r), ~Conditional(r), ~Unproven(r),
               ~Within(req, r)
        PROVE  \/ b = "blocked" /\ r.action = "drop"
               \/ b = "consider" /\ (r.action = "drop" => CatchAll(r))
    BY <2>1, <2>9
  <2>10. CASE r.dynamic
    BY <1>9, <2>2, <2>10 DEF b
  <2>11. CASE ~r.dynamic /\ Carveable(r)
    BY <1>9, <2>3, <2>11 DEF b
  <2>12. CASE ~r.dynamic /\ ~Carveable(r) /\ r.layered
    BY <1>9, <2>4, <2>12 DEF b
  <2>13. CASE ~r.dynamic /\ ~Carveable(r) /\ ~r.layered /\ Opaque(r)
    BY <1>9, <2>5, <2>13 DEF b
  <2>14. CASE ~r.dynamic /\ ~Carveable(r) /\ ~r.layered /\ ~Opaque(r) /\ Conditional(r)
    BY <1>9, <2>6, <2>14 DEF b
  <2>15. CASE ~r.dynamic /\ ~Carveable(r) /\ ~r.layered /\ ~Opaque(r) /\ ~Conditional(r) /\ Unproven(r)
    <3>1. r.action = "drop"
      BY <2>15 DEF Unproven
    <3> QED
      BY <1>5, <1>9, <2>7, <2>15, <3>1 DEF b
  <2>16. CASE /\ ~r.dynamic /\ ~Carveable(r) /\ ~r.layered /\ ~Opaque(r) /\ ~Conditional(r) /\ ~Unproven(r)
              /\ Within(req, r)
    BY <1>1, <1>5, <1>6, <1>9, <2>8, <2>16 DEF b
  <2>17. CASE /\ ~r.dynamic /\ ~Carveable(r) /\ ~r.layered /\ ~Opaque(r) /\ ~Conditional(r) /\ ~Unproven(r)
              /\ ~Within(req, r)
    BY <1>1, <1>5, <1>6, <1>9, <2>9, <2>17 DEF b
  <2> QED
    BY <2>10, <2>11, <2>12, <2>13, <2>14, <2>15, <2>16, <2>17
<1> QED
  BY <1>7, <1>8, <1>9

LEMMA OtherBranchIs ==
    ASSUME NEW r \in AnyRule, req \in Request
    PROVE  /\ OtherBranch(r) = "skip" => Apart(r)
           /\ OtherBranch(r) # "skip" => r.enabled /\ ~r.dynamic
           /\ OtherBranch(r) = "granted" => req.action = "block" /\ r.action = "drop" /\ Settled(r)
           /\ OtherBranch(r) = "blocked" => req.action # "block" /\ r.action = "drop" /\ Settled(r)
           /\ OtherBranch(r) = "above" /\ req.action # "block" => r.action = "accept"
           /\ OtherBranch(r) \in {"last", "doubtful"} => req.action # "block"
           /\ OtherBranch(r) \in {"skip", "granted", "above", "blocked", "last", "doubtful"}
BY RuleFields DEF OtherBranch, Apart

\* A resolved rule that is out of the way, or whose verdict is not a drop, is no possible deny.
LEMMA ApartIsHarmless ==
    ASSUME NEW r \in AnyRule, req \in Request, ~r.enabled \/ OutOfPath(req, r)
    PROVE  /\ Harmless(r)
           /\ ~Misjudged(r) => LetsThrough(r)
<1>1. ASSUME NEW p \in Asked(req), ~Misjudged(r) PROVE ~Matches(r, p)
  <2>1. CASE ~r.enabled
    BY <2>1 DEF Matches
  <2>2. CASE OutOfPath(req, r)
    BY <1>1, <2>2, OutOfPathMisses
  <2> QED
    BY <2>1, <2>2
<1>2. PossibleDeny(r) => ~Misjudged(r)
  BY DEF PossibleDeny
<1> QED
  BY <1>1, <1>2 DEF Harmless, LetsThrough

LEMMA AcceptIsHarmless ==
    ASSUME NEW r \in AnyRule, r.action = "accept", ~r.dynamic
    PROVE  Harmless(r) /\ LetsThrough(r) /\ ~r.layered
<1>1. ~r.layered /\ r.verdict = "accept"
  BY RuleFields
<1> QED
  BY <1>1 DEF Harmless, LetsThrough, RuleVerdict

\* A rule on everything covers every request that is complete.
LEMMA CatchAllCovers ==
    ASSUME NEW r \in AnyRule, req \in Request, ~Empty, CatchAll(r)
    PROVE  Within(req, r)
<1>1. req.src \subseteq r.src.seen /\ req.src # {} /\ req.dst \subseteq r.dst.seen /\ req.dst # {}
  BY DEF Request, CatchAll, Empty
<1>2. Covered(Relation(req.src, r.src.seen))
  BY <1>1, RelationIs
<1>3. Covered(Relation(req.dst, r.dst.seen))
  BY <1>1, RelationIs
<1>4. req.svc \in Service /\ r.svc \in ServiceCell /\ r.svc.any
  BY RuleFields DEF Request, Service, CatchAll
<1>5. req.svc.any \in BOOLEAN
  BY <1>4 DEF Service
<1>6. Covered(ServiceRelation(req.svc, r.svc))
  BY <1>4, <1>5, ServiceRelationIs DEF Covered
<1> QED
  BY <1>2, <1>3, <1>6 DEF Within, Rel

---------------------------------------------------------------------------
(* While the layer, the request and the settings stay, so does what is known *)

Same == UNCHANGED <<rules, req, opts>>

LEMMA SameRule ==
    ASSUME Same, NEW r, NEW d
    PROVE  /\ LetsThrough(r)' <=> LetsThrough(r)
           /\ MatchesAsked(r)' <=> MatchesAsked(r)
           /\ Harmless(r)' <=> Harmless(r)
           /\ Apart(r)' <=> Apart(r)
           /\ CanWiden(r, d)' <=> CanWiden(r, d)
           /\ Settled(r)' <=> Settled(r)
           /\ Misjudged(r)' <=> Misjudged(r)
<1>1. rules' = rules /\ req' = req /\ opts' = opts
  BY DEF Same
<1>2. Misjudged(r)' <=> Misjudged(r)
  BY <1>1 DEF Misjudged, TrustedApart
<1>3. PossibleDeny(r)' <=> PossibleDeny(r)
  BY <1>1, <1>2 DEF PossibleDeny
<1>4. Harmless(r)' <=> Harmless(r)
  BY <1>1, <1>3 DEF Harmless
<1>5. Exact(r, d)' <=> Exact(r, d)
  BY <1>1 DEF Exact
<1>6. CanWiden(r, d)' <=> CanWiden(r, d)
  BY <1>1 DEF CanWiden, Exact
<1> QED
  BY <1>1, <1>2, <1>4, <1>6 DEF LetsThrough, MatchesAsked, Apart, Settled

LEMMA SamePromise ==
    ASSUME Same
    PROVE  Promised' <=> Promised
<1>1. rules' = rules /\ req' = req /\ opts' = opts
  BY DEF Same
<1>2. AllRules' = AllRules
  BY <1>1 DEF AllRules
<1>3. \A r : Misjudged(r)' <=> Misjudged(r)
  BY SameRule
<1> QED
  BY <1>1, <1>2, <1>3 DEF Promised, MakesItWork

LEMMA SameMemory ==
    ASSUME Same, NEW layer, NEW m, NEW n
    PROVE  Remembers(layer, m, n)' <=> Remembers(layer, m, n)
<1>1. req' = req
  BY DEF Same
<1> DEFINE P1 == m.target # 0 => CanWiden(layer[m.target], m.field)
           P2 == m.floor # 0 => Harmless(layer[m.floor])
           P3 == req.action = "block" => \A k \in 1 .. n - 1 : Apart(layer[k])
           P4 == req.action = "accept" /\ ~m.doubt => \A k \in 1 .. n - 1 : Harmless(layer[k])
           P5 == Promised /\ ~m.doubt => \A k \in 1 .. n - 1 : k = m.floor \/ LetsThrough(layer[k])
<1>2. P1' <=> P1
  BY SameRule
<1>3. P2' <=> P2
  BY SameRule
<1>4. P3' <=> P3
  BY <1>1, SameRule
<1>5. P4' <=> P4
  BY <1>1, SameRule
<1>6. P5' <=> P5
  BY SameRule, SamePromise
<1> QED
  BY <1>2, <1>3, <1>4, <1>5, <1>6 DEF Remembers

LEMMA SameEntered ==
    ASSUME Same, NEW in, NEW outer
    PROVE  Entered(in, outer)' <=> Entered(in, outer)
<1>1. rules' = rules /\ req' = req
  BY DEF Same
<1> DEFINE P1 == MatchesAsked(rules[in])
           P2 == \A k \in 1 .. in - 1 : LetsThrough(rules[k])
<1>2. P1' <=> P1
  BY <1>1, SameRule
<1>3. P2' <=> P2
  BY <1>1, SameRule
<1> QED
  BY <1>1, <1>2, <1>3, SamePromise DEF Entered

LEMMA SameAnswer ==
    ASSUME Same, NEW d
    PROVE  AnswerSound(d)' <=> AnswerSound(d)
<1>1. rules' = rules /\ req' = req
  BY DEF Same
<1> DEFINE layer == DecidedIn(d)
<1>2. layer' = layer
  BY <1>1 DEF DecidedIn
<1> HIDE DEF layer
<1>3. Fits(d, layer)' <=> Fits(d, layer)
  BY <1>2, SameRule DEF Fits
<1>4. Blocks(d)' <=> Blocks(d)
  BY <1>1, SameRule DEF Blocks
<1>5. StaysBelow(d, layer)' <=> StaysBelow(d, layer)
  BY <1>1, <1>2, SameRule DEF StaysBelow
<1>6. Grants(d, layer)' <=> Grants(d, layer)
  <2> DEFINE P1 == d.outcome = "create" => \A k \in 1 .. d.pos - 1 : LetsThrough(layer[k])
             P2 == d.outcome # "create" => \A k \in 1 .. d.at - 1 : LetsThrough(layer[k])
             P3 == MatchesAsked(layer[d.at])
             P4 == LetsThrough(layer[d.at])
             P5 == \A k \in 1 .. Len(layer[d.at].inline) : LetsThrough(layer[d.at].inline[k])
  <2>1. (P1' <=> P1) /\ (P2' <=> P2)
    BY <1>2, SameRule
  <2>2. (P3' <=> P3) /\ (P4' <=> P4)
    BY <1>2, SameRule
  <2>3. P5' <=> P5
    BY <1>2, SameRule
  <2> QED
    BY <1>2, <2>1, <2>2, <2>3 DEF Grants
<1>7. InLayer(d)' <=> InLayer(d)
  BY <1>1 DEF InLayer
<1> DEFINE P1 == MatchesAsked(rules[d.in])
           P2 == \A k \in 1 .. d.in - 1 : LetsThrough(rules[k])
<1>8. (P1' <=> P1) /\ (P2' <=> P2)
  BY <1>1, SameRule
<1> QED
  BY <1>1, <1>2, <1>3, <1>4, <1>5, <1>6, <1>7, <1>8, SamePromise DEF AnswerSound, layer

---------------------------------------------------------------------------
(* The rule under the cursor                                                *)

\* The layer under the cursor is one, and its rules are among those of the whole.
LEMMA HereIs ==
    ASSUME IInv
    PROVE  /\ Here \in Seq(AnyRule)
           /\ cursor.in = 0 => Here = rules
           /\ cursor.in # 0 => Here \in Seq(PlainRule) /\ Here = rules[cursor.in].inline
           /\ req \in Request /\ req.action \in {"accept", "block", "ask"}
           /\ cursor.at \in 1 .. Len(Here) + 1
           /\ \A k \in 1 .. Len(Here) : Here[k] \in AllRules
<1>1. req \in Request
  BY RequestsAssumption DEF IInv
<1>2. rules \in Seq(AnyRule) /\ WalkSound
  BY DEF IInv
<1>3. cursor.at \in 1 .. Len(Here) + 1
  BY <1>2 DEF WalkSound
<1>4. CASE cursor.in = 0
  <2>1. Here = rules
    BY <1>4 DEF Here
  <2>2. \A k \in 1 .. Len(rules) : rules[k] \in AllRules
    BY <1>2 DEF AllRules
  <2> QED
    BY <1>1, <1>2, <1>3, <1>4, <2>1, <2>2 DEF Request
<1>5. CASE cursor.in # 0
  <2> DEFINE r == rules[cursor.in]
  <2>1. cursor.in \in 1 .. Len(rules) /\ r \in LayerRule
    BY <1>2, <1>5 DEF WalkSound, Entered
  <2>2. Here = r.inline /\ r.inline \in Seq(PlainRule)
    BY <1>5, <2>1 DEF Here, LayerRule, RuleOf
  <2>3. Here \in Seq(AnyRule)
    BY <2>2, PlainAreRules
  <2>4. \A k \in 1 .. Len(r.inline) : r.inline[k] \in AllRules
    BY <1>2, <2>1, <2>2 DEF AllRules
  <2> QED
    BY <1>1, <1>3, <1>5, <2>2, <2>3, <2>4 DEF Request
<1> QED
  BY <1>4, <1>5

LEMMA RuleHere ==
    ASSUME IInv, ~Done
    PROVE  /\ cursor.at \in 1 .. Len(Here) /\ cursor.at \in Nat /\ Len(Here) \in Nat
           /\ R = Here[cursor.at] /\ R \in AnyRule /\ R \in AllRules
           /\ Promised => ~Misjudged(R)
<1>1. Here \in Seq(AnyRule) /\ cursor.at \in 1 .. Len(Here) + 1
  BY HereIs
<1>2. cursor.at \in 1 .. Len(Here)
  BY <1>1 DEF Done
<1>3. R = Here[cursor.at]
  BY DEF R
<1>4. R \in AllRules
  BY <1>2, <1>3, HereIs
<1> QED
  BY <1>1, <1>2, <1>3, <1>4 DEF Promised

\* Nothing enabled is below the cleanup.
LEMMA BelowFloor ==
    ASSUME IInv, ~Done, R.enabled
    PROVE  /\ IsFloor => \A k \in cursor.at + 1 .. Len(Here) : ~Here[k].enabled
           /\ walk.floor = 0
<1>1. cursor.at \in 1 .. Len(Here) /\ R = Here[cursor.at] /\ Len(Here) \in Nat
  BY RuleHere
<1>2. ASSUME IsFloor, NEW k \in cursor.at + 1 .. Len(Here), Here[k].enabled PROVE FALSE
  <2> DEFINE on == {i \in DOMAIN Here : Here[i].enabled}
  <2>1. Here \in Seq(AnyRule)
    BY HereIs
  <2>2. on \subseteq 1 .. Len(Here) /\ k \in on
    BY <1>1, <1>2, <2>1
  <2>3. PICK top \in on : \A j \in on : j <= top
    <3> DEFINE gaps == {Len(Here) - i : i \in on}
    <3>1. gaps \subseteq Nat /\ gaps # {}
      BY <1>1, <2>2
    <3>2. PICK x \in gaps : \A y \in gaps : x <= y
      BY <3>1, LeastOf
    <3>3. PICK i \in on : x = Len(Here) - i
      OBVIOUS
    <3>4. ASSUME NEW j \in on PROVE j <= i
      <4>1. Len(Here) - j \in gaps
        OBVIOUS
      <4>2. Len(Here) - i <= Len(Here) - j
        BY <3>2, <3>3, <4>1
      <4>3. i \in 1 .. Len(Here) /\ j \in 1 .. Len(Here)
        BY <2>2
      <4> QED
        BY <1>1, <4>2, <4>3
    <3> QED
      BY <3>4
  <2>4. LastEnabled = CHOOSE i \in on : \A j \in on : j <= i
    BY <2>2 DEF LastEnabled
  <2> HIDE DEF on
  <2>5. \A j \in on : j <= LastEnabled
    BY <2>3, <2>4
  <2>6. k <= cursor.at
    BY <1>2, <2>2, <2>5 DEF IsFloor
  <2> QED
    BY <1>1, <1>2, <2>6
<1>3. walk.floor = 0
  <2>1. Remembers(Here, walk, cursor.at)
    BY DEF IInv, WalkSound
  <2>2. walk.floor \in 0 .. cursor.at - 1
    BY <2>1 DEF Remembers, Memory
  <2>3. ASSUME walk.floor # 0 PROVE FALSE
    <3>1. \A k \in walk.floor + 1 .. Len(Here) : ~Here[k].enabled
      BY <2>1, <2>3 DEF Remembers
    <3>2. cursor.at \in walk.floor + 1 .. Len(Here)
      BY <1>1, <2>2
    <3> QED
      BY <1>1, <3>1, <3>2
  <2> QED
    BY <2>3
<1> QED
  BY <1>2, <1>3

\* A rule the walk of an access request passes without a doubt, or stops at, is harmless; one
\* it passes lets everything through.
LEMMA AcceptHarmless ==
    ASSUME IInv, ~Done, ~Empty, req.action = "accept"
    PROVE  /\ Branch \in {"skip", "note", "consider", "carve", "granted", "floor", "blocked"}
                => Harmless(R)
           /\ Branch \in {"skip", "note", "consider"} /\ Promised => LetsThrough(R)
<1>1. R \in AnyRule /\ (Promised => ~Misjudged(R)) /\ req \in Request
  BY RuleHere, HereIs
<1>2. Branch = AcceptBranch(R)
  BY DEF Branch
<1>3. CASE ~R.enabled \/ ~Interferes(req, R)
  <2>1. Harmless(R) /\ (~Misjudged(R) => LetsThrough(R))
    BY <1>1, <1>3, ApartIsHarmless DEF Interferes
  <2> QED
    BY <1>1, <2>1
<1>4. CASE R.action = "accept" /\ ~R.dynamic
  BY <1>1, <1>4, AcceptIsHarmless
<1>5. CASE R.enabled /\ Interferes(req, R) /\ ~(R.action = "accept" /\ ~R.dynamic)
  <2>1. Branch \notin {"skip", "note", "granted"}
    BY <1>1, <1>2, <1>5, AcceptBranchIs
  <2>2. Branch # "consider"
    <3>1. ASSUME Branch = "consider" PROVE FALSE
      <4>1. R.action # "other" /\ R.action # "accept"
        BY <1>1, <1>2, <1>5, <3>1, AcceptBranchIs
      <4>2. R.action = "drop"
        BY <1>1, <4>1, RuleFields
      <4>3. CatchAll(R) /\ ~Within(req, R)
        BY <1>1, <1>2, <1>5, <3>1, <4>2, AcceptBranchIs
      <4> QED
        BY <1>1, <4>3, CatchAllCovers
    <3> QED
      BY <3>1
  <2>3. ASSUME Branch = "carve" PROVE ~PossibleDeny(R)
    <3>1. ~R.dynamic /\ Carveable(R)
      BY <1>1, <1>2, <2>3, AcceptBranchIs
    <3> QED
      BY <3>1 DEF Carveable, PossibleDeny, Conditional
  <2>4. ASSUME Branch \in {"floor", "blocked"} PROVE ~PossibleDeny(R)
    <3>1. /\ ~R.dynamic /\ R.action = "drop" /\ ~Conditional(R) /\ ~Unresolved(R)
          /\ ~ServiceIndeterminate(req.svc, R.svc) /\ (Approximate(R) => Within(req, R))
      <4>1. CASE Branch = "floor"
        <5>1. ~R.dynamic /\ R.action = "drop" /\ ~Conditional(R) /\ ~Unresolved(R) /\ ~Unproven(R)
          BY <1>1, <1>2, <4>1, AcceptBranchIs
        <5> QED
          BY <5>1 DEF Unproven
      <4>2. CASE Branch = "blocked"
        BY <1>1, <1>2, <4>2, AcceptBranchIs
      <4> QED
        BY <2>4, <4>1, <4>2
    <3> QED
      BY <3>1 DEF PossibleDeny, Conditional
  <2> QED
    BY <2>1, <2>2, <2>3, <2>4 DEF Harmless
<1> QED
  BY <1>1, <1>3, <1>4, <1>5, RuleFields

\* The walk goes on, remembering m.
LEMMA OnwardKeeps ==
    ASSUME IInv, NEW b, Walking(b), NEW m, Onward(m), m \in Memory(cursor.at),
           m.target # 0 => CanWiden(Here[m.target], m.field),
           \/ m.floor = walk.floor
           \/ /\ walk.floor = 0 /\ m.floor = cursor.at /\ Harmless(R) /\ R.action = "drop"
              /\ \A k \in cursor.at + 1 .. Len(Here) : ~Here[k].enabled,
           ~m.doubt => ~walk.doubt,
           req.action = "block" => Apart(R),
           req.action = "accept" /\ ~m.doubt => Harmless(R),
           Promised /\ ~m.doubt => cursor.at = m.floor \/ LetsThrough(R)
    PROVE  IInv'
<1>1. /\ Same /\ ~Done /\ decision = Pending /\ decision' = decision /\ applied' = applied
      /\ walk' = m /\ cursor' = [cursor EXCEPT !.at = @ + 1] /\ req' = req /\ opts' = opts /\ rules' = rules
  BY DEF Walking, Onward, Same
<1>2. PICK n : n = cursor.at
  OBVIOUS
<1>3. /\ n \in 1 .. Len(Here) /\ n \in Nat /\ Len(Here) \in Nat /\ R = Here[n]
  BY <1>1, <1>2, RuleHere
<1>4. WalkSound
  BY DEF IInv
<1>5. /\ cursor \in [in : Nat, at : 1 .. Len(Here) + 1, outer : Memory(cursor.in)]
      /\ Remembers(Here, walk, n)
      /\ cursor.in = 0 \/ Entered(cursor.in, cursor.outer)
  BY <1>2, <1>4 DEF WalkSound
<1>6. cursor'.in = cursor.in /\ cursor'.outer = cursor.outer /\ cursor'.at = n + 1
  BY <1>1, <1>2, <1>5
<1>7. Here' = Here
  BY <1>1, <1>6 DEF Here
<1>8. Remembers(Here, m, n + 1)
  <2>1. m \in Memory((n + 1) - 1)
    BY <1>2, <1>3
  <2>2. m.target # 0 => CanWiden(Here[m.target], m.field)
    OBVIOUS
  <2>3. m.floor # 0 => /\ \A k \in m.floor + 1 .. Len(Here) : ~Here[k].enabled
                       /\ Harmless(Here[m.floor]) /\ Here[m.floor].action = "drop"
    BY <1>2, <1>3, <1>5 DEF Remembers
  <2>4. ASSUME NEW k \in 1 .. (n + 1) - 1 PROVE k = n \/ k \in 1 .. n - 1
    BY <1>3
  <2>5. req.action = "block" => \A k \in 1 .. (n + 1) - 1 : Apart(Here[k])
    BY <1>3, <1>5, <2>4 DEF Remembers
  <2>6. req.action = "accept" /\ ~m.doubt => \A k \in 1 .. (n + 1) - 1 : Harmless(Here[k])
    BY <1>3, <1>5, <2>4 DEF Remembers
  <2>7. ASSUME Promised, ~m.doubt, NEW k \in 1 .. (n + 1) - 1 PROVE k = m.floor \/ LetsThrough(Here[k])
    <3>1. CASE k = n
      BY <1>2, <1>3, <2>7, <3>1
    <3>2. CASE k \in 1 .. n - 1
      <4>1. k = walk.floor \/ LetsThrough(Here[k])
        BY <1>5, <2>7, <3>2 DEF Remembers
      <4>2. walk.floor = 0 => k # walk.floor
        BY <3>2
      <4> QED
        BY <4>1, <4>2
    <3> QED
      BY <2>4, <3>1, <3>2
  <2>8. Promised /\ ~m.doubt => \A k \in 1 .. (n + 1) - 1 : k = m.floor \/ LetsThrough(Here[k])
    BY <2>7
  <2> QED
    BY <2>1, <2>2, <2>3, <2>5, <2>6, <2>8 DEF Remembers
<1>9. PICK layer : layer = Here
  OBVIOUS
<1>10. Remembers(layer, m, n + 1)'
  BY <1>1, <1>8, <1>9, SameMemory
<1>11. Remembers(Here, walk, cursor.at)'
  BY <1>1, <1>6, <1>7, <1>9, <1>10
<1>12. PICK in, outer : in = cursor.in /\ outer = cursor.outer
  OBVIOUS
<1>13. in = 0 \/ Entered(in, outer)'
  BY <1>1, <1>5, <1>12, SameEntered
<1>14. cursor'.in = 0 \/ Entered(cursor.in, cursor.outer)'
  BY <1>6, <1>12, <1>13
<1>15. cursor' \in [in : Nat, at : 1 .. Len(Here) + 1, outer : Memory(cursor.in)]
  BY <1>1, <1>2, <1>3, <1>5
<1>16. WalkSound'
  BY <1>6, <1>7, <1>11, <1>14, <1>15 DEF WalkSound, Memory
<1>17. ~Answered'
  BY <1>1 DEF Answered
<1> QED
  BY <1>1, <1>16, <1>17 DEF IInv

---------------------------------------------------------------------------
(* The steps of the walk that go on                                         *)

LEMMA WalkIs ==
    ASSUME IInv
    PROVE  /\ Remembers(Here, walk, cursor.at)
           /\ walk \in Memory(cursor.at - 1) /\ walk \in Memory(cursor.at)
           /\ walk.target # 0 => CanWiden(Here[walk.target], walk.field)
<1>1. cursor.at \in 1 .. Len(Here) + 1 /\ Remembers(Here, walk, cursor.at)
  BY HereIs DEF IInv, WalkSound
<1>2. cursor.at \in Nat
  BY <1>1
<1>3. walk \in Memory(cursor.at - 1)
  BY <1>1 DEF Remembers
<1>4. walk \in Memory(cursor.at)
  BY <1>2, <1>3 DEF Memory
<1> QED
  BY <1>1, <1>3, <1>4 DEF Remembers

LEMMA SkipKeeps ==
    ASSUME IInv, Skip
    PROVE  IInv'
<1>1. Walking("skip") /\ Onward(walk) /\ ~Done /\ ~Empty /\ Branch = "skip"
  BY DEF Skip, Walking
<1>2. PICK m : m = walk
  OBVIOUS
<1>3. R \in AnyRule /\ req \in Request
  BY <1>1, RuleHere, HereIs
<1>4. m \in Memory(cursor.at) /\ (m.target # 0 => CanWiden(Here[m.target], m.field))
  BY <1>2, WalkIs
<1>5. req.action = "block" => Apart(R)
  BY <1>1, <1>3, OtherBranchIs DEF Branch
<1>6. req.action = "accept" => Harmless(R)
  BY <1>1, AcceptHarmless
<1>7. Promised => LetsThrough(R)
  BY <1>1, AcceptHarmless DEF Promised
<1> QED
  BY <1>1, <1>2, <1>4, <1>5, <1>6, <1>7, OnwardKeeps

LEMMA NoteKeeps ==
    ASSUME IInv, Note
    PROVE  IInv'
<1>1. /\ Walking("note") /\ Onward([walk EXCEPT !.noted = TRUE]) /\ ~Done /\ ~Empty
      /\ Branch = "note"
  BY DEF Note, Walking
<1>2. PICK m : m = [walk EXCEPT !.noted = TRUE]
  OBVIOUS
<1>3. R \in AnyRule /\ req \in Request
  BY <1>1, RuleHere, HereIs
<1>4. walk \in Memory(cursor.at) /\ (walk.target # 0 => CanWiden(Here[walk.target], walk.field))
  BY WalkIs
<1>5. /\ m \in Memory(cursor.at) /\ m.target = walk.target /\ m.field = walk.field
      /\ m.floor = walk.floor /\ m.doubt = walk.doubt
  BY <1>2, <1>4 DEF Memory
<1>6. req.action = "accept"
  BY <1>1, <1>3, OtherBranchIs DEF Branch
<1>7. Harmless(R) /\ (Promised => LetsThrough(R))
  BY <1>1, <1>6, AcceptHarmless
<1> QED
  BY <1>1, <1>2, <1>4, <1>5, <1>6, <1>7, OnwardKeeps

\* A step that leaves the walk in doubt.
LEMMA InDoubtKeeps ==
    ASSUME IInv, NEW b \in {"doubt", "doubtful", "divert"}, Walking(b),
           NEW m, Onward(m), m \in {InDoubt, [walk EXCEPT !.doubt = TRUE]}
    PROVE  IInv'
<1>1. R \in AnyRule /\ req \in Request /\ Branch = b
  BY RuleHere, HereIs DEF Walking
<1>2. walk \in Memory(cursor.at) /\ (walk.target # 0 => CanWiden(Here[walk.target], walk.field))
  BY WalkIs
<1>3. /\ m \in Memory(cursor.at) /\ m.target = walk.target /\ m.field = walk.field
      /\ m.floor = walk.floor /\ m.doubt = TRUE
  BY <1>2 DEF Memory, InDoubt
<1>4. req.action # "block"
  <2>1. CASE req.action = "accept"
    BY <2>1
  <2>2. CASE req.action # "accept"
    BY <1>1, <2>2, OtherBranchIs DEF Branch
  <2> QED
    BY <2>1, <2>2
<1> QED
  BY <1>2, <1>3, <1>4, OnwardKeeps

LEMMA FlooredKeeps ==
    ASSUME IInv, Floored
    PROVE  IInv'
<1>1. /\ Walking("floor") /\ Onward([walk EXCEPT !.floor = cursor.at]) /\ ~Done /\ ~Empty
      /\ Branch = "floor"
  BY DEF Floored, Walking
<1>2. PICK m : m = [walk EXCEPT !.floor = cursor.at]
  OBVIOUS
<1>3. R \in AnyRule /\ req \in Request /\ cursor.at \in Nat
  BY <1>1, RuleHere, HereIs
<1>4. walk \in Memory(cursor.at) /\ (walk.target # 0 => CanWiden(Here[walk.target], walk.field))
  BY WalkIs
<1>5. /\ m \in Memory(cursor.at) /\ m.target = walk.target /\ m.field = walk.field
      /\ m.floor = cursor.at /\ m.doubt = walk.doubt
  BY <1>2, <1>3, <1>4 DEF Memory
<1>6. req.action = "accept"
  BY <1>1, <1>3, OtherBranchIs DEF Branch
<1>7. R.enabled /\ IsFloor /\ R.action = "drop"
  BY <1>1, <1>3, <1>6, AcceptBranchIs DEF Branch
<1>8. Harmless(R)
  BY <1>1, <1>6, AcceptHarmless
<1>9. walk.floor = 0 /\ \A k \in cursor.at + 1 .. Len(Here) : ~Here[k].enabled
  BY <1>1, <1>7, BelowFloor
<1> QED
  BY <1>1, <1>2, <1>4, <1>5, <1>6, <1>7, <1>8, <1>9, OnwardKeeps

\* A candidate of the walk can be widened in the column it lacks.
LEMMA CandidateIs ==
    ASSUME NEW r \in AnyRule, r.enabled, ~r.dynamic, Widenable(r),
           NEW field, field = CHOOSE d \in Lacking(r) : TRUE
    PROVE  field \in Columns /\ CanWiden(r, field)
<1>1. /\ r.action = "accept" /\ ~Unresolved(r) /\ ~r.cond
  BY DEF Widenable
<1>2. PICK f \in Columns : Lacking(r) = {f} /\ \A d \in Columns \ {f} : Exact(r, d)
  BY DEF Widenable
<1>3. field = f
  BY <1>2
<1> QED
  BY <1>1, <1>2, <1>3 DEF CanWiden

LEMMA ConsiderKeeps ==
    ASSUME IInv, Consider
    PROVE  IInv'
<1> DEFINE candidate == opts.widen /\ walk.target = 0 /\ Widenable(R)
           anchored == ~Unresolved(R) /\ MoreSpecific(req, R)
<1>1. PICK field : field = CHOOSE d \in Lacking(R) : TRUE
  OBVIOUS
<1> DEFINE next == [walk EXCEPT
                     !.target = IF candidate THEN cursor.at ELSE @,
                     !.field = IF candidate THEN field ELSE @,
                     !.below = IF candidate THEN walk.doubt ELSE @,
                     !.anchor = IF anchored THEN cursor.at ELSE @]
<1>2. Walking("consider") /\ Onward(next) /\ ~Done /\ ~Empty /\ Branch = "consider"
  BY <1>1 DEF Consider, Walking
<1>3. R \in AnyRule /\ req \in Request /\ cursor.at \in Nat /\ R = Here[cursor.at]
  BY <1>2, RuleHere, HereIs
<1>4. walk \in Memory(cursor.at) /\ (walk.target # 0 => CanWiden(Here[walk.target], walk.field))
  BY WalkIs
<1>5. req.action = "accept"
  BY <1>2, <1>3, OtherBranchIs DEF Branch
<1>6. R.enabled /\ ~R.dynamic
  BY <1>2, <1>3, <1>5, AcceptBranchIs DEF Branch
<1>7. candidate => field \in Columns /\ CanWiden(R, field)
  BY <1>1, <1>3, <1>6, CandidateIs
<1> HIDE DEF candidate, anchored
<1>8. /\ next.target = IF candidate THEN cursor.at ELSE walk.target
      /\ next.field = IF candidate THEN field ELSE walk.field
      /\ next.floor = walk.floor /\ next.doubt = walk.doubt
  BY <1>4 DEF Memory
<1>9. next \in Memory(cursor.at)
  <2> DEFINE t == IF candidate THEN cursor.at ELSE walk.target
             f == IF candidate THEN field ELSE walk.field
             b == IF candidate THEN walk.doubt ELSE walk.below
             a == IF anchored THEN cursor.at ELSE walk.anchor
  <2>1. t \in 0 .. cursor.at /\ a \in 0 .. cursor.at
    BY <1>3, <1>4 DEF Memory
  <2>2. f \in Columns /\ b \in BOOLEAN
    BY <1>4, <1>7 DEF Memory
  <2>3. next = [walk EXCEPT !.target = t, !.field = f, !.below = b, !.anchor = a]
    OBVIOUS
  <2> HIDE DEF t, f, b, a, next
  <2> QED
    BY <1>4, <2>1, <2>2, <2>3 DEF Memory
<1> HIDE DEF next
<1>10. PICK m : m = next
  OBVIOUS
<1>11. m.target # 0 => CanWiden(Here[m.target], m.field)
  BY <1>3, <1>4, <1>7, <1>8, <1>10
<1>12. Harmless(R) /\ (Promised => LetsThrough(R))
  BY <1>2, <1>5, AcceptHarmless
<1> QED
  BY <1>2, <1>5, <1>8, <1>9, <1>10, <1>11, <1>12, OnwardKeeps

---------------------------------------------------------------------------
(* The steps that end the walk                                              *)

LEMMA SameWalk ==
    ASSUME IInv, Same, UNCHANGED <<cursor, walk>>
    PROVE  WalkSound'
<1>1. /\ cursor' = cursor /\ walk' = walk /\ rules' = rules
  BY DEF Same
<1>2. Here' = Here
  BY <1>1 DEF Here
<1>3. WalkSound
  BY DEF IInv
<1>4. PICK layer, m, n, in, outer :
            layer = Here /\ m = walk /\ n = cursor.at /\ in = cursor.in /\ outer = cursor.outer
  OBVIOUS
<1>5. Remembers(layer, m, n)'
  BY <1>3, <1>4, SameMemory DEF WalkSound
<1>6. Remembers(Here, walk, cursor.at)'
  BY <1>1, <1>2, <1>4, <1>5
<1>7. in = 0 \/ Entered(in, outer)'
  BY <1>3, <1>4, SameEntered DEF WalkSound
<1>8. cursor'.in = 0 \/ Entered(cursor.in, cursor.outer)'
  BY <1>1, <1>4, <1>7
<1>9. cursor' \in [in : Nat, at : 1 .. Len(Here) + 1, outer : Memory(cursor.in)]
  BY <1>1, <1>3 DEF WalkSound
<1> QED
  BY <1>1, <1>2, <1>6, <1>8, <1>9 DEF WalkSound, Memory

\* The fields of a decision.
LEMMA DecidedIs ==
    ASSUME IInv, NEW o \in {"create", "widen", "noop"}, NEW at \in Nat, NEW pos \in Nat,
           NEW d, d = Decided(o, at, pos)
    PROVE  /\ d \in Answer
           /\ d.outcome = o /\ d.at = at /\ d.pos = pos /\ d.in = cursor.in /\ d.stop = cursor.at
           /\ d.field = walk.field
           /\ ~d.doubt => ~walk.doubt /\ ~cursor.outer.doubt
           /\ walk.doubt => d.doubt
           /\ DecidedIn(d) = Here
<1>1. /\ cursor.in \in Nat /\ cursor.at \in Nat /\ cursor.outer \in Memory(cursor.in)
      /\ walk \in Memory(cursor.at)
  BY HereIs, WalkIs DEF IInv, WalkSound
<1>2. /\ walk.field \in Columns /\ walk.noted \in BOOLEAN /\ walk.doubt \in BOOLEAN
      /\ cursor.outer.noted \in BOOLEAN /\ cursor.outer.doubt \in BOOLEAN
  BY <1>1 DEF Memory
<1>3. /\ (walk.noted \/ cursor.outer.noted) \in BOOLEAN
      /\ (walk.doubt \/ cursor.outer.doubt) \in BOOLEAN
  BY <1>2
<1>4. /\ d.outcome = o /\ d.at = at /\ d.pos = pos /\ d.in = cursor.in /\ d.stop = cursor.at
      /\ d.field = walk.field /\ d.noted = (walk.noted \/ cursor.outer.noted)
      /\ d.doubt = (walk.doubt \/ cursor.outer.doubt)
  BY DEF Decided
<1>5. d \in Answer
  BY <1>1, <1>2, <1>3 DEF Decided, Answer
<1>6. DecidedIn(d) = Here
  BY <1>4 DEF DecidedIn, Here
<1> QED
  BY <1>4, <1>5, <1>6

\* What is known of the layer outside goes for every decision of the walk.
LEMMA OuterSound ==
    ASSUME IInv, NEW d, d.in = cursor.in, ~d.doubt => ~cursor.outer.doubt
    PROVE  /\ InLayer(d)
           /\ d.in # 0 => req.action = "accept"
           /\ Promised /\ ~d.doubt /\ d.in # 0 =>
                /\ MatchesAsked(rules[d.in])
                /\ \A k \in 1 .. d.in - 1 : LetsThrough(rules[k])
<1>1. cursor.in = 0 \/ Entered(cursor.in, cursor.outer)
  BY DEF IInv, WalkSound
<1> QED
  BY <1>1 DEF Entered, InLayer

LEMMA CreateSound ==
    ASSUME IInv, NEW at \in Nat, NEW pos \in 1 .. Len(Here) + 1,
           NEW d, d = Decided("create", at, pos),
           req.action = "block" => \A k \in 1 .. pos - 1 : Apart(Here[k]),
           req.action # "block" =>
             \A k \in pos .. Len(Here) : \/ k > cursor.at \/ Harmless(Here[k])
                                         \/ at = 0 /\ pos = Len(Here) /\ k = Len(Here),
           Promised /\ ~walk.doubt => \A k \in 1 .. pos - 1 : LetsThrough(Here[k])
    PROVE  AnswerSound(d)
<1>1. pos \in Nat
  BY HereIs
<1>2. /\ d \in Answer
      /\ d.outcome = "create" /\ d.at = at /\ d.pos = pos /\ d.in = cursor.in /\ d.stop = cursor.at
      /\ ~d.doubt => ~walk.doubt /\ ~cursor.outer.doubt
      /\ DecidedIn(d) = Here
  <2>1. "create" \in {"create", "widen", "noop"} /\ at \in Nat /\ d = Decided("create", at, pos)
    OBVIOUS
  <2> QED
    BY ONLY IInv, <1>1, <2>1, DecidedIs
<1>3. /\ InLayer(d)
      /\ d.in # 0 => req.action = "accept"
      /\ Promised /\ ~d.doubt /\ d.in # 0 =>
           /\ MatchesAsked(rules[d.in])
           /\ \A k \in 1 .. d.in - 1 : LetsThrough(rules[k])
  BY <1>2, OuterSound
<1>4. Fits(d, Here)
  BY <1>2 DEF Fits
<1>5. ASSUME req.action = "block" PROVE Blocks(d)
  <2>1. cursor.in = 0
    BY <1>2, <1>3, <1>5
  <2>2. Here = rules
    BY <2>1, HereIs
  <2> QED
    BY <1>2, <1>5, <2>2 DEF Blocks
<1>6. StaysBelow(d, Here)
  BY <1>2 DEF StaysBelow
<1>7. Promised /\ ~d.doubt => Grants(d, Here)
  BY <1>2 DEF Grants
<1> QED
  BY <1>2, <1>3, <1>4, <1>5, <1>6, <1>7 DEF AnswerSound

LEMMA WidenSound ==
    ASSUME IInv, req.action = "accept", walk.target # 0,
           NEW d, d = Decided("widen", walk.target, 0),
           ~walk.doubt => Done \/ Harmless(R) \/ R.dynamic
    PROVE  AnswerSound(d)
<1>1. /\ Remembers(Here, walk, cursor.at) /\ walk \in Memory(cursor.at - 1)
      /\ CanWiden(Here[walk.target], walk.field)
      /\ cursor.at \in 1 .. Len(Here) + 1 /\ Here \in Seq(AnyRule)
  BY WalkIs, HereIs
<1>2. /\ cursor.at \in Nat /\ Len(Here) \in Nat /\ walk.target \in 1 .. cursor.at - 1
      /\ walk.target \in 1 .. Len(Here) /\ walk.target \in Nat
      /\ walk.floor \in 0 .. cursor.at - 1 /\ walk.field \in Columns
  BY <1>1 DEF Memory
<1>3. /\ d \in Answer
      /\ d.outcome = "widen" /\ d.at = walk.target /\ d.in = cursor.in /\ d.stop = cursor.at
      /\ d.field = walk.field
      /\ ~d.doubt => ~walk.doubt /\ ~cursor.outer.doubt
      /\ DecidedIn(d) = Here
  BY <1>2, DecidedIs
<1>4. /\ InLayer(d)
      /\ d.in # 0 => req.action = "accept"
      /\ Promised /\ ~d.doubt /\ d.in # 0 =>
           /\ MatchesAsked(rules[d.in])
           /\ \A k \in 1 .. d.in - 1 : LetsThrough(rules[k])
  BY <1>3, OuterSound
<1>5. Fits(d, Here)
  BY <1>1, <1>2, <1>3 DEF Fits
<1>6. StaysBelow(d, Here)
  <2>1. ASSUME ~d.doubt, NEW k \in 1 .. Len(Here), ~(k > cursor.at)
        PROVE  Harmless(Here[k]) \/ (k = cursor.at /\ Here[k].dynamic)
    <3>1. CASE k \in 1 .. cursor.at - 1
      BY <1>1, <1>3, <2>1, <3>1 DEF Remembers
    <3>2. CASE k = cursor.at
      BY <1>2, <1>3, <2>1, <3>2 DEF Done, R
    <3> QED
      BY <1>2, <2>1, <3>1, <3>2
  <2>2. d.doubt \in BOOLEAN
    BY <1>3 DEF Answer
  <2> QED
    BY <1>3, <2>1, <2>2 DEF StaysBelow
<1>7. ASSUME Promised, ~d.doubt PROVE Grants(d, Here)
  <2>1. ASSUME NEW k \in 1 .. walk.target - 1 PROVE LetsThrough(Here[k])
    <3>1. k \in 1 .. cursor.at - 1
      BY <1>2
    <3>2. k = walk.floor \/ LetsThrough(Here[k])
      BY <1>1, <1>3, <1>7, <3>1 DEF Remembers
    <3>3. ASSUME k = walk.floor PROVE FALSE
      <4>1. walk.target \in walk.floor + 1 .. Len(Here) /\ walk.floor # 0
        BY <1>2, <3>1, <3>3
      <4>2. ~Here[walk.target].enabled
        BY <1>1, <4>1 DEF Remembers
      <4> QED
        BY <1>1, <4>2 DEF CanWiden
    <3> QED
      BY <3>2, <3>3
  <2> QED
    BY <1>3, <2>1 DEF Grants
<1> QED
  BY <1>3, <1>4, <1>5, <1>6, <1>7 DEF AnswerSound

\* A decision of the walk, as the layer outside returns it.
LEMMA AnswerKeeps ==
    ASSUME IInv, Same, UNCHANGED applied, ~Empty,
           NEW d, Conclude(d), AnswerSound(d), d.in = cursor.in,
           ~d.doubt => ~walk.doubt /\ ~cursor.outer.doubt,
           \/ d.outcome # "create"
           \/ d.at # 0 /\ Here[d.at].action = "drop"
           \/ req.action # "accept"
           \/ req.restricted
           \/ ~walk.doubt /\ Promised => \A k \in 1 .. Len(Here) : LetsThrough(Here[k])
    PROVE  IInv'
<1>1. decision' = Returned(d) /\ UNCHANGED <<cursor, walk>>
  BY DEF Conclude
<1>2. WalkSound'
  BY <1>1, SameWalk
<1>3. PICK x : x = Returned(d)
  OBVIOUS
<1>4. AnswerSound(x)
  <2> DEFINE returned == /\ cursor.in # 0
                         /\ d.outcome = "create"
                         /\ d.at = 0 \/ Here[d.at].action # "drop"
                         /\ rules[cursor.in].cleanup = "accept"
                         /\ ~req.restricted
  <2>1. CASE ~returned
    BY <1>3, <2>1 DEF Returned
  <2>2. CASE returned
    <3>1. x = [d EXCEPT !.outcome = "noop", !.in = 0, !.at = cursor.in, !.stop = cursor.in,
                        !.noted = cursor.outer.noted]
      BY <1>3, <2>2 DEF Returned
    <3>2. d \in Answer /\ cursor.in \in Nat /\ cursor.outer.noted \in BOOLEAN
      BY DEF AnswerSound, IInv, WalkSound, Memory
    <3>3. /\ x \in Answer /\ x.outcome = "noop" /\ x.in = 0 /\ x.at = cursor.in
          /\ x.doubt = d.doubt
      BY <3>1, <3>2 DEF Answer
    <3>4. Entered(cursor.in, cursor.outer)
      BY <2>2 DEF IInv, WalkSound
    <3>5. DecidedIn(x) = rules /\ InLayer(x) /\ Fits(x, rules) /\ StaysBelow(x, rules)
      BY <3>3 DEF DecidedIn, InLayer, Fits, StaysBelow
    <3>6. req.action = "accept"
      BY <3>4 DEF Entered
    <3>7. ASSUME Promised, ~x.doubt PROVE Grants(x, rules)
      <4>1. ~walk.doubt /\ ~cursor.outer.doubt
        BY <3>3, <3>7
      <4>2. \A k \in 1 .. Len(Here) : LetsThrough(Here[k])
        BY <2>2, <3>6, <3>7, <4>1
      <4>3. Here = rules[cursor.in].inline
        BY <2>2, HereIs
      <4>4. /\ cursor.in \in 1 .. Len(rules) /\ MatchesAsked(rules[cursor.in])
            /\ rules[cursor.in] \in LayerRule
            /\ \A k \in 1 .. cursor.in - 1 : LetsThrough(rules[k])
        BY <3>4, <3>7, <4>1 DEF Entered
      <4> QED
        BY <2>2, <3>3, <4>2, <4>3, <4>4 DEF Grants
    <3> QED
      BY <3>3, <3>5, <3>6, <3>7 DEF AnswerSound
  <2> QED
    BY <2>1, <2>2
<1>5. AnswerSound(x)'
  BY <1>4, SameAnswer
<1>6. AnswerSound(decision)'
  BY <1>1, <1>3, <1>5
<1>7. ~Empty'
  BY DEF Same, Empty
<1> QED
  BY <1>2, <1>6, <1>7 DEF IInv, Same

LEMMA WidenedKeeps ==
    ASSUME IInv, NEW b, Walking(b), WidenFirst, Widened, req.action = "accept",
           Harmless(R) \/ R.dynamic
    PROVE  IInv'
<1>1. Same /\ UNCHANGED applied /\ ~Empty /\ walk.target # 0
  BY DEF Walking, Same, WidenFirst
<1>2. PICK d : d = Decided("widen", walk.target, 0)
  OBVIOUS
<1>3. Conclude(d)
  BY <1>2 DEF Widened
<1>4. AnswerSound(d)
  BY <1>1, <1>2, WidenSound
<1>5. walk.target \in Nat
  BY WalkIs, HereIs DEF Memory
<1>6. d.in = cursor.in /\ (~d.doubt => ~walk.doubt /\ ~cursor.outer.doubt) /\ d.outcome # "create"
  <2>1. "widen" \in {"create", "widen", "noop"} /\ 0 \in Nat
    OBVIOUS
  <2>2. d.in = cursor.in /\ (~d.doubt => ~walk.doubt /\ ~cursor.outer.doubt) /\ d.outcome = "widen"
    BY ONLY IInv, <1>2, <1>5, <2>1, DecidedIs
  <2> QED
    BY <2>2
<1> QED
  BY <1>1, <1>3, <1>4, <1>6, AnswerKeeps

\* A new rule above the one under the cursor.
LEMMA AboveKeeps ==
    ASSUME IInv, NEW b, Walking(b), Above, R.enabled, req.action # "block" => Harmless(R),
           R.action = "drop" \/ req.action # "accept" \/ req.restricted
    PROVE  IInv'
<1>1. Same /\ UNCHANGED applied /\ ~Done /\ ~Empty
  BY DEF Walking, Same
<1>2. PICK d : d = Decided("create", cursor.at, cursor.at)
  OBVIOUS
<1>3. Conclude(d)
  BY <1>2 DEF Above
<1>4. /\ cursor.at \in 1 .. Len(Here) /\ cursor.at \in Nat /\ Len(Here) \in Nat
      /\ R = Here[cursor.at]
  BY <1>1, RuleHere
<1>5. Remembers(Here, walk, cursor.at) /\ walk.floor = 0
  BY <1>1, WalkIs, BelowFloor
<1>6. /\ d.in = cursor.in /\ (~d.doubt => ~walk.doubt /\ ~cursor.outer.doubt)
      /\ d.outcome = "create" /\ d.at = cursor.at
  <2>1. "create" \in {"create", "widen", "noop"}
    OBVIOUS
  <2> QED
    BY ONLY IInv, <1>2, <1>4, <2>1, DecidedIs
<1>7. AnswerSound(d)
  <2>1. cursor.at \in 1 .. Len(Here) + 1
    BY <1>4
  <2>2. req.action = "block" => \A k \in 1 .. cursor.at - 1 : Apart(Here[k])
    BY <1>5 DEF Remembers
  <2>3. req.action # "block" =>
             \A k \in cursor.at .. Len(Here) :
                \/ k > cursor.at \/ Harmless(Here[k])
                \/ cursor.at = 0 /\ cursor.at = Len(Here) /\ k = Len(Here)
    BY <1>4
  <2>4. Promised /\ ~walk.doubt => \A k \in 1 .. cursor.at - 1 : LetsThrough(Here[k])
    BY <1>5 DEF Remembers
  <2> QED
    BY <1>2, <1>4, <2>1, <2>2, <2>3, <2>4, CreateSound
<1>8. \/ d.at # 0 /\ Here[d.at].action = "drop"
      \/ req.action # "accept"
      \/ req.restricted
  BY <1>4, <1>6
<1> QED
  BY <1>1, <1>3, <1>6, <1>7, <1>8, AnswerKeeps

\* A new rule below the deny under the cursor, where the settings say so.
LEMMA BelowKeeps ==
    ASSUME IInv, NEW b, Walking(b), Below, R.action = "drop", req.action # "block", ~MakesItWork
    PROVE  IInv'
<1>1. Same /\ UNCHANGED applied /\ ~Done /\ ~Empty
  BY DEF Walking, Same
<1>2. PICK d : d = Decided("create", cursor.at, cursor.at + 1)
  OBVIOUS
<1>3. Conclude(d)
  BY <1>2 DEF Below
<1>4. /\ cursor.at \in 1 .. Len(Here) /\ cursor.at \in Nat /\ Len(Here) \in Nat
      /\ R = Here[cursor.at]
  BY <1>1, RuleHere
<1>5. /\ d.in = cursor.in /\ (~d.doubt => ~walk.doubt /\ ~cursor.outer.doubt)
      /\ d.outcome = "create" /\ d.at = cursor.at
  <2>1. "create" \in {"create", "widen", "noop"} /\ cursor.at + 1 \in Nat
    BY <1>4
  <2> QED
    BY ONLY IInv, <1>2, <1>4, <2>1, DecidedIs
<1>6. AnswerSound(d)
  <2>1. cursor.at + 1 \in 1 .. Len(Here) + 1
    BY <1>4
  <2>2. \A k \in cursor.at + 1 .. Len(Here) :
           \/ k > cursor.at \/ Harmless(Here[k])
           \/ cursor.at = 0 /\ cursor.at + 1 = Len(Here) /\ k = Len(Here)
    BY <1>4
  <2>3. ~Promised
    BY DEF Promised
  <2> QED
    BY <1>2, <1>4, <2>1, <2>2, <2>3, CreateSound
<1>7. d.at # 0 /\ Here[d.at].action = "drop"
  BY <1>4, <1>5
<1> QED
  BY <1>1, <1>3, <1>5, <1>6, <1>7, AnswerKeeps

\* A settled drop is no possible deny.
LEMMA SettledIsHarmless ==
    ASSUME NEW r \in AnyRule, r.action = "drop", ~r.dynamic, Settled(r)
    PROVE  Harmless(r)
BY DEF Settled, Harmless, PossibleDeny

LEMMA DivertKeeps ==
    ASSUME IInv, Divert
    PROVE  IInv'
<1>1. /\ Walking("divert") /\ ~Done /\ Branch = "divert"
      /\ IF WidenFirst THEN Widened ELSE Onward([walk EXCEPT !.doubt = TRUE])
  BY DEF Divert, Walking
<1>2. R \in AnyRule /\ req \in Request
  BY <1>1, RuleHere, HereIs
<1>3. req.action = "accept"
  BY <1>1, <1>2, OtherBranchIs DEF Branch
<1>4. R.dynamic
  BY <1>1, <1>2, <1>3, AcceptBranchIs DEF Branch
<1>5. CASE WidenFirst
  BY <1>1, <1>3, <1>4, <1>5, WidenedKeeps
<1>6. CASE ~WidenFirst
  <2>1. PICK m : m = [walk EXCEPT !.doubt = TRUE]
    OBVIOUS
  <2> QED
    BY <1>1, <1>6, <2>1, InDoubtKeeps
<1> QED
  BY <1>5, <1>6

LEMMA DoubtKeeps ==
    ASSUME IInv, Doubt \/ Doubtful
    PROVE  IInv'
<1>1. CASE Doubt
  <2>1. Walking("doubt") /\ Onward(InDoubt)
    BY <1>1 DEF Doubt
  <2>2. PICK m : m = InDoubt
    OBVIOUS
  <2> QED
    BY <2>1, <2>2, InDoubtKeeps
<1>2. CASE Doubtful
  <2>1. Walking("doubtful") /\ Onward([walk EXCEPT !.doubt = TRUE])
    BY <1>2 DEF Doubtful
  <2>2. PICK m : m = [walk EXCEPT !.doubt = TRUE]
    OBVIOUS
  <2> QED
    BY <2>1, <2>2, InDoubtKeeps
<1> QED
  BY <1>1, <1>2

LEMMA CarveKeeps ==
    ASSUME IInv, Carve
    PROVE  IInv'
<1>1. /\ Walking("carve") /\ ~Done /\ ~Empty /\ Branch = "carve"
      /\ IF opts.carveout /\ opts.override THEN IF WidenFirst THEN Widened ELSE Above ELSE Below
  BY DEF Carve, Walking
<1>2. R \in AnyRule /\ req \in Request
  BY <1>1, RuleHere, HereIs
<1>3. req.action = "accept"
  BY <1>1, <1>2, OtherBranchIs DEF Branch
<1>4. R.enabled /\ R.action = "drop"
  BY <1>1, <1>2, <1>3, AcceptBranchIs DEF Branch, Carveable
<1>5. Harmless(R)
  BY <1>1, <1>3, AcceptHarmless
<1>6. CASE ~(opts.carveout /\ opts.override)
  <2>1. Below /\ ~MakesItWork
    BY <1>1, <1>6 DEF MakesItWork
  <2> QED
    BY <1>1, <1>3, <1>4, <2>1, BelowKeeps
<1>7. CASE opts.carveout /\ opts.override /\ WidenFirst
  BY <1>1, <1>3, <1>5, <1>7, WidenedKeeps
<1>8. CASE opts.carveout /\ opts.override /\ ~WidenFirst
  BY <1>1, <1>4, <1>5, <1>8, AboveKeeps
<1> QED
  BY <1>6, <1>7, <1>8

LEMMA BlockedKeeps ==
    ASSUME IInv, Blocked
    PROVE  IInv'
<1>1. /\ Walking("blocked") /\ ~Done /\ ~Empty /\ Branch = "blocked"
      /\ IF ~opts.override THEN Below
         ELSE IF req.action = "accept" /\ WidenFirst THEN Widened
         ELSE Above
  BY DEF Blocked, Walking
<1>2. R \in AnyRule /\ req \in Request
  BY <1>1, RuleHere, HereIs
<1>3. R.enabled /\ R.action = "drop" /\ req.action # "block" /\ Harmless(R)
  <2>1. CASE req.action = "accept"
    <3>1. R.enabled /\ R.action = "drop"
      BY <1>1, <1>2, <2>1, AcceptBranchIs DEF Branch
    <3> QED
      BY <1>1, <2>1, <3>1, AcceptHarmless
  <2>2. CASE req.action # "accept"
    <3>1. /\ R.enabled /\ R.action = "drop" /\ ~R.dynamic /\ req.action # "block"
          /\ Settled(R)
      BY <1>1, <1>2, <2>2, OtherBranchIs DEF Branch
    <3> QED
      BY <1>2, <3>1, SettledIsHarmless
  <2> QED
    BY <2>1, <2>2
<1>4. CASE ~opts.override
  <2>1. Below /\ ~MakesItWork
    BY <1>1, <1>4 DEF MakesItWork
  <2> QED
    BY <1>1, <1>3, <2>1, BelowKeeps
<1>5. CASE opts.override /\ req.action = "accept" /\ WidenFirst
  BY <1>1, <1>3, <1>5, WidenedKeeps
<1>6. CASE opts.override /\ ~(req.action = "accept" /\ WidenFirst)
  BY <1>1, <1>3, <1>6, AboveKeeps
<1> QED
  BY <1>4, <1>5, <1>6

LEMMA AboveFirstKeeps ==
    ASSUME IInv, AboveFirst
    PROVE  IInv'
<1>1. Walking("above") /\ Above /\ ~Done /\ Branch = "above"
  BY DEF AboveFirst, Walking
<1>2. R \in AnyRule /\ req \in Request
  BY <1>1, RuleHere, HereIs
<1>3. req.action # "accept"
  BY <1>1, <1>2, AcceptBranchIs DEF Branch
<1>4. R.enabled /\ ~R.dynamic /\ (req.action # "block" => R.action = "accept")
  BY <1>1, <1>2, <1>3, OtherBranchIs DEF Branch
<1>5. req.action # "block" => Harmless(R)
  BY <1>2, <1>4, AcceptIsHarmless
<1> QED
  BY <1>1, <1>3, <1>4, <1>5, AboveKeeps

\* The answer that the request is granted already, by the rule under the cursor.
LEMMA NoopSound ==
    ASSUME IInv, Walking("granted"), NEW d, d = Decided("noop", cursor.at, 0)
    PROVE  /\ AnswerSound(d)
           /\ d.in = cursor.in /\ (~d.doubt => ~walk.doubt /\ ~cursor.outer.doubt)
           /\ d.outcome = "noop"
<1>1. ~Done /\ ~Empty /\ Branch = "granted"
  BY DEF Walking
<1>2. /\ cursor.at \in 1 .. Len(Here) /\ cursor.at \in Nat /\ Len(Here) \in Nat
      /\ R = Here[cursor.at] /\ R \in AnyRule /\ req \in Request
      /\ Remembers(Here, walk, cursor.at)
  BY <1>1, RuleHere, HereIs, WalkIs
<1>3. /\ d \in Answer
      /\ d.outcome = "noop" /\ d.at = cursor.at /\ d.in = cursor.in
      /\ (~d.doubt => ~walk.doubt /\ ~cursor.outer.doubt) /\ DecidedIn(d) = Here
  <2>1. "noop" \in {"create", "widen", "noop"} /\ 0 \in Nat /\ d = Decided("noop", cursor.at, 0)
    OBVIOUS
  <2> QED
    BY ONLY IInv, <1>2, <2>1, DecidedIs
<1>4. /\ InLayer(d)
      /\ d.in # 0 => req.action = "accept"
      /\ Promised /\ ~d.doubt /\ d.in # 0 =>
           /\ MatchesAsked(rules[d.in])
           /\ \A k \in 1 .. d.in - 1 : LetsThrough(rules[k])
  BY <1>3, OuterSound
<1>5. Fits(d, Here) /\ StaysBelow(d, Here)
  BY <1>3 DEF Fits, StaysBelow
<1>6. ASSUME req.action = "block" PROVE Blocks(d)
  <2>1. Here = rules
    BY <1>3, <1>4, <1>6, HereIs
  <2>2. R.enabled /\ ~R.dynamic /\ R.action = "drop" /\ Settled(R)
    BY <1>1, <1>2, <1>6, OtherBranchIs DEF Branch
  <2>3. \A k \in 1 .. cursor.at - 1 : Apart(rules[k])
    BY <1>2, <1>6, <2>1 DEF Remembers
  <2> QED
    BY <1>2, <1>3, <2>1, <2>2, <2>3 DEF Blocks
<1>7. ASSUME Promised, ~d.doubt PROVE Grants(d, Here)
  <2>1. /\ R.enabled /\ ~R.dynamic /\ R.action = "accept" /\ ~Conditional(R) /\ ~Unresolved(R)
        /\ Within(req, R)
    BY <1>1, <1>2, <1>7, AcceptBranchIs DEF Branch, Promised
  <2>2. LetsThrough(R)
    BY <1>2, <2>1, AcceptIsHarmless
  <2>3. ~R.cond
    BY <1>7, <2>1 DEF Conditional, Promised, MakesItWork
  <2>4. MatchesAsked(R)
    <3>1. ~Misjudged(R) /\ ~Blank(req.svc)
      BY <1>1, <1>7, RuleHere DEF Promised, Empty
    <3> QED
      BY <1>2, <2>1, <2>3, <3>1, WithinMatches DEF MatchesAsked
  <2>5. walk.floor = 0
    BY <1>1, <2>1, BelowFloor
  <2>6. \A k \in 1 .. cursor.at - 1 : LetsThrough(Here[k])
    BY <1>2, <1>3, <1>7, <2>5 DEF Remembers
  <2> QED
    BY <1>2, <1>3, <2>2, <2>4, <2>6 DEF Grants
<1> QED
  BY <1>3, <1>4, <1>5, <1>6, <1>7 DEF AnswerSound

LEMMA GrantedKeeps ==
    ASSUME IInv, Granted
    PROVE  IInv'
<1>1. /\ Walking("granted") /\ ~Done /\ ~Empty /\ Branch = "granted" /\ Same /\ UNCHANGED applied
      /\ IF req.restricted /\ req.action = "accept" THEN Above
         ELSE Conclude(Decided("noop", cursor.at, 0))
  BY DEF Granted, Walking, Same
<1>2. CASE req.restricted /\ req.action = "accept"
  <2>1. R \in AnyRule
    BY <1>1, RuleHere
  <2>2. R.enabled
    BY <1>1, <1>2, <2>1, AcceptBranchIs DEF Branch
  <2>3. Harmless(R)
    BY <1>1, <1>2, AcceptHarmless
  <2> QED
    BY <1>1, <1>2, <2>2, <2>3, AboveKeeps
<1>3. CASE ~(req.restricted /\ req.action = "accept")
  <2>1. PICK d : d = Decided("noop", cursor.at, 0)
    OBVIOUS
  <2>2. Conclude(d)
    BY <1>1, <1>3, <2>1
  <2>3. /\ AnswerSound(d)
        /\ d.in = cursor.in /\ (~d.doubt => ~walk.doubt /\ ~cursor.outer.doubt)
        /\ d.outcome = "noop"
    BY <1>1, <2>1, NoopSound
  <2> QED
    BY <1>1, <2>2, <2>3, AnswerKeeps
<1> QED
  BY <1>2, <1>3

\* A walk that starts knows nothing.
LEMMA FreshIs ==
    ASSUME NEW layer
    PROVE  Remembers(layer, Fresh, 1)
<1>1. Fresh \in Memory(0) /\ Fresh.target = 0 /\ Fresh.floor = 0
  BY DEF Fresh, Memory, Columns
<1>2. 1 - 1 = 0 /\ \A k \in 1 .. 0 : FALSE
  OBVIOUS
<1> QED
  BY <1>1, <1>2 DEF Remembers

LEMMA EnterKeeps ==
    ASSUME IInv, Enter
    PROVE  IInv'
<1>1. /\ Walking("enter") /\ ~Done /\ ~Empty /\ Branch = "enter" /\ Same
      /\ cursor' = [in |-> cursor.at, at |-> 1, outer |-> walk] /\ walk' = Fresh
      /\ decision' = decision /\ decision = Pending /\ applied' = applied
      /\ rules' = rules /\ req' = req /\ opts' = opts
  BY DEF Enter, Walking, Same
<1>2. /\ cursor.at \in 1 .. Len(Here) /\ cursor.at \in Nat /\ Len(Here) \in Nat
      /\ R = Here[cursor.at] /\ R \in AnyRule /\ req \in Request
      /\ Remembers(Here, walk, cursor.at) /\ walk \in Memory(cursor.at)
  BY <1>1, RuleHere, HereIs, WalkIs
<1>3. req.action = "accept"
  BY <1>1, <1>2, OtherBranchIs DEF Branch
<1>4. /\ R.enabled /\ ~R.dynamic /\ R.layered
      /\ ~Conditional(R) /\ ~Unresolved(R) /\ Within(req, R)
  BY <1>1, <1>2, <1>3, AcceptBranchIs DEF Branch
<1>5. R \in LayerRule
  <2>1. R \notin PlainRule
    BY <1>4 DEF PlainRule, RuleOf
  <2> QED
    BY <1>2, <2>1 DEF AnyRule
<1>6. cursor.in = 0 /\ Here = rules
  <2>1. ASSUME cursor.in # 0 PROVE FALSE
    <3>1. Here \in Seq(PlainRule)
      BY <2>1, HereIs
    <3>2. R \in PlainRule
      BY <1>2, <3>1
    <3> QED
      BY <1>4, <3>2 DEF PlainRule, RuleOf
  <2> QED
    BY <2>1, HereIs
<1>7. PICK i, m : i = cursor.at /\ m = walk
  OBVIOUS
<1>8. Entered(i, m)
  <2>1. ASSUME Promised PROVE MatchesAsked(R)
    <3>1. ~R.cond
      BY <1>4, <2>1 DEF Conditional, Promised, MakesItWork
    <3>2. ~Misjudged(R) /\ ~Blank(req.svc)
      BY <1>1, <2>1, RuleHere DEF Promised, Empty
    <3> QED
      BY <1>2, <1>4, <3>1, <3>2, WithinMatches DEF MatchesAsked
  <2>2. walk.floor = 0
    BY <1>1, <1>4, BelowFloor
  <2>3. Promised /\ ~m.doubt => \A k \in 1 .. i - 1 : LetsThrough(rules[k])
    BY <1>2, <1>6, <1>7, <2>2 DEF Remembers
  <2> QED
    BY <1>2, <1>3, <1>5, <1>6, <1>7, <2>1, <2>3 DEF Entered
<1>9. Entered(i, m)'
  BY <1>1, <1>8, SameEntered
<1>10. Entered(cursor.in, cursor.outer)'
  BY <1>1, <1>7, <1>9
<1>11. PICK layer : layer = rules[i].inline
  OBVIOUS
<1>12. i \in Nat /\ i # 0
  BY <1>2, <1>7
<1>13. Here' = layer
  BY <1>1, <1>7, <1>11, <1>12 DEF Here
<1>14. Remembers(layer, Fresh, 1)
  BY FreshIs
<1>15. PICK f : f = Fresh
  OBVIOUS
<1>16. Remembers(layer, f, 1)'
  BY <1>1, <1>14, <1>15, SameMemory
<1>17. Remembers(Here, walk, cursor.at)'
  BY <1>1, <1>13, <1>15, <1>16
<1>18. layer \in Seq(PlainRule)
  BY <1>2, <1>5, <1>6, <1>7, <1>11 DEF LayerRule, RuleOf
<1>19. cursor' \in [in : Nat, at : 1 .. Len(layer) + 1, outer : Memory(i)]
  <2>1. Len(layer) \in Nat
    BY <1>18
  <2>2. 1 \in 1 .. Len(layer) + 1
    BY <2>1
  <2> QED
    BY <1>1, <1>2, <1>7, <2>2
<1>20. cursor'.in = i
  BY <1>1, <1>7
<1>21. WalkSound'
  BY <1>10, <1>13, <1>17, <1>19, <1>20 DEF WalkSound, Memory
<1>22. ~Answered'
  BY <1>1 DEF Answered
<1> QED
  BY <1>1, <1>21, <1>22 DEF IInv

LEMMA FallThroughKeeps ==
    ASSUME IInv, FallThrough
    PROVE  IInv'
<1>1. /\ Same /\ UNCHANGED applied /\ ~Empty /\ (Done \/ (~Done /\ Branch = "last"))
      /\ Conclude(IF req.action # "accept" THEN Decided("create", 0, Floor)
                  ELSE IF WidenLast THEN Decided("widen", walk.target, 0)
                  ELSE Placed)
  BY DEF FallThrough, Same
<1>2. /\ Here \in Seq(AnyRule) /\ Len(Here) \in Nat /\ cursor.at \in Nat
      /\ cursor.at \in 1 .. Len(Here) + 1 /\ req \in Request
  BY HereIs
<1>3. /\ Remembers(Here, walk, cursor.at) /\ walk \in Memory(cursor.at - 1)
  BY WalkIs
<1>4. /\ walk.floor \in 0 .. cursor.at - 1 /\ walk.anchor \in 0 .. cursor.at - 1
      /\ walk.target \in 0 .. cursor.at - 1 /\ walk.doubt \in BOOLEAN
  BY <1>3 DEF Memory
<1>5. Floor \in 1 .. Len(Here) + 1 /\ (Floor = Len(Here) \/ Floor = Len(Here) + 1)
  BY <1>2 DEF Floor
<1>6. ASSUME req.action = "accept" PROVE cursor.at = Len(Here) + 1
  <2>1. ASSUME ~Done PROVE FALSE
    <3>1. R \in AnyRule /\ Branch = "last"
      BY <1>1, <2>1, RuleHere
    <3> QED
      BY <1>6, <3>1, AcceptBranchIs DEF Branch
  <2> QED
    BY <1>2, <2>1 DEF Done
<1>7. ASSUME req.action = "block" PROVE \A k \in 1 .. Len(Here) : Apart(Here[k])
  <2>1. Done
    <3>1. ASSUME ~Done PROVE FALSE
      <4>1. R \in AnyRule /\ Branch = "last"
        BY <1>1, <3>1, RuleHere
      <4> QED
        BY <1>2, <1>7, <4>1, OtherBranchIs DEF Branch
    <3> QED
      BY <3>1
  <2>2. cursor.at = Len(Here) + 1
    BY <1>2, <2>1 DEF Done
  <2>3. (Len(Here) + 1) - 1 = Len(Here)
    BY <1>2
  <2> QED
    BY <1>3, <1>7, <2>2, <2>3 DEF Remembers
<1>8. ASSUME NEW at \in Nat, NEW pos \in 1 .. Len(Here) + 1, Conclude(Decided("create", at, pos)),
             req.action = "block" => \A k \in 1 .. pos - 1 : Apart(Here[k]),
             req.action # "block" =>
               \A k \in pos .. Len(Here) : \/ k > cursor.at \/ Harmless(Here[k])
                                           \/ at = 0 /\ pos = Len(Here) /\ k = Len(Here),
             Promised /\ ~walk.doubt => \A k \in 1 .. pos - 1 : LetsThrough(Here[k]),
             \/ at # 0 /\ Here[at].action = "drop"
             \/ req.action # "accept"
             \/ ~walk.doubt /\ Promised => \A k \in 1 .. Len(Here) : LetsThrough(Here[k])
      PROVE  IInv'
  <2>1. PICK d : d = Decided("create", at, pos)
    OBVIOUS
  <2>2. pos \in Nat /\ at \in Nat /\ "create" \in {"create", "widen", "noop"}
    BY <1>2, <1>8
  <2>3. /\ d.in = cursor.in /\ (~d.doubt => ~walk.doubt /\ ~cursor.outer.doubt)
        /\ d.outcome = "create" /\ d.at = at
    BY ONLY IInv, <2>1, <2>2, DecidedIs
  <2>4. AnswerSound(d)
    BY <1>8, <2>1, CreateSound
  <2>5. Conclude(d)
    BY <1>8, <2>1
  <2>6. \/ d.at # 0 /\ Here[d.at].action = "drop"
        \/ req.action # "accept"
        \/ ~walk.doubt /\ Promised => \A k \in 1 .. Len(Here) : LetsThrough(Here[k])
    BY <1>8, <2>3
  <2> QED
    BY <1>1, <2>3, <2>4, <2>5, <2>6, AnswerKeeps
<1>9. CASE req.action # "accept"
  <2>1. Conclude(Decided("create", 0, Floor))
    BY <1>1, <1>9
  <2>2. req.action = "block" => \A k \in 1 .. Floor - 1 : Apart(Here[k])
    BY <1>2, <1>5, <1>7
  <2>3. \A k \in Floor .. Len(Here) :
          \/ k > cursor.at \/ Harmless(Here[k])
          \/ 0 = 0 /\ Floor = Len(Here) /\ k = Len(Here)
    BY <1>2, <1>5
  <2>4. ~Promised
    BY <1>9 DEF Promised
  <2> QED
    BY <1>5, <1>8, <1>9, <2>1, <2>2, <2>3, <2>4
<1>10. CASE req.action = "accept" /\ WidenLast
  <2>1. PICK d : d = Decided("widen", walk.target, 0)
    OBVIOUS
  <2>2. Conclude(d) /\ walk.target # 0
    BY <1>1, <1>10, <2>1 DEF WidenLast
  <2>3. Done
    BY <1>2, <1>6, <1>10 DEF Done
  <2>4. AnswerSound(d)
    BY <1>10, <2>1, <2>2, <2>3, WidenSound
  <2>5. /\ walk.target \in Nat /\ 0 \in Nat /\ "widen" \in {"create", "widen", "noop"}
    BY <1>2, <1>4
  <2>6. d.in = cursor.in /\ (~d.doubt => ~walk.doubt /\ ~cursor.outer.doubt) /\ d.outcome = "widen"
    BY ONLY IInv, <2>1, <2>5, DecidedIs
  <2> QED
    BY <1>1, <2>2, <2>4, <2>6, AnswerKeeps
<1>11. CASE req.action = "accept" /\ ~WidenLast
  <2>1. Conclude(Placed) /\ cursor.at = Len(Here) + 1 /\ cursor.at - 1 = Len(Here)
    BY <1>1, <1>2, <1>6, <1>11
  <2>2. ~walk.doubt => \A k \in 1 .. Len(Here) : Harmless(Here[k])
    BY <1>3, <1>11, <2>1 DEF Remembers
  <2>3. CASE walk.floor # 0
    <3>1. Placed = Decided("create", walk.floor, walk.floor)
      BY <2>3 DEF Placed
    <3>2. walk.floor \in 1 .. Len(Here) + 1 /\ walk.floor \in Nat /\ walk.floor \in 1 .. Len(Here)
      BY <1>2, <1>4, <2>1, <2>3
    <3>3. /\ \A k \in walk.floor + 1 .. Len(Here) : ~Here[k].enabled
          /\ Harmless(Here[walk.floor]) /\ Here[walk.floor].action = "drop"
      BY <1>3, <2>3 DEF Remembers
    <3>4. ASSUME NEW k \in walk.floor .. Len(Here) PROVE Harmless(Here[k])
      <4>1. CASE k = walk.floor
        BY <3>3, <4>1
      <4>2. CASE k # walk.floor
        <5>1. k \in walk.floor + 1 .. Len(Here) /\ k \in 1 .. Len(Here)
          BY <3>2, <4>2
        <5>2. Here[k] \in AnyRule /\ ~Here[k].enabled
          BY <1>2, <3>3, <5>1
        <5> QED
          BY <5>2, HereIs, ApartIsHarmless
      <4> QED
        BY <4>1, <4>2
    <3>5. Promised /\ ~walk.doubt => \A k \in 1 .. walk.floor - 1 : LetsThrough(Here[k])
      <4>1. \A k \in 1 .. walk.floor - 1 : k \in 1 .. cursor.at - 1 /\ k # walk.floor
        BY <2>1, <3>2
      <4> QED
        BY <1>3, <4>1 DEF Remembers
    <3> QED
      BY <1>8, <1>11, <2>1, <2>3, <3>1, <3>2, <3>3, <3>4, <3>5
  <2>4. ASSUME walk.floor = 0 PROVE Promised /\ ~walk.doubt => \A k \in 1 .. Len(Here) : LetsThrough(Here[k])
    <3>1. \A k \in 1 .. Len(Here) : k # walk.floor
      BY <2>4
    <3> QED
      BY <1>3, <2>1, <3>1 DEF Remembers
  <2>5. CASE walk.floor = 0 /\ walk.anchor # 0 /\ ~walk.doubt
    <3>1. Placed = Decided("create", walk.anchor, walk.anchor + 1)
      BY <2>5 DEF Placed
    <3>2. walk.anchor + 1 \in 1 .. Len(Here) + 1 /\ walk.anchor \in Nat
      BY <1>2, <1>4, <2>1
    <3>3. \A k \in walk.anchor + 1 .. Len(Here) : Harmless(Here[k])
      BY <2>2, <2>5, <3>2
    <3>4. Promised => \A k \in 1 .. (walk.anchor + 1) - 1 : LetsThrough(Here[k])
      <4>1. \A k \in 1 .. (walk.anchor + 1) - 1 : k \in 1 .. Len(Here)
        BY <1>2, <3>2
      <4> QED
        BY <2>4, <2>5, <4>1
    <3> QED
      BY <1>8, <1>11, <2>1, <2>4, <2>5, <3>1, <3>2, <3>3, <3>4
  <2>6. CASE walk.floor = 0 /\ ~(walk.anchor # 0 /\ ~walk.doubt)
    <3>1. Placed = Decided("create", 0, Floor)
      BY <2>6 DEF Placed
    <3>2. \A k \in Floor .. Len(Here) :
            \/ k > cursor.at \/ Harmless(Here[k])
            \/ 0 = 0 /\ Floor = Len(Here) /\ k = Len(Here)
      BY <1>2, <1>5
    <3>3. Promised /\ ~walk.doubt => \A k \in 1 .. Floor - 1 : LetsThrough(Here[k])
      <4>1. \A k \in 1 .. Floor - 1 : k \in 1 .. Len(Here)
        BY <1>2, <1>5
      <4> QED
        BY <2>4, <2>6, <4>1
    <3>4. Conclude(Decided("create", 0, Floor)) /\ 0 \in Nat /\ req.action # "block"
      BY <1>11, <2>1, <3>1
    <3>5. ~walk.doubt /\ Promised => \A k \in 1 .. Len(Here) : LetsThrough(Here[k])
      BY <2>4, <2>6
    <3> QED
      BY <1>5, <1>8, <3>2, <3>3, <3>4, <3>5
  <2> QED
    BY <2>3, <2>5, <2>6
<1> QED
  BY <1>9, <1>10, <1>11

---------------------------------------------------------------------------
(* The invariant holds                                                      *)

\* An answer that can be applied.
LEMMA AnsweredIs ==
    ASSUME IInv, Answered
    PROVE  /\ AnswerSound(decision) /\ decision \in Answer
           /\ rules \in Seq(AnyRule) /\ req \in Request
           /\ Applied \in Seq(AnyRule)
           /\ ReadInFull => \A p \in Packets \ Asked(req) : Verdict(Applied, p) = Verdict(rules, p)
           /\ ~Blank(req.svc)
<1>1. AnswerSound(decision) /\ rules \in Seq(AnyRule) /\ ~Blank(req.svc)
  BY DEF IInv, Answered, Empty
<1>2. decision \in Answer /\ InLayer(decision) /\ Fits(decision, DecidedIn(decision))
  BY <1>1 DEF AnswerSound
<1>3. req \in Request
  BY HereIs
<1> QED
  BY <1>1, <1>2, <1>3, AppliedIs

LEMMA ApplyKeeps ==
    ASSUME IInv, Apply
    PROVE  IInv'
<1>1. /\ Answered /\ applied < MaxApplied /\ rules' = Applied /\ applied' = applied + 1
      /\ cursor' = Top /\ walk' = Fresh /\ decision' = Pending /\ req' = req /\ opts' = opts
  BY DEF Apply, Answered
<1>2. rules' \in Seq(AnyRule)
  BY <1>1, AnsweredIs
<1>3. cursor'.in = 0 /\ cursor'.at = 1 /\ cursor'.outer = Fresh
  BY <1>1 DEF Top
<1>4. Here' = rules'
  BY <1>3 DEF Here
<1>5. Remembers(Here, walk, cursor.at)'
  <2>1. (Fresh \in Memory(0) /\ Fresh.target = 0 /\ Fresh.floor = 0)
    BY DEF Fresh, Memory, Columns
  <2>2. walk' \in Memory(0) /\ walk'.target = 0 /\ walk'.floor = 0
    BY <1>1, <2>1
  <2>3. 1 - 1 = 0 /\ \A k \in 1 .. 0 : FALSE
    OBVIOUS
  <2> QED
    BY <1>3, <2>2, <2>3 DEF Remembers, Memory
<1>6. cursor' \in [in : Nat, at : 1 .. Len(Here') + 1, outer : Memory(0)]
  <2>1. Len(rules') \in Nat
    BY <1>2
  <2>2. Fresh \in Memory(0)
    BY DEF Fresh, Memory, Columns
  <2> QED
    BY <1>1, <1>4, <2>1, <2>2 DEF Top
<1>7. WalkSound'
  BY <1>3, <1>5, <1>6 DEF WalkSound, Memory
<1>8. applied' \in 0 .. MaxApplied /\ ~Answered'
  BY <1>1, BoundAssumption DEF IInv, Answered
<1> QED
  BY <1>1, <1>2, <1>7, <1>8 DEF IInv

LEMMA InitSound == Init => IInv
<1> SUFFICES ASSUME Init PROVE IInv
  OBVIOUS
<1>1. rules \in Seq(AnyRule) /\ req \in Requests /\ opts \in Settings
  BY LayersAssumption DEF Init, AnyRule
<1>2. applied \in 0 .. MaxApplied /\ decision = Pending
  BY BoundAssumption DEF Init
<1>3. cursor = Top /\ walk = Fresh /\ cursor.in = 0 /\ cursor.at = 1
  BY DEF Init, Top
<1>4. Here = rules /\ Len(rules) \in Nat
  BY <1>1, <1>3 DEF Here
<1>5. Fresh \in Memory(0)
  BY DEF Fresh, Memory, Columns
<1>6. cursor \in [in : Nat, at : 1 .. Len(Here) + 1, outer : Memory(0)]
  BY <1>3, <1>4, <1>5 DEF Top
<1>7. WalkSound
  BY <1>3, <1>6, FreshIs DEF WalkSound
<1>8. ~Answered
  BY <1>2 DEF Answered
<1> QED
  BY <1>1, <1>2, <1>7, <1>8 DEF IInv

LEMMA StepKeeps ==
    ASSUME IInv, [Next]_vars
    PROVE  IInv'
<1>1. CASE UNCHANGED vars
  <2>1. Same /\ UNCHANGED <<cursor, walk, decision, applied>>
    BY <1>1 DEF vars, Same
  <2>2. WalkSound'
    BY <2>1, SameWalk
  <2>3. PICK d : d = decision
    OBVIOUS
  <2>4. decision \in {Pending, Incomplete} \/ AnswerSound(d)'
    BY <2>1, <2>3, SameAnswer DEF IInv
  <2>5. decision' \in {Pending, Incomplete} \/ AnswerSound(decision)'
    BY <2>1, <2>3, <2>4
  <2>6. Pending' = Pending /\ Incomplete' = Incomplete
    BY DEF Pending, Incomplete
  <2>7. (Answered => ~Empty)'
    BY <2>1 DEF Same, Answered, Empty, IInv
  <2> QED
    BY <2>1, <2>2, <2>5, <2>6, <2>7 DEF IInv, Same
<1>2. CASE Review
  <2>1. Same /\ UNCHANGED <<cursor, walk, applied>> /\ decision' = Incomplete
    BY <1>2 DEF Review, Same
  <2>2. WalkSound'
    BY <2>1, SameWalk
  <2>3. (Answered => ~Empty)'
    BY <2>1 DEF Answered, Incomplete
  <2> QED
    BY <2>1, <2>2, <2>3 DEF IInv, Same
<1>3. CASE Next /\ ~Review
  BY <1>3, SkipKeeps, NoteKeeps, DoubtKeeps, DivertKeeps, CarveKeeps, EnterKeeps, GrantedKeeps,
     BlockedKeeps, FlooredKeeps, AboveFirstKeeps, ConsiderKeeps, FallThroughKeeps, ApplyKeeps
  DEF Next
<1> QED
  BY <1>1, <1>2, <1>3

\* What the walk has established of the rules it passed, and the answer of them, is an invariant.
THEOREM Invariant == Spec => []IInv
<1>1. Init => IInv
  BY InitSound
<1>2. IInv /\ [Next]_vars => IInv'
  BY StepKeeps
<1> QED
  BY <1>1, <1>2, PTL DEF Spec

\* The variables hold what the walk, the decision and the layer may be (decide()).
THEOREM TypeCorrect == Spec => []TypeOK
<1>1. IInv => TypeOK
  <2> SUFFICES ASSUME IInv PROVE TypeOK
    OBVIOUS
  <2>1. rules \in Seq(PlainRule \cup LayerRule) /\ req \in Requests /\ opts \in Settings
        /\ applied \in 0 .. MaxApplied
    BY DEF IInv, AnyRule
  <2>2. cursor.in \in 0 .. Len(rules) /\ cursor.outer \in Memory(cursor.in)
    <3>1. cursor.in = 0 \/ cursor.in \in 1 .. Len(rules)
      BY DEF IInv, WalkSound, Entered
    <3>2. Len(rules) \in Nat
      BY <2>1
    <3> QED
      BY <3>1, <3>2 DEF IInv, WalkSound
  <2>3. cursor.at \in 1 .. Len(Here) + 1 /\ walk \in Memory(cursor.at)
    BY HereIs, WalkIs
  <2>4. ASSUME Answered
        PROVE  /\ decision.outcome \in {"noop", "widen", "create"}
               /\ decision.outcome = "create" =>
                    decision.pos \in 1 .. (IF decision.in = 0 THEN Len(rules)
                                           ELSE Len(rules[decision.in].inline)) + 1
    <3>1. Fits(decision, DecidedIn(decision))
      BY <2>4, AnsweredIs DEF AnswerSound
    <3> QED
      BY <3>1 DEF Fits, DecidedIn
  <2> QED
    BY <2>1, <2>2, <2>3, <2>4 DEF TypeOK, Answered
<1> QED
  BY <1>1, Invariant, PTL

\* No application of a decision changes what happens to a packet that was not asked for: a new
\* rule matches just the request, a widened one equals it in the two other columns (execute()).
\* Left out is a service that is not read in full.
THEOREM NothingElse == Spec => GrantsNothingElse
<1>1. IInv /\ [Next]_vars =>
        [/\ Apply
         /\ Understood(req)
         /\ \A r \in AllRules : ~Loose(req.svc, r.svc)
         => \A p \in Packets \ Asked(req) : Verdict(rules', p) = Verdict(rules, p)]_vars
  <2> SUFFICES ASSUME IInv, Apply, ReadInFull
               PROVE  \A p \in Packets \ Asked(req) : Verdict(rules', p) = Verdict(rules, p)
    BY DEF ReadInFull
  <2>1. Answered /\ rules' = Applied
    BY DEF Apply, Answered
  <2> QED
    BY <2>1, AnsweredIs
<1> QED
  BY <1>1, Invariant, PTL DEF Spec, GrantsNothingElse

---------------------------------------------------------------------------
(* What a block request denies                                              *)

\* A block request denies the whole flow: nothing above the new rule, or above the drop that is
\* named, matches a packet of it (_decide_nonaccept()).
THEOREM BlockIsDeny == Spec => []BlockDenies
<1>1. IInv => BlockDenies
  <2> SUFFICES ASSUME IInv, Answered, req.action = "block",
                      \A r \in AllRules : ~r.dynamic /\ ~Misjudged(r),
                      NEW p \in Asked(req)
               PROVE  Verdict(Applied, p) = "drop"
    BY DEF BlockDenies
  <2>1. /\ AnswerSound(decision) /\ decision \in Answer
        /\ rules \in Seq(AnyRule) /\ req \in Request /\ p \in Packets
    BY AnsweredIs DEF Asked
  <2>2. /\ decision.in = 0 /\ Blocks(decision) /\ Fits(decision, rules)
    BY <2>1 DEF AnswerSound, DecidedIn
  <2>3. Applied = Changed(rules)
    BY <2>2 DEF Applied
  <2>4. ASSUME NEW k \in 1 .. Len(rules), Apart(rules[k]) PROVE ~Matches(rules[k], p)
    <3>1. rules[k] \in AllRules /\ rules[k] \in AnyRule
      BY <2>1 DEF AllRules
    <3>2. ~rules[k].dynamic /\ ~Misjudged(rules[k])
      BY <3>1
    <3>3. CASE ~rules[k].enabled
      BY <3>3 DEF Matches
    <3>4. CASE OutOfPath(req, rules[k])
      BY <2>1, <3>1, <3>2, <3>4, OutOfPathMisses
    <3> QED
      BY <2>4, <3>2, <3>3, <3>4 DEF Apart
  <2>5. CASE decision.outcome = "create"
    <3>1. decision.pos \in 1 .. Len(rules) + 1
      BY <2>2, <2>5 DEF Fits
    <3>2. MissesTo(rules, p, decision.pos)
      <4>1. \A k \in 1 .. decision.pos - 1 : k \in 1 .. Len(rules)
        BY <2>1, <3>1
      <4> QED
        BY <2>2, <2>4, <2>5, <4>1 DEF Blocks, MissesTo
    <3>3. NewRule \in PlainRule /\ Matches(NewRule, p) /\ NewRule.verdict = "drop"
      BY <2>1, NewRuleIs
    <3>4. NewRule \in AnyRule /\ RuleVerdict(NewRule, p) = "drop"
      BY <3>3, PlainVerdict DEF AnyRule
    <3> QED
      BY <2>1, <2>3, <2>5, <3>1, <3>2, <3>3, <3>4, InsertedDecides, ChangedIs
  <2>6. CASE decision.outcome = "noop"
    <3> DEFINE r == rules[decision.at]
    <3>1. /\ decision.at \in 1 .. Len(rules) /\ r.enabled /\ r.action = "drop" /\ ~r.dynamic /\ Settled(r)
          /\ \A k \in 1 .. decision.at - 1 : Apart(rules[k])
      BY <2>2, <2>6 DEF Blocks
    <3>2. r \in AnyRule
      BY <2>1, <3>1
    <3>3. Matches(r, p)
      <4>1. ~Misjudged(r) /\ ~Blank(req.svc)
        BY <2>1, <3>1, AnsweredIs DEF AllRules
      <4> QED
        BY <2>1, <3>1, <3>2, <4>1, WithinMatches DEF Settled
    <3>4. RuleVerdict(r, p) = "drop"
      BY <3>1, <3>2, RuleFields DEF RuleVerdict
    <3>5. MissesTo(rules, p, decision.at)
      <4>1. \A k \in 1 .. decision.at - 1 : k \in 1 .. Len(rules)
        BY <2>1, <3>1
      <4> QED
        BY <2>4, <3>1, <4>1 DEF MissesTo
    <3>6. Verdict(rules, p) = RuleVerdict(r, p)
      BY <2>1, <3>1, <3>3, <3>5, VerdictAt
    <3> QED
      BY <2>3, <2>6, <3>4, <3>6, ChangedIs
  <2> QED
    BY <2>2, <2>5, <2>6 DEF Blocks
<1> QED
  BY <1>1, Invariant, PTL

---------------------------------------------------------------------------
(* What an answer promises                                                  *)

\* The layer settles p by a rule of its own, with this verdict.
Settles(layer, p, verdict) ==
    FirstHit(layer, p) # 0 /\ RuleVerdict(layer[FirstHit(layer, p)], p) = verdict

LEMMA SettlesVerdict ==
    ASSUME NEW layer, NEW p, NEW v, Settles(layer, p, v)
    PROVE  Verdict(layer, p) = v
BY DEF Settles, Verdict, RuleVerdict

\* A rule that applies a layer that settles p has its verdict.
LEMMA SettlesInline ==
    ASSUME NEW r \in LayerRule, NEW new \in Seq(PlainRule), NEW p, NEW v, Settles(new, p, v)
    PROVE  RuleVerdict([r EXCEPT !.inline = new], p) = v
<1> DEFINE x == [r EXCEPT !.inline = new]
           j == FirstHit(new, p)
<1>1. x.inline = new /\ x.layered
  BY InlineTyped
<1>2. new \in Seq(AnyRule) /\ j # 0
  BY PlainAreRules DEF Settles
<1>3. j \in 1 .. Len(new)
  BY <1>2, HitOrMiss
<1>4. new[j] \in PlainRule
  BY <1>3
<1>5. new[j].verdict = v
  BY <1>4, PlainVerdict DEF Settles
<1> HIDE DEF x
<1>6. InlineVerdict(x, p) = v
  BY <1>1, <1>2, <1>5 DEF InlineVerdict
<1>7. RuleVerdict(x, p) = v
  BY <1>1, <1>6 DEF RuleVerdict
<1> QED
  BY <1>7 DEF x

\* The first hit is at i.
LEMMA SettledAt ==
    ASSUME NEW layer \in Seq(AnyRule), NEW p, NEW i \in 1 .. Len(layer),
           Matches(layer[i], p), MissesTo(layer, p, i)
    PROVE  Settles(layer, p, RuleVerdict(layer[i], p))
<1>1. FirstHit(layer, p) = i /\ i # 0
  BY FirstHitIs
<1> QED
  BY <1>1 DEF Settles

\* A rule that accepts p settles it where no rule above it says otherwise.
LEMMA AcceptedAt ==
    ASSUME NEW layer \in Seq(AnyRule), NEW p, NEW i \in 1 .. Len(layer),
           Matches(layer[i], p), RuleVerdict(layer[i], p) = "accept",
           \A k \in 1 .. i - 1 : Matches(layer[k], p) => RuleVerdict(layer[k], p) = "accept"
    PROVE  Settles(layer, p, "accept")
<1> DEFINE h == FirstHit(layer, p)
<1>1. h \in 1 .. Len(layer) /\ Matches(layer[h], p) /\ MissesTo(layer, p, h)
  <2>1. ASSUME MissesTo(layer, p, Len(layer) + 1) PROVE FALSE
    <3>1. i \in 1 .. (Len(layer) + 1) - 1
      OBVIOUS
    <3> QED
      BY <2>1, <3>1 DEF MissesTo
  <2> QED
    BY <2>1, HitOrMiss
<1> HIDE DEF h
<1>2. ~(h > i)
  <2>1. ASSUME h > i PROVE FALSE
    <3>1. i \in 1 .. h - 1
      BY <1>1, <2>1
    <3> QED
      BY <1>1, <3>1 DEF MissesTo
  <2> QED
    BY <2>1
<1>3. RuleVerdict(layer[h], p) = "accept"
  <2>1. CASE h = i
    BY <2>1
  <2>2. CASE h < i
    <3>1. h \in 1 .. i - 1
      BY <1>1, <2>2
    <3> QED
      BY <1>1, <3>1
  <2> QED
    BY <1>1, <1>2, <2>1, <2>2
<1>4. h # 0
  BY <1>1
<1> QED
  BY <1>3, <1>4 DEF Settles, h

LEMMA LetThrough ==
    ASSUME NEW r, LetsThrough(r), NEW p \in Asked(req), Matches(r, p)
    PROVE  RuleVerdict(r, p) = "accept" /\ r.verdict = "accept"
BY DEF LetsThrough, RuleVerdict

\* A layer in which an access decision that grants is written accepts the packet.
LEMMA GrantsIn ==
    ASSUME NEW layer \in Seq(AnyRule), Fits(decision, layer), Grants(decision, layer),
           req \in Request, req.action = "accept", ~Blank(req.svc), decision \in Answer,
           \A k \in 1 .. Len(layer) : ~Misjudged(layer[k]),
           NEW p \in Asked(req)
    PROVE  Settles(Changed(layer), p, "accept")
<1>1. p \in Packets
  BY DEF Asked
<1>2. CASE decision.outcome = "create"
  <2> DEFINE i == decision.pos
             new == InsertAt(layer, i, NewRule)
  <2>1. i \in 1 .. Len(layer) + 1 /\ i \in Nat /\ Len(layer) \in Nat
    BY <1>2 DEF Fits, Answer
  <2>2. NewRule \in PlainRule /\ Matches(NewRule, p) /\ NewRule.verdict = "accept"
    BY <1>1, NewRuleIs
  <2>3. NewRule \in AnyRule /\ RuleVerdict(NewRule, p) = "accept"
    BY <2>2, PlainVerdict DEF AnyRule
  <2>4. /\ new \in Seq(AnyRule) /\ Len(new) = Len(layer) + 1 /\ new[i] = NewRule
        /\ \A k \in 1 .. i - 1 : new[k] = layer[k]
    BY <2>1, <2>3, InsertIs
  <2> HIDE DEF new
  <2>5. \A k \in 1 .. i - 1 : Matches(new[k], p) => RuleVerdict(new[k], p) = "accept"
    BY <1>2, <2>4, LetThrough DEF Grants
  <2>6. i \in 1 .. Len(new)
    BY <2>1, <2>4
  <2>7. Settles(new, p, "accept")
    BY <2>2, <2>3, <2>4, <2>5, <2>6, AcceptedAt
  <2> QED
    BY <1>2, <2>7, ChangedIs DEF new
<1>3. CASE decision.outcome = "widen"
  <2> DEFINE i == decision.at
             r == layer[i]
             w == Added(r, decision.field)
             new == [layer EXCEPT ![i] = w]
  <2>1. /\ i \in 1 .. Len(layer) /\ decision.field \in Columns /\ CanWiden(r, decision.field)
        /\ i \in Nat /\ Len(layer) \in Nat
    BY <1>3 DEF Fits, Answer
  <2>2. r \in AnyRule
    BY <2>1
  <2>3. r \in PlainRule /\ ~r.svc.unknown
    BY <2>1, <2>2, AcceptIsPlain, CanWidenCells DEF CanWiden
  <2>4. w \in PlainRule /\ w.verdict = r.verdict
    BY <2>1, <2>3, AddedIs
  <2>5. Matches(w, p)
    <3>1. ~Misjudged(r)
      BY <2>1
    <3> HIDE DEF r
    <3> QED
      BY <1>1, <2>1, <2>2, <3>1, WideningAdds
  <2>6. r.verdict = "accept"
    BY <2>1, <2>2, RuleFields DEF CanWiden
  <2>7. RuleVerdict(w, p) = "accept" /\ w \in AnyRule
    BY <2>4, <2>6, PlainVerdict DEF AnyRule
  <2> HIDE DEF w
  <2>8. /\ new \in Seq(AnyRule) /\ Len(new) = Len(layer) /\ new[i] = w
        /\ \A k \in 1 .. i - 1 : new[k] = layer[k]
    BY <2>1, <2>7
  <2> HIDE DEF new
  <2>9. \A k \in 1 .. i - 1 : Matches(new[k], p) => RuleVerdict(new[k], p) = "accept"
    BY <1>3, <2>8, LetThrough DEF Grants
  <2>10. Settles(new, p, "accept")
    BY <2>1, <2>5, <2>7, <2>8, <2>9, AcceptedAt
  <2>11. Changed(layer) = new
    BY <1>3, ChangedIs DEF new, w
  <2> QED
    BY <2>10, <2>11
<1>4. CASE decision.outcome = "noop"
  <2> DEFINE i == decision.at
             r == layer[i]
  <2>1. /\ i \in 1 .. Len(layer) /\ Matches(r, p)
        /\ \A k \in 1 .. i - 1 : LetsThrough(layer[k])
    BY <1>4 DEF Grants, MatchesAsked
  <2>2. r \in AnyRule
    BY <2>1
  <2>3. RuleVerdict(r, p) = "accept"
    <3>1. CASE LetsThrough(r)
      BY <2>1, <3>1, LetThrough
    <3>2. CASE /\ r \in LayerRule /\ r.cleanup = "accept"
               /\ \A k \in 1 .. Len(r.inline) : LetsThrough(r.inline[k])
      <4> DEFINE h == FirstHit(r.inline, p)
      <4>1. r.layered /\ r.inline \in Seq(AnyRule)
        BY <3>2, PlainAreRules DEF LayerRule, RuleOf
      <4>2. CASE h = 0
        BY <3>2, <4>1, <4>2 DEF RuleVerdict, InlineVerdict
      <4>3. CASE h # 0
        <5>1. h \in 1 .. Len(r.inline) /\ Matches(r.inline[h], p)
          BY <4>1, <4>3, HitOrMiss
        <5>2. r.inline[h].verdict = "accept"
          BY <3>2, <5>1, LetThrough
        <5> QED
          BY <4>1, <4>3, <5>2 DEF RuleVerdict, InlineVerdict
      <4> QED
        BY <4>2, <4>3
    <3> QED
      BY <1>4, <3>1, <3>2 DEF Grants
  <2>4. \A k \in 1 .. i - 1 : Matches(layer[k], p) => RuleVerdict(layer[k], p) = "accept"
    BY <2>1, LetThrough
  <2>5. Settles(layer, p, "accept")
    BY <2>1, <2>3, <2>4, AcceptedAt
  <2> QED
    BY <1>4, <2>5, ChangedIs
<1> QED
  BY <1>2, <1>3, <1>4 DEF Fits

\* The layer with the decision written into an inline layer of it.
LEMMA AppliedInside ==
    ASSUME IInv, Answered, decision.in # 0
    PROVE  /\ decision.in \in 1 .. Len(rules) /\ rules[decision.in] \in LayerRule
           /\ DecidedIn(decision) = rules[decision.in].inline
           /\ DecidedIn(decision) \in Seq(PlainRule) /\ DecidedIn(decision) \in Seq(AnyRule)
           /\ Changed(DecidedIn(decision)) \in Seq(PlainRule)
           /\ Applied \in Seq(AnyRule) /\ Len(Applied) = Len(rules)
           /\ Applied[decision.in] =
                [rules[decision.in] EXCEPT !.inline = Changed(DecidedIn(decision))]
           /\ \A k \in 1 .. decision.in - 1 : Applied[k] = rules[k]
<1> DEFINE i == decision.in
           r == rules[i]
           new == Changed(r.inline)
           x == [r EXCEPT !.inline = new]
<1>1. AnswerSound(decision) /\ rules \in Seq(AnyRule) /\ req \in Request /\ Applied \in Seq(AnyRule)
  BY AnsweredIs
<1>2. i \in 1 .. Len(rules) /\ r \in LayerRule /\ DecidedIn(decision) = r.inline
  BY <1>1 DEF AnswerSound, InLayer, DecidedIn
<1>3. r.inline \in Seq(PlainRule)
  BY <1>2 DEF LayerRule, RuleOf
<1>4. r.inline \in Seq(AnyRule)
  BY <1>3, PlainAreRules
<1>5. new \in Seq(PlainRule)
  BY <1>1, <1>2, <1>3, ChangedTyped DEF AnswerSound
<1>6. Applied = [rules EXCEPT ![i] = x]
  BY DEF Applied
<1> HIDE DEF x
<1>7. Len(Applied) = Len(rules) /\ Applied[i] = x /\ \A k \in 1 .. i - 1 : Applied[k] = rules[k]
  BY <1>1, <1>2, <1>6
<1> QED
  BY <1>1, <1>2, <1>3, <1>4, <1>5, <1>7 DEF x

\* An answer to an access request that tells of nothing unresolved is true: every packet asked
\* for is accepted once it is applied (decide(), execute()).
THEOREM AnswerHolds == Spec => []UnnotedAnswerHolds
<1>1. IInv => UnnotedAnswerHolds
  <2> SUFFICES ASSUME IInv, Answered, req.action = "accept", ~req.restricted, MakesItWork,
                      ~decision.doubt, \A r \in AllRules : ~Misjudged(r),
                      NEW p \in Asked(req)
               PROVE  Verdict(Applied, p) = "accept"
    BY DEF UnnotedAnswerHolds, Silent, Works
  <2>1. Promised
    BY DEF Promised
  <2>2. /\ AnswerSound(decision) /\ decision \in Answer /\ ~Blank(req.svc)
        /\ rules \in Seq(AnyRule) /\ req \in Request
    BY AnsweredIs
  <2>3. /\ Fits(decision, DecidedIn(decision)) /\ Grants(decision, DecidedIn(decision))
        /\ decision.in # 0 => /\ MatchesAsked(rules[decision.in])
                              /\ \A k \in 1 .. decision.in - 1 : LetsThrough(rules[k])
    BY <2>1, <2>2 DEF AnswerSound
  <2>4. CASE decision.in = 0
    <3>1. DecidedIn(decision) = rules /\ Applied = Changed(rules)
      BY <2>4 DEF DecidedIn, Applied
    <3>2. \A k \in 1 .. Len(rules) : ~Misjudged(rules[k])
      BY <2>2 DEF AllRules
    <3>3. Settles(Applied, p, "accept")
      BY <2>2, <2>3, <3>1, <3>2, GrantsIn
    <3> QED
      BY <3>3, SettlesVerdict
  <2>5. CASE decision.in # 0
    <3> DEFINE i == decision.in
               r == rules[i]
               layer == DecidedIn(decision)
               x == [r EXCEPT !.inline = Changed(layer)]
    <3>1. /\ i \in 1 .. Len(rules) /\ r \in LayerRule /\ layer \in Seq(AnyRule)
          /\ Changed(layer) \in Seq(PlainRule)
          /\ Applied \in Seq(AnyRule) /\ Len(Applied) = Len(rules) /\ Applied[i] = x
          /\ \A k \in 1 .. i - 1 : Applied[k] = rules[k]
      BY <2>5, AppliedInside
    <3>2. Settles(Changed(layer), p, "accept")
      <4>1. \A k \in 1 .. Len(layer) : layer[k] \in AllRules
        <5>1. layer = r.inline /\ layer \in Seq(PlainRule)
          BY <2>5, AppliedInside
        <5> QED
          BY <2>2, <3>1, <5>1 DEF AllRules
      <4>2. \A k \in 1 .. Len(layer) : ~Misjudged(layer[k])
        BY <4>1
      <4> QED
        BY <2>2, <2>3, <3>1, <4>2, GrantsIn
    <3>3. RuleVerdict(x, p) = "accept"
      BY <3>1, <3>2, SettlesInline
    <3>4. Matches(x, p)
      BY <2>3, <2>5, <3>1, InlineTyped DEF MatchesAsked
    <3> HIDE DEF x
    <3>5. \A k \in 1 .. i - 1 : Matches(Applied[k], p) => RuleVerdict(Applied[k], p) = "accept"
      BY <2>3, <2>5, <3>1, LetThrough
    <3>6. Settles(Applied, p, "accept")
      BY <3>1, <3>3, <3>4, <3>5, AcceptedAt
    <3> QED
      BY <3>6, SettlesVerdict
  <2> QED
    BY <2>4, <2>5
<1> QED
  BY <1>1, Invariant, PTL

---------------------------------------------------------------------------
(* What a decision does not open                                            *)

\* A layer that drops p at a possible deny the walk passed does so after the decision is
\* written, but for the exceptions LeapsNoPossibleDeny names.
LEMMA DropStays ==
    ASSUME NEW layer \in Seq(AnyRule), Fits(decision, layer), StaysBelow(decision, layer),
           decision \in Answer, req \in Request,
           ~(decision.outcome = "widen" /\ decision.doubt),
           ~(/\ decision.outcome = "create" /\ decision.at = 0 /\ decision.pos = Len(layer)
             /\ PossibleDeny(layer[Len(layer)])),
           NEW p \in Asked(req), Settles(layer, p, "drop"), PassedDeny(layer, FirstHit(layer, p))
    PROVE  Settles(Changed(layer), p, "drop")
<1> DEFINE h == FirstHit(layer, p)
<1>1. /\ h \in 1 .. Len(layer) /\ h \in Nat /\ Len(layer) \in Nat
      /\ Matches(layer[h], p) /\ MissesTo(layer, p, h) /\ RuleVerdict(layer[h], p) = "drop"
      /\ layer[h] \in AnyRule
  <2>1. h # 0 /\ RuleVerdict(layer[h], p) = "drop"
    BY DEF Settles
  <2>2. h \in 1 .. Len(layer) /\ Matches(layer[h], p) /\ MissesTo(layer, p, h)
    BY <2>1, HitOrMiss
  <2> QED
    BY <2>1, <2>2
<1>2. /\ h <= decision.stop /\ PossibleDeny(layer[h])
      /\ ~(h = decision.stop /\ layer[h].dynamic /\ decision.outcome = "widen")
  BY DEF PassedDeny
<1> HIDE DEF h
<1>3. ~Harmless(layer[h])
  BY <1>1, <1>2 DEF Harmless
<1>4. decision.stop \in Nat /\ p \in Packets
  BY DEF Answer, Asked
<1>5. CASE decision.outcome = "create"
  <2> DEFINE i == decision.pos
             new == InsertAt(layer, i, NewRule)
  <2>1. i \in 1 .. Len(layer) + 1 /\ i \in Nat
    BY <1>5 DEF Fits, Answer
  <2>2. NewRule \in PlainRule /\ Matches(NewRule, p)
    BY <1>4, NewRuleIs
  <2>3. NewRule \in AnyRule
    BY <2>2 DEF AnyRule
  <2>4. /\ new \in Seq(AnyRule) /\ Len(new) = Len(layer) + 1 /\ new[i] = NewRule
        /\ \A k \in 1 .. i - 1 : new[k] = layer[k]
    <3>1. layer \in Seq(AnyRule)
      OBVIOUS
    <3> QED
      BY ONLY <2>1, <2>3, <3>1, InsertIs
  <2>5. Changed(layer) = new
    BY <1>5, ChangedIs
  <2> HIDE DEF new
  <2>6. CASE h < i
    <3>1. h \in 1 .. Len(new) /\ new[h] = layer[h]
      BY <1>1, <2>1, <2>4, <2>6
    <3>2. MissesTo(new, p, h)
      <4>1. \A k \in 1 .. h - 1 : k \in 1 .. i - 1
        BY <1>1, <2>1, <2>6
      <4> QED
        BY <1>1, <2>4, <4>1 DEF MissesTo
    <3>3. Settles(new, p, RuleVerdict(new[h], p))
      BY <1>1, <2>4, <3>1, <3>2, SettledAt
    <3> QED
      BY <1>1, <2>5, <3>1, <3>3
  <2>7. CASE ~(h < i)
    <3>1. req.action = "block"
      <4>1. ASSUME req.action # "block" PROVE FALSE
        <5>1. h \in i .. Len(layer)
          BY <1>1, <2>1, <2>7
        <5>2. \/ h > decision.stop \/ Harmless(layer[h])
              \/ decision.at = 0 /\ i = Len(layer) /\ h = Len(layer)
          BY <1>5, <4>1, <5>1 DEF StaysBelow
        <5>3. decision.at = 0 /\ i = Len(layer) /\ h = Len(layer)
          BY <1>1, <1>2, <1>3, <1>4, <5>2
        <5> QED
          BY <1>2, <1>5, <5>3
      <4> QED
        BY <4>1
    <3>2. RuleVerdict(NewRule, p) = "drop"
      BY <2>2, <3>1, NewRuleIs, PlainVerdict
    <3>3. MissesTo(new, p, i)
      <4>1. \A k \in 1 .. i - 1 : k \in 1 .. h - 1
        BY <1>1, <2>1, <2>7
      <4> QED
        BY <1>1, <2>4, <4>1 DEF MissesTo
    <3>4. i \in 1 .. Len(new)
      BY <1>1, <2>1, <2>4
    <3>5. Settles(new, p, RuleVerdict(new[i], p))
      BY <2>2, <2>4, <3>3, <3>4, SettledAt
    <3> QED
      BY <2>4, <2>5, <3>2, <3>5
  <2> QED
    BY <2>6, <2>7
<1>6. CASE decision.outcome = "widen"
  <2>1. \/ h > decision.stop \/ decision.doubt \/ Harmless(layer[h])
        \/ h = decision.stop /\ layer[h].dynamic
    BY <1>1, <1>6 DEF StaysBelow
  <2> QED
    BY <1>1, <1>2, <1>3, <1>4, <1>6, <2>1
<1>7. CASE decision.outcome = "noop"
  BY <1>7, ChangedIs
<1> QED
  BY <1>5, <1>6, <1>7 DEF Fits

\* No decision opens, once applied, a packet asked for that a possible deny the walk passed
\* denies, but for a widening in doubt and for a rule put above a possible deny at the bottom
\* (_decide(), _placement()).
THEOREM LeapsNone == Spec => []LeapsNoPossibleDeny
<1>1. IInv => LeapsNoPossibleDeny
  <2> SUFFICES ASSUME IInv, Answered, ~(decision.outcome = "widen" /\ decision.doubt), ~FlooredAboveDoubt,
                      NEW p \in Asked(req), DeniedOnTheWay(p)
               PROVE  Verdict(Applied, p) = "drop"
    BY DEF LeapsNoPossibleDeny, Leaps
  <2> DEFINE hit == FirstHit(rules, p)
             sub == FirstHit(rules[hit].inline, p)
             layer == DecidedIn(decision)
  <2>1. /\ AnswerSound(decision) /\ decision \in Answer
        /\ rules \in Seq(AnyRule) /\ req \in Request
    BY AnsweredIs
  <2>2. /\ Fits(decision, layer) /\ StaysBelow(decision, layer)
    BY <2>1 DEF AnswerSound
  <2>3. ~(/\ decision.outcome = "create" /\ decision.at = 0 /\ decision.pos = Len(layer)
          /\ PossibleDeny(layer[Len(layer)]))
    BY DEF FlooredAboveDoubt, DecidedIn
  <2>4. /\ hit # 0 /\ Verdict(rules, p) = "drop"
        /\ \/ decision.in = 0 /\ PassedDeny(rules, hit)
           \/ decision.in # 0 /\ hit < decision.in /\ PossibleDeny(rules[hit])
           \/ decision.in # 0 /\ hit = decision.in /\ PassedDeny(rules[hit].inline, sub)
    BY DEF DeniedOnTheWay
  <2>5. /\ hit \in 1 .. Len(rules) /\ Matches(rules[hit], p) /\ MissesTo(rules, p, hit)
    BY <2>1, <2>4, HitOrMiss
  <2>6. RuleVerdict(rules[hit], p) = "drop"
    BY <2>4 DEF Verdict, RuleVerdict
  <2> HIDE DEF hit
  <2>7. CASE decision.in = 0
    <3>1. layer = rules /\ Applied = Changed(rules) /\ PassedDeny(rules, hit)
      BY <2>4, <2>7 DEF DecidedIn, Applied
    <3>2. Settles(rules, p, "drop")
      BY <2>4, <2>6 DEF Settles, hit
    <3>3. Settles(Changed(rules), p, "drop")
      BY <2>1, <2>2, <2>3, <3>1, <3>2, DropStays DEF hit
    <3> QED
      BY <3>1, <3>3, SettlesVerdict
  <2>8. CASE decision.in # 0
    <3> DEFINE i == decision.in
               r == rules[i]
               x == [r EXCEPT !.inline = Changed(layer)]
    <3>1. /\ i \in 1 .. Len(rules) /\ r \in LayerRule /\ layer = r.inline
          /\ layer \in Seq(PlainRule) /\ layer \in Seq(AnyRule)
          /\ Changed(layer) \in Seq(PlainRule)
          /\ Applied \in Seq(AnyRule) /\ Len(Applied) = Len(rules) /\ Applied[i] = x
          /\ \A k \in 1 .. i - 1 : Applied[k] = rules[k]
      BY <2>8, AppliedInside
    <3>2. CASE hit < i
      <4>1. hit \in 1 .. Len(Applied) /\ Applied[hit] = rules[hit]
        BY <2>5, <3>1, <3>2
      <4>2. MissesTo(Applied, p, hit)
        <5>1. \A k \in 1 .. hit - 1 : k \in 1 .. i - 1
          BY <2>5, <3>1, <3>2
        <5> QED
          BY <2>5, <3>1, <5>1 DEF MissesTo
      <4>3. Verdict(Applied, p) = RuleVerdict(Applied[hit], p)
        BY <2>5, <3>1, <4>1, <4>2, VerdictAt
      <4> QED
        BY <2>6, <4>1, <4>3
    <3>3. CASE hit = i /\ PassedDeny(layer, FirstHit(layer, p))
      <4> DEFINE s == FirstHit(layer, p)
      <4>1. s # 0
        BY <3>3 DEF PassedDeny
      <4>2. s \in 1 .. Len(layer)
        BY <3>1, <4>1, HitOrMiss
      <4>3. layer[s] \in PlainRule
        BY <3>1, <4>2
      <4>4. RuleVerdict(layer[s], p) = layer[s].verdict
        BY <4>3, PlainVerdict
      <4>5. r.layered
        BY <3>1 DEF LayerRule, RuleOf
      <4>6. InlineVerdict(r, p) = "drop"
        BY <2>6, <3>3, <4>5 DEF RuleVerdict
      <4> HIDE DEF layer
      <4>7. layer[s].verdict = "drop"
        BY <3>1, <4>1, <4>6 DEF InlineVerdict
      <4>8. Settles(layer, p, "drop")
        BY <4>1, <4>4, <4>7 DEF Settles
      <4>9. Settles(Changed(layer), p, "drop")
        BY <2>1, <2>2, <2>3, <3>1, <3>3, <4>8, DropStays
      <4>10. RuleVerdict(x, p) = "drop"
        BY <3>1, <4>9, SettlesInline
      <4>11. Matches(x, p)
        BY <2>5, <3>1, <3>3, InlineTyped
      <4> HIDE DEF x
      <4>12. MissesTo(Applied, p, i)
        BY <2>5, <3>1, <3>3 DEF MissesTo
      <4>13. Verdict(Applied, p) = RuleVerdict(Applied[i], p)
        BY <3>1, <4>11, <4>12, VerdictAt
      <4> QED
        BY <3>1, <4>10, <4>13
    <3>4. \/ hit < i
          \/ hit = i /\ PassedDeny(layer, FirstHit(layer, p))
      BY <2>4, <2>8, <3>1
    <3> QED
      BY <3>2, <3>3, <3>4
  <2> QED
    BY <2>7, <2>8
<1> QED
  BY <1>1, Invariant, PTL

-----------------------------------------------------------------------------
(* A request asked again. The walk is followed rule by rule: Trail gives   *)
(* what it remembers at each, so that a walk of the changed layer can be   *)
(* compared with the walk that decided the change.                         *)


\* A request that the walk is to make work, asked in full and understood.
Kept == req.action = "accept" /\ ~req.restricted /\ MakesItWork /\ ~Empty /\ Understood(req)

\* AcceptBranch, where bottom says that the rule is the real bottom cleanup.
BranchOf(r, bottom) ==
    CASE ~r.enabled -> "skip"
      [] r.enabled /\ ~Interferes(req, r) -> IF r.dynamic THEN "skip" ELSE "consider"
      [] OTHER ->
           IF r.dynamic THEN "divert"
           ELSE IF /\ ForApp(req.svc) /\ r.action = "drop" /\ Interferes(req, r) /\ ~bottom
                   /\ ~Conditional(r) /\ ~Unresolved(r) /\ ~Approximate(r) THEN "carve"
           ELSE IF r.layered
                THEN IF Conditional(r) \/ Unresolved(r) \/ ~Within(req, r) THEN "doubt"
                     ELSE "enter"
           ELSE IF Opaque(r)
                THEN IF r.action = "accept"
                     THEN IF CantCover(req, r) THEN "skip" ELSE "note"
                     ELSE "doubt"
           ELSE IF Conditional(r) THEN IF r.action = "accept" THEN "skip" ELSE "doubt"
           ELSE IF Unproven(r)
                THEN IF /\ ~ServiceIndeterminate(req.svc, r.svc)
                        /\ Within(req, r)
                        /\ ~bottom
                     THEN "blocked" ELSE "doubt"
           ELSE IF Within(req, r)
                THEN IF r.action = "accept" THEN "granted"
                     ELSE IF bottom THEN "floor" ELSE "blocked"
           ELSE IF r.action = "drop" /\ ~CatchAll(r) THEN "blocked"
           ELSE "consider"

\* Rule k is the real bottom cleanup of the layer: no enabled rule follows it.
AtBottom(layer, k) ==
    CatchAll(layer[k]) /\ layer[k].enabled /\ \A j \in k + 1 .. Len(layer) : ~layer[j].enabled

\* The branch that takes rule k of the layer.
BranchAt(layer, k) == BranchOf(layer[k], AtBottom(layer, k))

\* AcceptBranch depends on its rule, and on whether it is the floor.
LEMMA BranchIs ==
    ASSUME NEW r
    PROVE  AcceptBranch(r) = BranchOf(r, IsFloor)
BY DEF AcceptBranch, BranchOf, Carveable

\* IsFloor is a fact about the layer and not about the walk.
LEMMA BottomIs ==
    ASSUME IInv, ~Done, R.enabled
    PROVE  IsFloor <=> AtBottom(Here, cursor.at)
<1>1. /\ cursor.at \in 1 .. Len(Here) /\ Len(Here) \in Nat /\ R = Here[cursor.at]
  BY RuleHere
<1>2. ASSUME AtBottom(Here, cursor.at) PROVE IsFloor
  <2> DEFINE on == {i \in DOMAIN Here : Here[i].enabled}
  <2>1. DOMAIN Here = 1 .. Len(Here)
    BY HereIs
  <2>2. cursor.at \in on /\ \A j \in on : j <= cursor.at
    BY <1>1, <1>2, <2>1 DEF AtBottom
  <2>3. \A i \in on : (\A j \in on : j <= i) => i = cursor.at
    BY <1>1, <2>1, <2>2
  <2>4. (CHOOSE i \in on : \A j \in on : j <= i) = cursor.at
    BY <2>2, <2>3
  <2>5. LastEnabled = cursor.at
    BY <2>2, <2>4 DEF LastEnabled
  <2> QED
    BY <1>1, <1>2, <2>5 DEF IsFloor, AtBottom
<1>3. ASSUME IsFloor PROVE AtBottom(Here, cursor.at)
  BY <1>1, <1>3, BelowFloor DEF AtBottom, IsFloor
<1> QED
  BY <1>2, <1>3

\* The branch that the walk takes is the branch at its rule.
LEMMA BranchHere ==
    ASSUME IInv, ~Done, req.action = "accept"
    PROVE  Branch = BranchAt(Here, cursor.at)
<1>1. R = Here[cursor.at]
  BY RuleHere
<1>2. Branch = BranchOf(R, IsFloor)
  BY BranchIs DEF Branch
<1>3. CASE ~R.enabled
  BY <1>1, <1>2, <1>3 DEF BranchAt, BranchOf
<1>4. CASE R.enabled
  <2>1. IsFloor = AtBottom(Here, cursor.at)
    BY <1>4, BottomIs DEF IsFloor, AtBottom
  <2> QED
    BY <1>1, <1>2, <2>1 DEF BranchAt
<1> QED
  BY <1>3, <1>4

\* A cleanup that is not taken as the floor is taken by the same branch when a rule is put
\* below it: this is where a rough cleanup differs.
LEMMA BottomOnly ==
    ASSUME NEW r \in AnyRule, req \in Request, ~Empty, CatchAll(r), ~RoughCleanup(r),
           BranchOf(r, TRUE) # "floor"
    PROVE  BranchOf(r, FALSE) = BranchOf(r, TRUE)
<1>1. /\ r.enabled \in BOOLEAN /\ r.dynamic \in BOOLEAN /\ r.layered \in BOOLEAN
      /\ r.action \in {"accept", "drop", "other"} /\ (r.layered => r.action = "other")
  BY RuleFields
<1>2. CASE r.action # "drop"
  BY <1>1, <1>2 DEF BranchOf, Unproven
<1>3. CASE r.action = "drop" /\ (~r.enabled \/ ~Interferes(req, r) \/ r.dynamic)
  BY <1>1, <1>3 DEF BranchOf
<1>4. CASE r.action = "drop" /\ r.enabled /\ Interferes(req, r) /\ ~r.dynamic
  <2>1. ~r.layered /\ ~Approximate(r) /\ r.svc.any
    BY <1>1, <1>4 DEF RoughCleanup, CatchAll
  <2>2. Within(req, r)
    BY CatchAllCovers
  <2>3. CASE Opaque(r)
    <3>1. Unresolved(r)
      BY <1>4, <2>1, <2>3 DEF Opaque, ServiceUncertain
    <3> QED
      BY <1>4, <2>1, <2>3, <3>1 DEF BranchOf
  <2>4. CASE ~Opaque(r) /\ Conditional(r)
    BY <1>4, <2>1, <2>4 DEF BranchOf
  <2>5. ~Unproven(r)
    <3>1. r.svc.names = {} /\ ~r.svc.opaque
      BY <2>1, RuleFields, ServiceCellIs
    <3>2. ~ServiceIndeterminate(req.svc, r.svc)
      BY <2>1, <3>1 DEF ServiceIndeterminate, ServiceUncertain
    <3> QED
      BY <2>1, <3>2 DEF Unproven
  <2>6. CASE ~Opaque(r) /\ ~Conditional(r)
    <3>1. BranchOf(r, TRUE) = "floor"
      BY <1>4, <2>1, <2>2, <2>5, <2>6 DEF BranchOf
    <3> QED
      BY <3>1
  <2> QED
    BY <2>3, <2>4, <2>6
<1> QED
  BY <1>1, <1>2, <1>3, <1>4

\* A service cell that covers the request's leaves nothing of it uncertain.
LEMMA CoveredIsCertain ==
    ASSUME NEW q \in Service, ~Blank(q), NEW c \in ServiceCell, Covered(ServiceRelation(q, c))
    PROVE  ~ServiceUncertain(q, c)
<1> SUFFICES ASSUME ServiceUncertain(q, c) PROVE FALSE
  OBVIOUS
<1>1. ~c.any /\ \E leg \in Legs(q) : leg \cap c.names = {}
  BY DEF ServiceUncertain
<1>2. ~q.any
  BY <1>1, ServiceRelationIs DEF Covered
<1> QED
  BY <1>1, <1>2, ReadCovered

\* A plain accept that covers the request grants it.
LEMMA GrantedBy ==
    ASSUME NEW r, NEW bottom, r.enabled, ~r.dynamic, ~r.layered, r.action = "accept", ~r.cond,
           ~Unresolved(r), Within(req, r), req \in Request, ~Empty, r.svc \in ServiceCell
    PROVE  BranchOf(r, bottom) = "granted"
<1>1. Interferes(req, r)
  BY DEF Interferes, OutOfPath, Within, Covered
<1>2. ~ServiceUncertain(req.svc, r.svc)
  <2>1. req.svc \in Service /\ ~Blank(req.svc)
    BY DEF Request, Empty
  <2>2. Covered(ServiceRelation(req.svc, r.svc))
    BY DEF Within, Rel
  <2> QED
    BY <2>1, <2>2, CoveredIsCertain
<1> QED
  BY <1>1, <1>2 DEF BranchOf, Opaque, Conditional, Unproven

\* A cell that holds all that a request is for covers it.
LEMMA HoldingCovers ==
    ASSUME NEW q \in Service, ~Blank(q), NEW c \in ServiceCell, q.any => c.any,
           ~c.any => q.ports \subseteq c.ports /\ q.names \subseteq c.names
    PROVE  Covered(ServiceRelation(q, c))
<1>1. q.any \in BOOLEAN /\ c.any \in BOOLEAN
  BY DEF Service, ServiceCell
<1>2. CASE c.any
  BY <1>1, <1>2, ServiceRelationIs DEF Covered
<1>3. CASE ~c.any
  <2>1. \A leg \in Legs(q) : leg # {} /\ leg \subseteq c.names
    BY <1>3, LegsAre
  <2> QED
    BY <1>3, <2>1, ReadCovered
<1> QED
  BY <1>2, <1>3

\* The rule that CREATE writes grants the request.
LEMMA NewRuleGranted ==
    ASSUME req \in Request, Kept, NEW bottom
    PROVE  BranchOf(NewRule, bottom) = "granted"
<1> DEFINE n == NewRule
<1>1. /\ n.enabled /\ ~n.dynamic /\ ~n.layered /\ n.action = "accept" /\ ~n.cond
      /\ n.src.seen = req.src /\ n.dst.seen = req.dst
      /\ n.src.trust = "exact" /\ n.dst.trust = "exact"
      /\ n.svc = req.obj
  BY DEF NewRule, ExactCell, Kept
<1> HIDE DEF n
<1>2. req.src # {} /\ req.dst # {} /\ ~Blank(req.svc) /\ Understood(req) /\ ~Empty
  BY DEF Kept, Empty
<1>3. Covered(Relation(req.src, n.src.seen)) /\ Covered(Relation(req.dst, n.dst.seen))
  BY <1>1, <1>2, RelationIs
<1>4. req.svc \in Service /\ n.svc \in ServiceCell
  BY <1>1 DEF Request
<1>5. /\ n.svc.any = req.svc.any /\ n.svc.ports = req.svc.ports /\ n.svc.names = req.svc.names
      /\ ~n.svc.unknown
  BY <1>1, <1>2 DEF Understood
<1>6. Covered(ServiceRelation(req.svc, n.svc))
  BY <1>2, <1>4, <1>5, HoldingCovers
<1>7. Within(req, n)
  BY <1>3, <1>6 DEF Within, Rel
<1>8. ~Unresolved(n)
  BY <1>1, <1>5 DEF Unresolved
<1> QED
  BY <1>1, <1>2, <1>4, <1>7, <1>8, GrantedBy DEF n

\* The candidate that WIDEN widened grants the request.
LEMMA WidenedGranted ==
    ASSUME req \in Request, Kept, NEW r \in AnyRule, NEW d \in Columns, CanWiden(r, d), NEW bottom
    PROVE  BranchOf(Added(r, d), bottom) = "granted"
<1> DEFINE n == Added(r, d)
<1>1. r \in PlainRule
  BY AcceptIsPlain DEF CanWiden
<1>2. /\ r.enabled /\ ~r.dynamic /\ r.action = "accept" /\ ~r.cond /\ ~Unresolved(r) /\ ~r.layered
      /\ \A e \in Columns \ {d} : Rel(req, r)[e] = "equal"
  BY <1>1 DEF CanWiden, Exact, PlainRule, RuleOf
<1>3. /\ n.enabled = r.enabled /\ n.dynamic = r.dynamic /\ n.layered = r.layered /\ n.action = r.action
      /\ n.cond = r.cond
      /\ n.src.trust = r.src.trust /\ n.dst.trust = r.dst.trust
  BY <1>1 DEF Added, Columns, PlainRule, RuleOf, AddressCell, ServiceCell
<1>4. /\ n.src.seen = IF d = "src" THEN r.src.seen \cup req.src ELSE r.src.seen
      /\ n.dst.seen = IF d = "dst" THEN r.dst.seen \cup req.dst ELSE r.dst.seen
      /\ n.svc = IF d = "svc" THEN Joined(r.svc, req.obj) ELSE r.svc
  BY <1>1 DEF Added, Columns, PlainRule, RuleOf, AddressCell, ServiceCell
<1> HIDE DEF n
<1>5. /\ req.src # {} /\ req.dst # {} /\ ~Blank(req.svc) /\ ~Empty
      /\ req.svc.any = req.obj.any /\ req.svc.ports = req.obj.ports /\ req.svc.names = req.obj.names
      /\ ~req.obj.unknown
  BY DEF Kept, Empty, Understood
<1>6. Covered(Relation(req.src, n.src.seen))
  <2>1. CASE d = "src"
    BY <1>4, <1>5, <2>1, RelationIs
  <2>2. CASE d # "src"
    BY <1>2, <1>4, <2>2 DEF Columns, Rel, Covered
  <2> QED
    BY <2>1, <2>2
<1>7. Covered(Relation(req.dst, n.dst.seen))
  <2>1. CASE d = "dst"
    BY <1>4, <1>5, <2>1, RelationIs
  <2>2. CASE d # "dst"
    BY <1>2, <1>4, <2>2 DEF Columns, Rel, Covered
  <2> QED
    BY <2>1, <2>2
<1>8. Covered(ServiceRelation(req.svc, n.svc)) /\ n.svc \in ServiceCell /\ ~n.svc.unknown
  <2>1. req.svc \in Service /\ r.svc \in ServiceCell /\ req.obj \in ServiceCell /\ ~r.svc.unknown
    BY <1>2, RuleFields DEF Request, Unresolved
  <2>2. CASE d = "svc"
    <3> DEFINE c == Joined(r.svc, req.obj)
    <3>1. /\ c \in ServiceCell /\ ~c.unknown /\ (c.any <=> r.svc.any \/ req.obj.any)
          /\ ~c.any => c.ports = r.svc.ports \cup req.obj.ports /\ c.names = r.svc.names \cup req.obj.names
      BY <1>5, <2>1, JoinedIs
    <3> HIDE DEF c
    <3>2. /\ req.svc.any => c.any
          /\ ~c.any => req.svc.ports \subseteq c.ports /\ req.svc.names \subseteq c.names
      BY <1>5, <3>1
    <3>3. Covered(ServiceRelation(req.svc, c))
      BY <1>5, <2>1, <3>1, <3>2, HoldingCovers
    <3>4. n.svc = c
      BY <1>4, <2>2 DEF c
    <3> QED
      BY <3>1, <3>3, <3>4
  <2>3. CASE d # "svc"
    BY <1>2, <1>4, <2>1, <2>3 DEF Columns, Rel, Covered
  <2> QED
    BY <2>2, <2>3
<1>9. Within(req, n)
  BY <1>6, <1>7, <1>8 DEF Within, Rel
<1>10. ~Unresolved(n)
  BY <1>2, <1>3, <1>8 DEF Unresolved
<1> QED
  BY <1>2, <1>3, <1>5, <1>8, <1>9, <1>10, GrantedBy DEF n

\* The branch of a rule does not depend on the inline layer it owns.
LEMMA SameEntry ==
    ASSUME NEW r \in LayerRule, NEW new \in Seq(PlainRule), NEW bottom
    PROVE  BranchOf([r EXCEPT !.inline = new], bottom) = BranchOf(r, bottom)
<1> DEFINE x == [r EXCEPT !.inline = new]
<1>1. /\ x.enabled = r.enabled /\ x.action = r.action /\ x.dynamic = r.dynamic
      /\ x.layered = r.layered /\ x.cond = r.cond
      /\ x.src = r.src /\ x.dst = r.dst /\ x.svc = r.svc
  BY DEF LayerRule, RuleOf
<1> HIDE DEF x
<1>2. Rel(req, x) = Rel(req, r)
  BY <1>1 DEF Rel
<1>3. /\ Interferes(req, x) <=> Interferes(req, r)
      /\ Within(req, x) <=> Within(req, r)
      /\ Unresolved(x) <=> Unresolved(r)
      /\ Approximate(x) <=> Approximate(r)
      /\ Conditional(x) <=> Conditional(r)
      /\ Opaque(x) <=> Opaque(r)
      /\ Unproven(x) <=> Unproven(r)
      /\ CantCover(req, x) <=> CantCover(req, r)
      /\ CatchAll(x) <=> CatchAll(r)
  BY <1>1, <1>2 DEF Interferes, OutOfPath, Within, Unresolved, Approximate, Conditional, Opaque,
                    Unproven, CantCover, CatchAll
<1>4. BranchOf(x, bottom) = BranchOf(r, bottom)
  BY <1>1, <1>3 DEF BranchOf
<1> QED
  BY <1>4 DEF x

\* What a considered rule leaves in the memory of the walk.
Marked(m, k, candidate, field, anchored) ==
    [m EXCEPT
        !.target = IF candidate THEN k ELSE @,
        !.field = IF candidate THEN field ELSE @,
        !.below = IF candidate THEN m.doubt ELSE @,
        !.anchor = IF anchored THEN k ELSE @]

\* What the walk remembers past a rule it considered.
Considered(r, k, m) ==
    Marked(m, k, opts.widen /\ m.target = 0 /\ Widenable(r), CHOOSE d \in Lacking(r) : TRUE,
           ~Unresolved(r) /\ MoreSpecific(req, r))

\* What the walk remembers past rule r, the k-th, taken by branch b.
After(r, k, b, m) ==
    IF b = "note" THEN [m EXCEPT !.noted = TRUE]
    ELSE IF b = "doubt" THEN [m EXCEPT !.noted = TRUE, !.doubt = TRUE]
    ELSE IF b = "divert" THEN [m EXCEPT !.doubt = TRUE]
    ELSE IF b = "floor" THEN [m EXCEPT !.floor = k]
    ELSE IF b = "consider" THEN Considered(r, k, m)
    ELSE m

\* The walk ends at such a rule, or leaves the layer for its inline layer.
Halts(b, m) ==
    \/ b \in {"granted", "blocked", "carve", "enter"}
    \/ b = "divert" /\ opts.widen /\ m.target # 0 /\ ~m.doubt

\* w is what a walk of the layer remembers at each rule down to the n-th.
Trail(layer, w, n) ==
    /\ w[1] = Fresh
    /\ \A k \in 1 .. n - 1 :
         /\ ~Halts(BranchAt(layer, k), w[k])
         /\ w[k + 1] = After(layer[k], k, BranchAt(layer, k), w[k])

\* Two layers that agree on the first rules are walked alike that far.
LEMMA TrailSame ==
    ASSUME NEW old, NEW new, NEW w, NEW n \in Nat, NEW m \in Nat, m <= n, Trail(old, w, n),
           \A k \in 1 .. m - 1 : new[k] = old[k] /\ BranchAt(new, k) = BranchAt(old, k)
    PROVE  Trail(new, w, m)
<1>1. \A k \in 1 .. m - 1 : k \in 1 .. n - 1
  OBVIOUS
<1> QED
  BY <1>1 DEF Trail

\* The branch of a rule depends on the request and the settings only.
LEMMA SameBranch ==
    ASSUME req' = req, opts' = opts, NEW r, NEW bottom
    PROVE  BranchOf(r, bottom)' = BranchOf(r, bottom)
<1>1. /\ Interferes(req, r)' <=> Interferes(req, r)
      /\ Within(req, r)' <=> Within(req, r)
      /\ Conditional(r)' <=> Conditional(r)
      /\ CantCover(req, r)' <=> CantCover(req, r)
  BY DEF Interferes, OutOfPath, Within, Conditional, CantCover, Rel
<1>2. /\ Opaque(r)' <=> Opaque(r)
      /\ Unproven(r)' <=> Unproven(r)
  BY DEF Opaque, Unproven
<1> QED
  BY <1>1, <1>2 DEF BranchOf

\* So does the branch at a rule of a layer.
LEMMA SameBranchAt ==
    ASSUME req' = req, opts' = opts, NEW layer
    PROVE  \A k : BranchAt(layer, k)' = BranchAt(layer, k)
<1> TAKE k
<1>1. PICK bottom : bottom = AtBottom(layer, k)
  OBVIOUS
<1>2. AtBottom(layer, k)' = AtBottom(layer, k)
  BY DEF AtBottom, CatchAll
<1>3. BranchOf(layer[k], bottom)' = BranchOf(layer[k], bottom)
  BY SameBranch
<1> QED
  BY <1>1, <1>2, <1>3 DEF BranchAt

\* So does a trail.
LEMMA SameTrail ==
    ASSUME req' = req, opts' = opts, NEW layer, NEW w, NEW n
    PROVE  Trail(layer, w, n)' <=> Trail(layer, w, n)
<1>1. \A k : BranchAt(layer, k)' = BranchAt(layer, k)
  BY SameBranchAt
<1>2. \A b, m : Halts(b, m)' <=> Halts(b, m)
  BY DEF Halts
<1>3. \A r, k, b, m : After(r, k, b, m)' = After(r, k, b, m)
  <2>1. \A r : Widenable(r)' <=> Widenable(r)
    BY DEF Widenable, Lacking, Exact
  <2>2. \A r : Lacking(r)' = Lacking(r)
    BY DEF Lacking
  <2>3. \A r, k, m : Considered(r, k, m)' = Considered(r, k, m)
    <3> TAKE r, k, m
    <3>1. (CHOOSE d \in Lacking(r) : TRUE)' = CHOOSE d \in Lacking(r) : TRUE
      BY <2>2
    <3>2. (opts.widen /\ m.target = 0 /\ Widenable(r))' = (opts.widen /\ m.target = 0 /\ Widenable(r))
      BY <2>1
    <3>3. (~Unresolved(r) /\ MoreSpecific(req, r))' = (~Unresolved(r) /\ MoreSpecific(req, r))
      BY DEF Unresolved, MoreSpecific, Rel
    <3> QED
      BY <3>1, <3>2, <3>3 DEF Considered
  <2> QED
    BY <2>3 DEF After
<1> QED
  BY <1>1, <1>2, <1>3 DEF Trail

\* The walk finds the request granted at rule n.
GrantsAt(layer, n) == n \in 1 .. Len(layer) /\ BranchAt(layer, n) = "granted"

\* A walk of the inline layer of rule e that ends with memory m yields to its implicit accept.
Yields(layer, e, m) ==
    /\ layer[e].cleanup = "accept"
    /\ m.target = 0 \/ (m.doubt /\ ~m.below)
    /\ LET at == IF m.floor # 0 THEN m.floor ELSE IF m.anchor # 0 /\ ~m.doubt THEN m.anchor ELSE 0
       IN  at = 0 \/ layer[e].inline[at].action # "drop"

\* The walk that finds the request granted: at rule n of the layer, or of the inline layer of
\* its rule e.
Repeats(layer, e, u, v, n) ==
    /\ n \in Nat \ {0}
    /\ \/ e = 0 /\ Trail(layer, v, n) /\ GrantsAt(layer, n)
       \/ /\ e \in 1 .. Len(layer) /\ Trail(layer, u, e) /\ BranchAt(layer, e) = "enter"
          /\ Trail(layer[e].inline, v, n)
          /\ \/ GrantsAt(layer[e].inline, n)
             \/ n = Len(layer[e].inline) + 1 /\ Yields(layer, e, v[n])

\* The walk is on its way to that rule.
OnPath(e, u, v, n) ==
    \/ cursor.in = e /\ cursor.at <= n /\ walk = v[cursor.at]
    \/ e # 0 /\ cursor.in = 0 /\ cursor.at <= e /\ walk = u[cursor.at]

\* The walk under way will find the request granted.
MeetsItAgain == \E e, u, v, n : Repeats(rules, e, u, v, n) /\ OnPath(e, u, v, n)

\* How the walk came to where it is.
Followed ==
    /\ \E w : Trail(Here, w, cursor.at) /\ walk = w[cursor.at]
    /\ cursor.in # 0 => \E w : Trail(rules, w, cursor.in) /\ BranchAt(rules, cursor.in) = "enter"
    /\ \A k \in 1 .. cursor.at - 1 : BranchAt(Here, k) = "floor" => walk.floor = k

\* How the answer follows from where the walk ended.
AnswerFrom(d) ==
    \/ d.outcome = "noop" /\ ~Done /\ BranchAt(Here, cursor.at) = "granted"
    \/ d.outcome = "noop" /\ Done /\ cursor.in # 0 /\ Yields(rules, cursor.in, walk)
    \/ d.outcome = "widen" /\ d.in = cursor.in /\ d.at \in 1 .. cursor.at - 1
    \/ /\ d.outcome = "create" /\ d.in = cursor.in /\ d.pos \in 1 .. cursor.at
       /\ \A k \in 1 .. d.pos - 1 : BranchAt(Here, k) # "floor"

\* AllRules, of a layer given.
RulesOf(layer) ==
    {layer[i] : i \in DOMAIN layer}
        \cup UNION {{layer[i].inline[j] : j \in DOMAIN layer[i].inline} : i \in DOMAIN layer}

\* The premise of AskedAgainWritesNothing on the cleanups.
Smooth == \A r \in AllRules : ~RoughCleanup(r)

\* Inductive with IInv: the walk is followed, an answer follows from its end, and once an answer
\* was applied the walk of the changed layer is on its way to what was written.
AgainInv ==
    /\ Answered => ~Empty
    /\ Kept => Followed
    /\ Kept /\ Answered => AnswerFrom(decision)
    /\ Kept /\ applied > 0 /\ Smooth =>
         /\ MeetsItAgain
         /\ Answered => decision.outcome = "noop"

\* The state of the walk while it is under way.
LEMMA WalkingIs ==
    ASSUME IInv, Kept, NEW b, Walking(b)
    PROVE  /\ Same /\ ~Done /\ decision = Pending /\ applied' = applied /\ ~Empty
           /\ b = BranchAt(Here, cursor.at) /\ b = AcceptBranch(R)
           /\ b \notin {"above", "last", "doubtful"}
           /\ b # "skip" => R.enabled
           /\ cursor.at \in 1 .. Len(Here) /\ cursor.at \in Nat /\ Len(Here) \in Nat
           /\ R = Here[cursor.at] /\ R \in AnyRule
<1>1. Same /\ ~Done /\ decision = Pending /\ applied' = applied /\ ~Empty /\ Branch = b
  BY DEF Walking, Same
<1>2. /\ cursor.at \in 1 .. Len(Here) /\ cursor.at \in Nat /\ Len(Here) \in Nat
      /\ R = Here[cursor.at] /\ R \in AnyRule
  BY <1>1, RuleHere
<1>3. b = BranchAt(Here, cursor.at) /\ b = AcceptBranch(R)
  BY <1>1, BranchHere DEF Kept, Branch
<1>4. b \notin {"above", "last", "doubtful"}
  BY <1>2, <1>3, AcceptBranchIs
<1>5. b # "skip" => R.enabled
  BY <1>3 DEF AcceptBranch
<1> QED
  BY <1>1, <1>2, <1>3, <1>4, <1>5

\* A step to the next rule follows the trail.
LEMMA OnwardFollows ==
    ASSUME IInv, Kept, Followed, NEW b, Walking(b), NEW m, m = After(R, cursor.at, b, walk),
           ~Halts(b, walk), Onward(m)
    PROVE  Followed'
<1>1. /\ req' = req /\ opts' = opts /\ rules' = rules /\ ~Done
      /\ b = BranchAt(Here, cursor.at) /\ R = Here[cursor.at]
      /\ b # "skip" => R.enabled
      /\ cursor.at \in 1 .. Len(Here) /\ cursor.at \in Nat
  BY WalkingIs DEF Same
<1>2. PICK n, Y, in : n = cursor.at /\ Y = Here /\ in = cursor.in
  OBVIOUS
<1>3. cursor'.at = n + 1 /\ cursor'.in = in /\ walk' = m
  BY <1>2 DEF Onward, IInv, WalkSound
<1>4. Here' = Y
  BY <1>1, <1>2, <1>3 DEF Here
<1>5. PICK w : Trail(Y, w, n) /\ walk = w[n]
  BY <1>2 DEF Followed
<1>6. n \in Nat \ {0}
  BY <1>1, <1>2
<1>7. PICK v : v = [k \in 1 .. n + 1 |-> IF k <= n THEN w[k] ELSE m]
  OBVIOUS
<1>8. v[n + 1] = m /\ \A k \in 1 .. n : v[k] = w[k]
  BY <1>6, <1>7
<1>9. Trail(Y, v, n + 1)
  <2>1. v[1] = Fresh
    BY <1>5, <1>6, <1>8 DEF Trail
  <2>2. ASSUME NEW k \in 1 .. (n + 1) - 1
        PROVE  /\ ~Halts(BranchAt(Y, k), v[k])
               /\ v[k + 1] = After(Y[k], k, BranchAt(Y, k), v[k])
    <3>1. CASE k = n
      BY <1>1, <1>2, <1>5, <1>6, <1>8, <3>1
    <3>2. CASE k # n
      <4>1. k \in 1 .. n - 1 /\ k \in 1 .. n /\ k + 1 \in 1 .. n
        BY <1>6, <3>2
      <4> QED
        BY <1>5, <1>8, <4>1 DEF Trail
    <3> QED
      BY <3>1, <3>2
  <2> QED
    BY <2>1, <2>2 DEF Trail
<1>10. Trail(Y, v, n + 1)'
  BY <1>1, <1>9, SameTrail
<1>11. (\E x : Trail(Here, x, cursor.at) /\ walk = x[cursor.at])'
  BY <1>3, <1>4, <1>8, <1>10
<1>12. in # 0 => \E x : Trail(rules, x, in) /\ BranchAt(rules, in) = "enter"
  BY <1>2 DEF Followed
<1>13. PICK L : L = rules
  OBVIOUS
<1>14. \A k : BranchAt(L, k)' = BranchAt(L, k) /\ BranchAt(Y, k)' = BranchAt(Y, k)
  BY <1>1, SameBranchAt
<1>15. cursor'.in # 0 => (\E x : Trail(rules, x, cursor.in) /\ BranchAt(rules, cursor.in) = "enter")'
  <2> SUFFICES ASSUME cursor'.in # 0
               PROVE  (\E x : Trail(rules, x, cursor.in) /\ BranchAt(rules, cursor.in) = "enter")'
    OBVIOUS
  <2>1. PICK x : Trail(L, x, in) /\ BranchAt(L, in) = "enter"
    BY <1>3, <1>12, <1>13
  <2>2. Trail(L, x, in)'
    BY <1>1, <2>1, SameTrail
  <2>3. BranchAt(L, in)' = "enter"
    BY <1>14, <2>1
  <2> QED
    BY <1>1, <1>3, <1>13, <2>2, <2>3
<1>16. ASSUME NEW k \in 1 .. (n + 1) - 1, BranchAt(Y, k) = "floor" PROVE m.floor = k
  <2>1. walk \in Memory(cursor.at)
    BY WalkIs
  <2>2. b # "floor" => m.floor = walk.floor
    BY <2>1 DEF After, Considered, Marked, Memory
  <2>3. b = "floor" => m.floor = n
    BY <1>2, <2>1 DEF After, Memory
  <2>4. CASE k = n
    BY <1>1, <1>2, <1>16, <2>3, <2>4
  <2>5. CASE k # n
    <3>1. k \in 1 .. n - 1
      BY <1>6, <2>5
    <3>2. walk.floor = k
      BY <1>2, <1>16, <3>1 DEF Followed
    <3>3. b # "floor"
      BY <1>1, <3>1, <3>2, BelowFloor
    <3> QED
      BY <2>2, <3>2, <3>3
  <2> QED
    BY <2>4, <2>5
<1>17. (\A k \in 1 .. cursor.at - 1 : BranchAt(Here, k) = "floor" => walk.floor = k)'
  <2> SUFFICES ASSUME NEW k \in 1 .. (n + 1) - 1, BranchAt(Y, k)' = "floor" PROVE m.floor = k
    BY <1>3, <1>4
  <2> QED
    BY <1>14, <1>16
<1> QED
  BY <1>11, <1>15, <1>17 DEF Followed

\* Where a walk that meets the answer again has come to.
LEMMA PathIs ==
    ASSUME IInv, MeetsItAgain
    PROVE  \E e, u, v, n :
             /\ Repeats(rules, e, u, v, n) /\ OnPath(e, u, v, n) /\ n \in Nat \ {0}
             /\ \/ cursor.in = e /\ Trail(Here, v, n) /\ cursor.at < n /\ ~Done
                   /\ ~Halts(BranchAt(Here, cursor.at), walk) /\ walk = v[cursor.at]
                \/ cursor.in = e /\ cursor.at = n /\ ~Done /\ BranchAt(Here, cursor.at) = "granted"
                \/ cursor.in = e /\ Done /\ e # 0 /\ Yields(rules, e, walk)
                \/ e # 0 /\ cursor.in = 0 /\ cursor.at < e /\ ~Done
                   /\ ~Halts(BranchAt(Here, cursor.at), walk) /\ walk = u[cursor.at]
                \/ e # 0 /\ cursor.in = 0 /\ cursor.at = e /\ ~Done
                   /\ BranchAt(Here, cursor.at) = "enter"
<1>1. PICK e, u, v, n : Repeats(rules, e, u, v, n) /\ OnPath(e, u, v, n)
  BY DEF MeetsItAgain
<1>2. /\ n \in Nat /\ n # 0 /\ cursor.at \in Nat /\ cursor.at >= 1 /\ Len(Here) \in Nat
      /\ cursor.at <= Len(Here) + 1
      /\ cursor.in # 0 => Here = rules[cursor.in].inline
      /\ cursor.in = 0 => Here = rules
  BY <1>1, HereIs DEF Repeats
<1>3. CASE cursor.in = e /\ cursor.at <= n /\ walk = v[cursor.at]
  <2>1. /\ Trail(Here, v, n)
        /\ \/ GrantsAt(Here, n)
           \/ e # 0 /\ n = Len(Here) + 1 /\ Yields(rules, e, v[n])
    BY <1>1, <1>2, <1>3 DEF Repeats
  <2>2. n <= Len(Here) + 1
    BY <1>2, <2>1 DEF GrantsAt
  <2>3. CASE cursor.at < n
    <3>1. cursor.at \in 1 .. n - 1 /\ ~Done
      BY <1>2, <2>2, <2>3 DEF Done
    <3>2. ~Halts(BranchAt(Here, cursor.at), walk)
      BY <1>3, <2>1, <3>1 DEF Trail
    <3> QED
      BY <1>1, <1>2, <1>3, <2>1, <2>3, <3>1, <3>2
  <2>4. CASE cursor.at = n /\ GrantsAt(Here, n)
    <3>1. ~Done
      BY <1>2, <2>4 DEF Done, GrantsAt
    <3> QED
      BY <1>1, <1>2, <1>3, <2>4, <3>1 DEF GrantsAt
  <2>5. CASE cursor.at = n /\ e # 0 /\ n = Len(Here) + 1 /\ Yields(rules, e, v[n])
    <3>1. Done
      BY <1>2, <2>5 DEF Done
    <3> QED
      BY <1>1, <1>2, <1>3, <2>5, <3>1
  <2> QED
    BY <1>2, <1>3, <2>1, <2>3, <2>4, <2>5
<1>4. CASE e # 0 /\ cursor.in = 0 /\ cursor.at <= e /\ walk = u[cursor.at]
  <2>1. e \in 1 .. Len(Here) /\ Trail(Here, u, e) /\ BranchAt(Here, e) = "enter"
    BY <1>1, <1>2, <1>4 DEF Repeats
  <2>2. ~Done
    BY <1>2, <1>4, <2>1 DEF Done
  <2>3. CASE cursor.at < e
    <3>1. cursor.at \in 1 .. e - 1
      BY <1>2, <2>1, <2>3
    <3>2. ~Halts(BranchAt(Here, cursor.at), walk)
      BY <1>4, <2>1, <3>1 DEF Trail
    <3> QED
      BY <1>1, <1>2, <1>4, <2>2, <2>3, <3>2
  <2>4. CASE cursor.at = e
    BY <1>1, <1>2, <1>4, <2>1, <2>2, <2>4
  <2> QED
    BY <1>2, <1>4, <2>1, <2>3, <2>4
<1> QED
  BY <1>1, <1>3, <1>4 DEF OnPath

\* The walk that meets the answer again stops nowhere else.
LEMMA PathEnds ==
    ASSUME IInv, MeetsItAgain
    PROVE  /\ Done => cursor.in # 0 /\ Yields(rules, cursor.in, walk)
           /\ ~Done /\ Halts(BranchAt(Here, cursor.at), walk) =>
                BranchAt(Here, cursor.at) \in {"granted", "enter"}
BY PathIs

\* What a walk of a layer meets depends on the request and the settings only.
LEMMA SameRepeats ==
    ASSUME req' = req, opts' = opts, NEW layer, NEW e, NEW u, NEW v, NEW n
    PROVE  Repeats(layer, e, u, v, n)' <=> Repeats(layer, e, u, v, n)
<1>1. \A k : BranchAt(layer, k)' = BranchAt(layer, k)
  BY SameBranchAt
<1>2. PICK sub : sub = layer[e].inline
  OBVIOUS
<1>3. \A k : BranchAt(sub, k)' = BranchAt(sub, k)
  BY SameBranchAt
<1>4. /\ Trail(layer, v, n)' <=> Trail(layer, v, n)
      /\ Trail(layer, u, e)' <=> Trail(layer, u, e)
  BY SameTrail
<1>5. Trail(sub, v, n)' <=> Trail(sub, v, n)
  BY SameTrail
<1>6. GrantsAt(layer, n)' <=> GrantsAt(layer, n)
  BY <1>1 DEF GrantsAt
<1>7. GrantsAt(sub, n)' <=> GrantsAt(sub, n)
  BY <1>3 DEF GrantsAt
<1> QED
  BY <1>1, <1>2, <1>4, <1>5, <1>6, <1>7 DEF Repeats, Yields

\* A step to the next rule stays on the way.
LEMMA OnwardMeets ==
    ASSUME IInv, Kept, MeetsItAgain, NEW b, Walking(b), NEW m, m = After(R, cursor.at, b, walk),
           ~Halts(b, walk), Onward(m)
    PROVE  MeetsItAgain'
<1>1. /\ req' = req /\ opts' = opts /\ rules' = rules /\ ~Done
      /\ b = BranchAt(Here, cursor.at) /\ R = Here[cursor.at]
      /\ cursor.at \in Nat /\ cursor.at >= 1
  BY WalkingIs DEF Same
<1>2. cursor'.at = cursor.at + 1 /\ cursor'.in = cursor.in /\ walk' = m
  BY DEF Onward, IInv, WalkSound
<1>3. PICK e, u, v, n :
        /\ Repeats(rules, e, u, v, n) /\ OnPath(e, u, v, n) /\ n \in Nat \ {0}
        /\ \/ cursor.in = e /\ Trail(Here, v, n) /\ cursor.at < n /\ ~Done
              /\ ~Halts(BranchAt(Here, cursor.at), walk) /\ walk = v[cursor.at]
           \/ cursor.in = e /\ cursor.at = n /\ ~Done /\ BranchAt(Here, cursor.at) = "granted"
           \/ cursor.in = e /\ Done /\ e # 0 /\ Yields(rules, e, walk)
           \/ e # 0 /\ cursor.in = 0 /\ cursor.at < e /\ ~Done
              /\ ~Halts(BranchAt(Here, cursor.at), walk) /\ walk = u[cursor.at]
           \/ e # 0 /\ cursor.in = 0 /\ cursor.at = e /\ ~Done
              /\ BranchAt(Here, cursor.at) = "enter"
  BY PathIs
<1>4. b \notin {"granted", "enter"}
  BY DEF Halts
<1>5. ASSUME cursor.in = e, Trail(Here, v, n), cursor.at < n, walk = v[cursor.at]
      PROVE  OnPath(e, u, v, n)'
  <2>1. cursor.at \in 1 .. n - 1
    BY <1>1, <1>3, <1>5
  <2>2. v[cursor.at + 1] = m
    BY <1>1, <1>5, <2>1 DEF Trail
  <2>3. cursor.at + 1 <= n
    BY <1>1, <1>3, <1>5
  <2> QED
    BY <1>2, <1>5, <2>2, <2>3 DEF OnPath
<1>6. ASSUME e # 0, cursor.in = 0, cursor.at < e, walk = u[cursor.at]
      PROVE  OnPath(e, u, v, n)'
  <2>1. e \in 1 .. Len(rules) /\ Trail(Here, u, e)
    BY <1>3, <1>6, HereIs DEF Repeats
  <2>2. Len(rules) \in Nat
    BY DEF IInv
  <2>3. cursor.at \in 1 .. e - 1 /\ cursor.at + 1 <= e
    BY <1>1, <1>6, <2>1, <2>2
  <2>4. u[cursor.at + 1] = m
    BY <1>1, <1>6, <2>1, <2>3 DEF Trail
  <2> QED
    BY <1>2, <1>6, <2>3, <2>4 DEF OnPath
<1>7. OnPath(e, u, v, n)'
  BY <1>1, <1>3, <1>4, <1>5, <1>6
<1>8. PICK L : L = rules
  OBVIOUS
<1>9. Repeats(L, e, u, v, n)'
  BY <1>1, <1>3, <1>8, SameRepeats
<1> QED
  BY <1>1, <1>7, <1>8, <1>9 DEF MeetsItAgain

\* What depends on the walk alone stays while it does not move.
LEMMA UnmovedKeeps ==
    ASSUME req' = req, opts' = opts, rules' = rules, cursor' = cursor, walk' = walk
    PROVE  /\ Followed => Followed'
           /\ MeetsItAgain => MeetsItAgain'
           /\ \A x : AnswerFrom(x) => AnswerFrom(x)'
<1>1. /\ req' = req /\ opts' = opts /\ rules' = rules /\ cursor' = cursor /\ walk' = walk
  OBVIOUS
<1>2. PICK L, Y : L = rules /\ Y = Here
  OBVIOUS
<1>3. rules' = L /\ Here' = Y
  BY <1>1, <1>2 DEF Here
<1>4. /\ \A k : BranchAt(L, k)' = BranchAt(L, k)
      /\ \A k : BranchAt(Y, k)' = BranchAt(Y, k)
  BY <1>1, SameBranchAt
<1>5. /\ \A w, n : Trail(L, w, n)' <=> Trail(L, w, n)
      /\ \A w, n : Trail(Y, w, n)' <=> Trail(Y, w, n)
  BY <1>1, SameTrail
<1>6. Followed => Followed'
  <2> SUFFICES ASSUME Followed PROVE Followed'
    OBVIOUS
  <2>1. (\E w : Trail(Here, w, cursor.at) /\ walk = w[cursor.at])'
    BY <1>1, <1>2, <1>3, <1>5 DEF Followed
  <2>2. cursor'.in # 0 => (\E w : Trail(rules, w, cursor.in) /\ BranchAt(rules, cursor.in) = "enter")'
    BY <1>1, <1>2, <1>3, <1>4, <1>5 DEF Followed
  <2>3. (\A k \in 1 .. cursor.at - 1 : BranchAt(Here, k) = "floor" => walk.floor = k)'
    BY <1>1, <1>2, <1>3, <1>4 DEF Followed
  <2> QED
    BY <2>1, <2>2, <2>3 DEF Followed
<1>7. MeetsItAgain => MeetsItAgain'
  <2> SUFFICES ASSUME MeetsItAgain PROVE MeetsItAgain'
    OBVIOUS
  <2>1. PICK e, u, v, n : Repeats(L, e, u, v, n) /\ OnPath(e, u, v, n)
    BY <1>2 DEF MeetsItAgain
  <2>2. Repeats(L, e, u, v, n)'
    BY <1>1, <2>1, SameRepeats
  <2>3. OnPath(e, u, v, n)'
    BY <1>1, <2>1 DEF OnPath
  <2> QED
    BY <1>1, <1>2, <2>2, <2>3 DEF MeetsItAgain
<1>8. Done' <=> Done
  BY <1>1, <1>2, <1>3 DEF Done
<1>9. \A x : AnswerFrom(x) => AnswerFrom(x)'
  BY <1>1, <1>2, <1>3, <1>4, <1>8 DEF AnswerFrom, Yields
<1> QED
  BY <1>6, <1>7, <1>9

\* What a decision that ends the walk leaves alone.
LEMMA ConcludeKeeps ==
    ASSUME Same, NEW d, Conclude(d)
    PROVE  /\ Followed => Followed'
           /\ MeetsItAgain => MeetsItAgain'
           /\ \A x : AnswerFrom(x) => AnswerFrom(x)'
           /\ Smooth' <=> Smooth
           /\ Kept' <=> Kept
<1>1. /\ req' = req /\ opts' = opts /\ rules' = rules /\ cursor' = cursor /\ walk' = walk
  BY DEF Same, Conclude
<1>2. Smooth' <=> Smooth
  BY <1>1 DEF Smooth, AllRules, RoughCleanup, CatchAll, Approximate
<1>3. Kept' <=> Kept
  BY <1>1 DEF Kept, MakesItWork, Empty
<1> QED
  BY <1>1, <1>2, <1>3, UnmovedKeeps

\* A step of the walk that goes on.
LEMMA OnwardAgain ==
    ASSUME IInv, AgainInv, NEW b, Walking(b), NEW m, Onward(m),
           Kept => m = After(R, cursor.at, b, walk) /\ ~Halts(b, walk)
    PROVE  AgainInv'
<1>1. /\ req' = req /\ opts' = opts /\ rules' = rules /\ decision' = Pending /\ applied' = applied
  BY DEF Onward, Walking
<1>2. ~Answered'
  BY <1>1 DEF Answered, Pending
<1>3. Kept' <=> Kept
  BY <1>1 DEF Kept, MakesItWork, Empty
<1>4. Smooth' <=> Smooth
  BY <1>1 DEF Smooth, AllRules, RoughCleanup, CatchAll, Approximate
<1>5. Kept => Followed'
  BY OnwardFollows DEF AgainInv
<1>6. Kept /\ applied > 0 /\ Smooth => MeetsItAgain'
  BY OnwardMeets DEF AgainInv
<1> QED
  BY <1>1, <1>2, <1>3, <1>4, <1>5, <1>6 DEF AgainInv

\* A step of the walk that answers.
LEMMA AnsweringAgain ==
    ASSUME IInv, AgainInv, Same, applied' = applied, ~Empty, NEW d, Conclude(d),
           Kept => AnswerFrom(Returned(d)),
           Kept /\ MeetsItAgain => Returned(d).outcome = "noop"
    PROVE  AgainInv'
<1>1. PICK x : x = Returned(d)
  OBVIOUS
<1>2. decision' = x
  BY <1>1 DEF Conclude
<1>3. (Kept' <=> Kept) /\ (Smooth' <=> Smooth)
  BY ConcludeKeeps
<1>4. Kept => Followed' /\ AnswerFrom(x)'
  BY <1>1, ConcludeKeeps DEF AgainInv
<1>5. Kept /\ applied > 0 /\ Smooth => MeetsItAgain' /\ x.outcome = "noop"
  BY <1>1, ConcludeKeeps DEF AgainInv
<1>6. Empty' <=> Empty
  BY DEF Same, Empty
<1> QED
  BY <1>2, <1>3, <1>4, <1>5, <1>6 DEF AgainInv

\* Every branch that goes on keeps AgainInv.
LEMMA GoesOnAgain ==
    ASSUME IInv, AgainInv, Skip \/ Note \/ Doubt \/ Doubtful \/ Floored \/ Consider
    PROVE  AgainInv'
<1>1. CASE Skip
  BY <1>1, OnwardAgain DEF Skip, After, Halts
<1>2. CASE Note
  BY <1>2, OnwardAgain DEF Note, After, Halts
<1>3. CASE Doubt
  BY <1>3, OnwardAgain DEF Doubt, InDoubt, After, Halts
<1>4. CASE Doubtful
  <2>1. ~Kept
    BY <1>4, WalkingIs DEF Doubtful
  <2> QED
    BY <1>4, <2>1, OnwardAgain DEF Doubtful
<1>5. CASE Floored
  BY <1>5, OnwardAgain DEF Floored, After, Halts
<1>6. CASE Consider
  <2>1. Walking("consider") /\ Onward(Considered(R, cursor.at, walk))
    <3>1. PICK candidate, anchored :
            /\ candidate = (opts.widen /\ walk.target = 0 /\ Widenable(R))
            /\ anchored = (~Unresolved(R) /\ MoreSpecific(req, R))
      OBVIOUS
    <3>2. Onward(Marked(walk, cursor.at, candidate, CHOOSE d \in Lacking(R) : TRUE, anchored))
      BY <1>6, <3>1 DEF Consider, Marked
    <3> QED
      BY <1>6, <3>1, <3>2 DEF Consider, Considered
  <2>2. Considered(R, cursor.at, walk) = After(R, cursor.at, "consider", walk)
    BY DEF After
  <2>3. ~Halts("consider", walk)
    BY DEF Halts
  <2> QED
    BY <2>1, <2>2, <2>3, OnwardAgain
<1> QED
  BY <1>1, <1>2, <1>3, <1>4, <1>5, <1>6

\* A widening decided at rule at.
LEMMA WidenedFrom ==
    ASSUME IInv, walk.target # 0, NEW d, d = Decided("widen", walk.target, 0)
    PROVE  Returned(d) = d /\ AnswerFrom(d)
<1>1. /\ d.outcome = "widen" /\ d.in = cursor.in /\ d.at = walk.target
  BY DEF Decided
<1>2. walk.target \in 0 .. cursor.at - 1
  BY WalkIs DEF Memory
<1>3. cursor.at \in Nat
  BY HereIs
<1>4. walk.target \in 1 .. cursor.at - 1
  BY <1>2, <1>3
<1> QED
  BY <1>1, <1>4 DEF Returned, AnswerFrom

\* A new rule goes no lower than where the walk is, and below no floor.
LEMMA AboveFrom ==
    ASSUME IInv, Kept, NEW b, Walking(b), R.enabled, R.action = "drop",
           NEW d, d = Decided("create", cursor.at, cursor.at)
    PROVE  Returned(d) = d /\ AnswerFrom(d)
<1>1. d.outcome = "create" /\ d.in = cursor.in /\ d.pos = cursor.at /\ d.at = cursor.at
  BY DEF Decided
<1>2. /\ cursor.at \in 1 .. Len(Here) /\ cursor.at \in Nat /\ Len(Here) \in Nat /\ R = Here[cursor.at]
  BY WalkingIs
<1>3. Returned(d) = d
  BY <1>1, <1>2 DEF Returned
<1>4. ASSUME NEW k \in 1 .. cursor.at - 1, BranchAt(Here, k) = "floor" PROVE FALSE
  <2>1. AtBottom(Here, k)
    BY <1>4 DEF BranchAt, BranchOf
  <2>2. cursor.at \in k + 1 .. Len(Here)
    BY <1>2
  <2> QED
    BY <1>2, <2>1, <2>2 DEF AtBottom
<1> QED
  BY <1>1, <1>2, <1>3, <1>4 DEF AnswerFrom

\* Divert keeps AgainInv.
LEMMA DivertAgain ==
    ASSUME IInv, AgainInv, Divert
    PROVE  AgainInv'
<1>1. Walking("divert")
  BY DEF Divert
<1>2. CASE ~WidenFirst
  <2>1. Onward([walk EXCEPT !.doubt = TRUE])
    BY <1>2 DEF Divert
  <2>2. ~Halts("divert", walk)
    BY <1>2 DEF Halts, WidenFirst
  <2> QED
    BY <1>1, <2>1, <2>2, OnwardAgain DEF After
<1>3. CASE WidenFirst
  <2> DEFINE d == Decided("widen", walk.target, 0)
  <2>1. Conclude(d) /\ walk.target # 0
    BY <1>3 DEF Divert, Widened, WidenFirst
  <2>2. Same /\ applied' = applied /\ ~Empty /\ ~Done
    BY <1>1 DEF Walking, Same
  <2>3. Returned(d) = d /\ AnswerFrom(d)
    BY <2>1, WidenedFrom
  <2>4. ~(Kept /\ MeetsItAgain)
    <3>1. Kept => "divert" = BranchAt(Here, cursor.at)
      BY <1>1, WalkingIs
    <3>2. Halts("divert", walk)
      BY <1>3 DEF Halts, WidenFirst
    <3> QED
      BY <2>2, <3>1, <3>2, PathEnds
  <2> HIDE DEF d
  <2> QED
    BY <2>1, <2>2, <2>3, <2>4, AnsweringAgain
<1> QED
  BY <1>2, <1>3

\* A drop the walk overrides: the rule goes above it, or a candidate is widened.
LEMMA OverriddenAgain ==
    ASSUME IInv, AgainInv, NEW b \in {"carve", "blocked"}, Walking(b), Kept,
           Above \/ (WidenFirst /\ Widened)
    PROVE  AgainInv'
<1>1. /\ Same /\ applied' = applied /\ ~Empty /\ ~Done /\ b = BranchAt(Here, cursor.at)
      /\ b = AcceptBranch(R) /\ R \in AnyRule
  BY WalkingIs
<1>2. R.enabled /\ R.action = "drop"
  BY <1>1, AcceptBranchIs DEF Carveable
<1>3. ~MeetsItAgain
  <2>1. Halts(b, walk)
    BY DEF Halts
  <2> QED
    BY <1>1, <2>1, PathEnds
<1>4. CASE Above
  <2>1. PICK d : d = Decided("create", cursor.at, cursor.at)
    OBVIOUS
  <2>2. Returned(d) = d /\ AnswerFrom(d)
    BY <1>2, <2>1, AboveFrom
  <2> QED
    BY <1>1, <1>3, <1>4, <2>1, <2>2, AnsweringAgain DEF Above
<1>5. CASE WidenFirst /\ Widened
  <2>1. PICK d : d = Decided("widen", walk.target, 0)
    OBVIOUS
  <2>2. Returned(d) = d /\ AnswerFrom(d)
    BY <1>5, <2>1, WidenedFrom DEF WidenFirst
  <2> QED
    BY <1>1, <1>3, <1>5, <2>1, <2>2, AnsweringAgain DEF Widened
<1> QED
  BY <1>4, <1>5

\* An answer to a request the walk need not make work.
LEMMA OtherwiseAgain ==
    ASSUME IInv, AgainInv, Same, applied' = applied, ~Empty, ~Kept, NEW d, Conclude(d)
    PROVE  AgainInv'
BY AnsweringAgain

\* Blocked keeps AgainInv.
LEMMA BlockedAgain ==
    ASSUME IInv, AgainInv, Carve \/ Blocked
    PROVE  AgainInv'
<1>1. PICK b \in {"carve", "blocked"} : Walking(b)
  BY DEF Carve, Blocked
<1>2. Same /\ applied' = applied /\ ~Empty
  BY <1>1 DEF Walking, Same
<1>3. CASE Kept
  <2>1. Above \/ (WidenFirst /\ Widened)
    BY <1>3 DEF Carve, Blocked, Kept, MakesItWork
  <2> QED
    BY <1>1, <1>3, <2>1, OverriddenAgain
<1>4. CASE ~Kept
  <2>1. \E d : Conclude(d)
    BY DEF Carve, Blocked, Above, Below, Widened
  <2> QED
    BY <1>2, <1>4, <2>1, OtherwiseAgain
<1> QED
  BY <1>3, <1>4

\* Granted keeps AgainInv.
LEMMA GrantedAgain ==
    ASSUME IInv, AgainInv, Granted \/ AboveFirst
    PROVE  AgainInv'
<1>1. PICK b \in {"granted", "above"} : Walking(b) /\ (b = "granted" => Granted)
  BY DEF Granted, AboveFirst
<1>2. Same /\ applied' = applied /\ ~Empty /\ ~Done
  BY <1>1 DEF Walking, Same
<1>3. CASE ~Kept
  <2>1. \E d : Conclude(d)
    BY DEF Granted, AboveFirst, Above
  <2> QED
    BY <1>2, <1>3, <2>1, OtherwiseAgain
<1>4. CASE Kept
  <2>1. b = "granted" /\ b = BranchAt(Here, cursor.at)
    BY <1>1, <1>4, WalkingIs
  <2>2. PICK d : d = Decided("noop", cursor.at, 0)
    OBVIOUS
  <2>3. Conclude(d)
    BY <1>1, <1>4, <2>1, <2>2 DEF Granted, Kept
  <2>4. d.outcome = "noop"
    BY <2>2 DEF Decided
  <2>5. Returned(d) = d
    BY <2>4 DEF Returned
  <2>6. AnswerFrom(d)
    BY <1>2, <2>1, <2>4 DEF AnswerFrom
  <2> QED
    BY <1>2, <2>3, <2>4, <2>5, <2>6, AnsweringAgain
<1> QED
  BY <1>3, <1>4

\* FallThrough keeps AgainInv.
LEMMA FallThroughAgain ==
    ASSUME IInv, AgainInv, FallThrough
    PROVE  AgainInv'
<1>1. Same /\ applied' = applied /\ ~Empty
  BY DEF FallThrough, Same
<1>2. CASE ~Kept
  <2>1. \E d : Conclude(d)
    BY DEF FallThrough
  <2> QED
    BY <1>1, <1>2, <2>1, OtherwiseAgain
<1>3. CASE Kept
  <2>1. Done
    <3> SUFFICES ASSUME ~Done, Branch = "last" PROVE FALSE
      BY DEF FallThrough
    <3>1. Walking("last")
      BY DEF FallThrough, Walking
    <3> QED
      BY <1>3, <3>1, WalkingIs
  <2>2. /\ walk \in Memory(cursor.at - 1) /\ cursor.at \in Nat /\ Len(Here) \in Nat
        /\ cursor.at = Len(Here) + 1 /\ ~req.restricted
        /\ cursor.in # 0 => Here = rules[cursor.in].inline
    BY <1>3, <2>1, WalkIs, HereIs DEF Done, Kept
  <2>3. CASE WidenLast
    <3>1. PICK d : d = Decided("widen", walk.target, 0)
      OBVIOUS
    <3>2. Conclude(d)
      BY <1>3, <2>3, <3>1 DEF FallThrough, Kept
    <3>3. Returned(d) = d /\ AnswerFrom(d)
      BY <2>3, <3>1, WidenedFrom DEF WidenLast
    <3>4. ~MeetsItAgain
      BY <2>1, <2>2, <2>3, PathEnds DEF WidenLast, Yields, Memory
    <3> QED
      BY <1>1, <3>2, <3>3, <3>4, AnsweringAgain
  <2>4. CASE ~WidenLast
    <3>1. PICK p : p = Placed
      OBVIOUS
    <3>2. Conclude(p)
      BY <1>3, <2>4, <3>1 DEF FallThrough, Kept
    <3>3. PICK at : at = IF walk.floor # 0 THEN walk.floor
                         ELSE IF walk.anchor # 0 /\ ~walk.doubt THEN walk.anchor ELSE 0
      OBVIOUS
    <3>4. PICK pos : pos = IF walk.floor # 0 THEN walk.floor
                           ELSE IF walk.anchor # 0 /\ ~walk.doubt THEN walk.anchor + 1 ELSE Floor
      OBVIOUS
    <3>5. p = Decided("create", at, pos)
      BY <3>1, <3>3, <3>4 DEF Placed
    <3>6. p.outcome = "create" /\ p.in = cursor.in /\ p.at = at /\ p.pos = pos
      BY <3>5 DEF Decided
    <3>7. walk.target = 0 \/ (walk.doubt /\ ~walk.below)
      BY <2>2, <2>4 DEF WidenLast, Memory
    <3>8. pos \in 1 .. cursor.at
      <4>1. walk.floor \in 0 .. Len(Here) /\ walk.anchor \in 0 .. Len(Here)
        BY <2>2 DEF Memory
      <4>2. Floor \in 1 .. Len(Here) + 1
        <5>1. Here # <<>> => Len(Here) # 0
          BY HereIs, EmptySeq
        <5> QED
          BY <2>2, <5>1 DEF Floor
      <4> QED
        BY <2>2, <3>4, <4>1, <4>2
    <3>9. ASSUME NEW k \in 1 .. pos - 1, BranchAt(Here, k) = "floor" PROVE FALSE
      <4>1. k \in 1 .. cursor.at - 1
        BY <2>2, <3>8
      <4>2. walk.floor = k
        BY <1>3, <3>9, <4>1 DEF AgainInv, Followed
      <4> QED
        BY <3>4, <3>9, <4>1, <4>2
    <3>10. AnswerFrom(p)
      BY <3>6, <3>8, <3>9 DEF AnswerFrom
    <3>11. CASE cursor.in # 0 /\ Yields(rules, cursor.in, walk)
      <4>1. at = 0 \/ Here[at].action # "drop"
        BY <2>2, <3>3, <3>11 DEF Yields
      <4>2. rules[cursor.in].cleanup = "accept"
        BY <3>11 DEF Yields
      <4>3. Returned(p).outcome = "noop"
        BY <2>2, <3>5, <3>6, <3>11, <4>1, <4>2 DEF Returned, Decided
      <4>4. AnswerFrom(Returned(p))
        BY <2>1, <3>11, <4>3 DEF AnswerFrom
      <4> QED
        BY <1>1, <3>2, <4>3, <4>4, AnsweringAgain
    <3>12. CASE ~(cursor.in # 0 /\ Yields(rules, cursor.in, walk))
      <4>1. cursor.in # 0 /\ rules[cursor.in].cleanup = "accept" => ~(at = 0 \/ Here[at].action # "drop")
        BY <2>2, <3>3, <3>7, <3>12 DEF Yields
      <4>2. Returned(p) = p
        BY <3>6, <4>1 DEF Returned
      <4>3. ~MeetsItAgain
        BY <2>1, <3>12, PathEnds
      <4> QED
        BY <1>1, <3>2, <3>10, <4>2, <4>3, AnsweringAgain
    <3> QED
      BY <3>11, <3>12
  <2> QED
    BY <2>3, <2>4
<1> QED
  BY <1>2, <1>3

\* Enter keeps AgainInv.
LEMMA EnterAgain ==
    ASSUME IInv, AgainInv, Enter
    PROVE  AgainInv'
<1>1. /\ Walking("enter") /\ walk' = Fresh /\ decision' = decision
      /\ req' = req /\ opts' = opts /\ rules' = rules /\ applied' = applied /\ decision = Pending
      /\ cursor'.in = cursor.at /\ cursor'.at = 1
  BY DEF Enter, Walking
<1>2. ~Answered'
  BY <1>1 DEF Answered, Pending
<1>3. Kept' <=> Kept
  BY <1>1 DEF Kept, MakesItWork, Empty
<1>4. Smooth' <=> Smooth
  BY <1>1 DEF Smooth, AllRules, RoughCleanup, CatchAll, Approximate
<1>5. ASSUME Kept
      PROVE  /\ cursor.in = 0 /\ Here = rules /\ "enter" = BranchAt(rules, cursor.at) /\ ~Done
             /\ cursor.at \in 1 .. Len(rules)
  <2>1. /\ ~Done /\ "enter" = BranchAt(Here, cursor.at) /\ "enter" = AcceptBranch(R)
        /\ R = Here[cursor.at] /\ R \in AnyRule /\ cursor.at \in 1 .. Len(Here)
    BY <1>1, <1>5, WalkingIs
  <2>2. R.layered
    BY <2>1, AcceptBranchIs
  <2>3. cursor.in = 0
    <3> SUFFICES ASSUME cursor.in # 0 PROVE FALSE
      OBVIOUS
    <3>1. R \in PlainRule
      BY <2>1, HereIs, ElementOfSeq
    <3> QED
      BY <2>2, <3>1 DEF PlainRule, RuleOf
  <2> QED
    BY <2>1, <2>3, HereIs
<1>6. PICK L, e : L = rules /\ e = cursor.at
  OBVIOUS
<1>7. \A k : BranchAt(L, k)' = BranchAt(L, k)
  BY <1>1, SameBranchAt
<1>8. Kept => Followed'
  <2> SUFFICES ASSUME Kept PROVE Followed'
    OBVIOUS
  <2>1. PICK v, Y : v = [k \in {1} |-> Fresh] /\ Y = Here'
    OBVIOUS
  <2>2. v[1] = Fresh /\ \A k \in 1 .. 1 - 1 : FALSE
    BY <2>1
  <2>3. Trail(Y, v, 1)
    BY <2>2 DEF Trail
  <2>4. Trail(Y, v, 1)'
    BY <1>1, <2>3, SameTrail
  <2>5. PICK w : Trail(L, w, e)
    BY <1>5, <1>6 DEF AgainInv, Followed
  <2>6. Trail(L, w, e)'
    BY <1>1, <2>5, SameTrail
  <2>7. BranchAt(L, e)' = "enter"
    BY <1>5, <1>6, <1>7
  <2>8. (\E x : Trail(Here, x, cursor.at) /\ walk = x[cursor.at])'
    BY <1>1, <2>1, <2>2, <2>4
  <2>9. (\E x : Trail(rules, x, cursor.in) /\ BranchAt(rules, cursor.in) = "enter")'
    BY <1>1, <1>6, <2>6, <2>7
  <2> QED
    BY <1>1, <2>2, <2>8, <2>9 DEF Followed
<1>9. Kept /\ MeetsItAgain => MeetsItAgain'
  <2> SUFFICES ASSUME Kept, MeetsItAgain PROVE MeetsItAgain'
    OBVIOUS
  <2>1. Halts("enter", walk)
    BY DEF Halts
  <2>2. PICK x, u, v, n : Repeats(L, x, u, v, n) /\ n \in Nat \ {0} /\ x # 0 /\ x = e
    BY <1>5, <1>6, <2>1, PathIs
  <2>3. Trail(L[x].inline, v, n)
    BY <2>2 DEF Repeats
  <2>4. v[1] = Fresh
    BY <2>3 DEF Trail
  <2>5. OnPath(x, u, v, n)'
    BY <1>1, <1>6, <2>2, <2>4 DEF OnPath
  <2>6. Repeats(L, x, u, v, n)'
    BY <1>1, <2>2, SameRepeats
  <2> QED
    BY <1>1, <1>6, <2>5, <2>6 DEF MeetsItAgain
<1> QED
  BY <1>1, <1>2, <1>3, <1>4, <1>8, <1>9 DEF AgainInv

\* A rule inserted lower leaves the branch of a rule above as it was.
LEMMA InsertedBranch ==
    ASSUME NEW layer \in Seq(AnyRule), NEW i \in 1 .. Len(layer) + 1, NEW n \in AnyRule, n.enabled,
           NEW k \in 1 .. i - 1, BranchAt(layer, k) # "floor", ~RoughCleanup(layer[k]),
           req \in Request, ~Empty
    PROVE  /\ InsertAt(layer, i, n)[k] = layer[k]
           /\ BranchAt(InsertAt(layer, i, n), k) = BranchAt(layer, k)
<1> DEFINE new == InsertAt(layer, i, n)
<1>1. new[k] = layer[k] /\ new[i] = n /\ Len(new) = Len(layer) + 1
  BY InsertIs
<1> HIDE DEF new
<1>2. i \in k + 1 .. Len(new)
  BY <1>1
<1>3. AtBottom(new, k) = FALSE
  BY <1>1, <1>2 DEF AtBottom
<1>4. k \in 1 .. Len(layer) /\ layer[k] \in AnyRule
  <2>1. k \in 1 .. Len(layer)
    OBVIOUS
  <2> QED
    BY <2>1, ElementOfSeq
<1>5. CASE AtBottom(layer, k)
  <2>1. AtBottom(layer, k) = TRUE /\ CatchAll(layer[k])
    BY <1>5 DEF AtBottom
  <2>2. BranchOf(layer[k], TRUE) # "floor"
    BY <2>1 DEF BranchAt
  <2>3. BranchOf(layer[k], FALSE) = BranchOf(layer[k], TRUE)
    BY <1>4, <2>1, <2>2, BottomOnly
  <2> QED
    BY <1>1, <1>3, <2>1, <2>3 DEF BranchAt, new
<1>6. CASE ~AtBottom(layer, k)
  <2>1. AtBottom(layer, k) = FALSE
    BY <1>6 DEF AtBottom
  <2> QED
    BY <1>1, <1>3, <2>1 DEF BranchAt, new
<1> QED
  BY <1>5, <1>6

\* So does a rule replaced lower.
LEMMA ReplacedBranch ==
    ASSUME NEW layer \in Seq(AnyRule), NEW i \in 1 .. Len(layer), NEW n,
           n.enabled = layer[i].enabled, NEW k \in 1 .. i - 1
    PROVE  /\ [layer EXCEPT ![i] = n][k] = layer[k]
           /\ BranchAt([layer EXCEPT ![i] = n], k) = BranchAt(layer, k)
<1> DEFINE new == [layer EXCEPT ![i] = n]
<1>1. /\ Len(new) = Len(layer) /\ Len(layer) \in Nat
      /\ \A j \in 1 .. Len(layer) : new[j] = IF j = i THEN n ELSE layer[j]
  OBVIOUS
<1> HIDE DEF new
<1>2. new[k] = layer[k]
  BY <1>1
<1>3. \A j \in k + 1 .. Len(layer) : new[j].enabled = layer[j].enabled
  BY <1>1
<1>4. AtBottom(new, k) = AtBottom(layer, k)
  BY <1>1, <1>2, <1>3 DEF AtBottom
<1> QED
  BY <1>2, <1>4 DEF BranchAt, new

\* A changed inline layer leaves the branch of its own rule.
LEMMA ReplacedEntry ==
    ASSUME NEW layer \in Seq(AnyRule), NEW i \in 1 .. Len(layer), layer[i] \in LayerRule,
           NEW sub \in Seq(PlainRule)
    PROVE  BranchAt([layer EXCEPT ![i] = [layer[i] EXCEPT !.inline = sub]], i) = BranchAt(layer, i)
<1> DEFINE x == [layer[i] EXCEPT !.inline = sub]
           new == [layer EXCEPT ![i] = x]
<1>1. x.enabled = layer[i].enabled /\ x.src = layer[i].src /\ x.dst = layer[i].dst /\ x.svc = layer[i].svc
  BY DEF LayerRule, RuleOf
<1>2. \A b : BranchOf(x, b) = BranchOf(layer[i], b)
  BY SameEntry
<1> HIDE DEF x
<1>3. /\ Len(new) = Len(layer) /\ Len(layer) \in Nat
      /\ \A j \in 1 .. Len(layer) : new[j] = IF j = i THEN x ELSE layer[j]
  OBVIOUS
<1> HIDE DEF new
<1>4. new[i] = x
  BY <1>3
<1>5. \A j \in i + 1 .. Len(layer) : new[j].enabled = layer[j].enabled
  BY <1>3
<1>6. CatchAll(new[i]) <=> CatchAll(layer[i])
  BY <1>1, <1>4 DEF CatchAll
<1>7. AtBottom(new, i) = AtBottom(layer, i)
  BY <1>1, <1>3, <1>4, <1>5, <1>6 DEF AtBottom
<1>8. BranchAt(new, i) = BranchAt(layer, i)
  BY <1>2, <1>4, <1>7 DEF BranchAt
<1> QED
  BY <1>8 DEF new, x

\* In the layer that was changed, a walk meets the change where it was made.
LEMMA ChangedGrants ==
    ASSUME IInv, Kept, Answered, AnswerFrom(decision), decision.outcome \in {"create", "widen"},
           NEW w, Trail(Here, w, cursor.at), NEW new, new = Changed(Here),
           \A k \in 1 .. Len(new) : ~RoughCleanup(new[k])
    PROVE  \E n \in Nat \ {0} : Trail(new, w, n) /\ GrantsAt(new, n)
<1>1. /\ req \in Request /\ Here \in Seq(AnyRule) /\ Len(Here) \in Nat
      /\ cursor.at \in Nat /\ cursor.at \in 1 .. Len(Here) + 1 /\ ~Empty
  BY HereIs DEF Kept
<1>2. CASE decision.outcome = "create"
  <2>1. PICK pos : pos = decision.pos
    OBVIOUS
  <2>2. pos \in 1 .. cursor.at /\ \A k \in 1 .. pos - 1 : BranchAt(Here, k) # "floor"
    BY <1>2, <2>1 DEF AnswerFrom
  <2>3. new = InsertAt(Here, pos, NewRule)
    BY <1>2, <2>1, ChangedIs
  <2>4. NewRule \in AnyRule /\ NewRule.enabled
    <3>1. NewRule \in PlainRule
      BY <1>1, NewRuleIs
    <3> QED
      BY <3>1 DEF AnyRule, NewRule
  <2>5. pos \in 1 .. Len(Here) + 1 /\ pos \in Nat \ {0} /\ pos <= cursor.at
    BY <1>1, <2>2
  <2>6. Len(new) = Len(Here) + 1 /\ new[pos] = NewRule /\ \A k \in 1 .. pos - 1 : new[k] = Here[k]
    BY <1>1, <2>3, <2>4, <2>5, InsertIs
  <2>7. \A k \in 1 .. pos - 1 : ~RoughCleanup(Here[k])
    BY <1>1, <2>5, <2>6
  <2>8. \A k \in 1 .. pos - 1 : new[k] = Here[k] /\ BranchAt(new, k) = BranchAt(Here, k)
    BY <1>1, <2>2, <2>3, <2>4, <2>5, <2>7, InsertedBranch
  <2>9. Trail(new, w, pos)
    BY <1>1, <2>5, <2>8, TrailSame
  <2>10. BranchAt(new, pos) = "granted"
    BY <1>1, <2>6, NewRuleGranted DEF BranchAt
  <2> QED
    BY <1>1, <2>5, <2>6, <2>9, <2>10 DEF GrantsAt
<1>3. CASE decision.outcome = "widen"
  <2>1. PICK i, d : i = decision.at /\ d = decision.field
    OBVIOUS
  <2>2. decision.in = cursor.in /\ i \in 1 .. cursor.at - 1
    BY <1>3, <2>1 DEF AnswerFrom
  <2>3. DecidedIn(decision) = Here
    BY <2>2 DEF DecidedIn, Here
  <2>4. i \in 1 .. Len(Here) /\ d \in Columns /\ CanWiden(Here[i], d)
    BY <1>3, <2>1, <2>3, AnsweredIs DEF AnswerSound, Fits
  <2>5. PICK r : r = Here[i]
    OBVIOUS
  <2>6. r \in AnyRule /\ r \in PlainRule /\ ~r.svc.unknown
    <3>1. r \in AnyRule
      BY <1>1, <2>4, <2>5, ElementOfSeq
    <3>2. r.action = "accept" /\ ~Unresolved(r)
      BY <2>4, <2>5 DEF CanWiden
    <3> QED
      BY <3>1, <3>2, AcceptIsPlain DEF Unresolved
  <2>7. PICK n : n = Added(r, d)
    OBVIOUS
  <2>8. new = [Here EXCEPT ![i] = n]
    BY <1>3, <2>1, <2>5, <2>7, ChangedIs
  <2>9. n.enabled = Here[i].enabled
    BY <1>1, <2>4, <2>5, <2>6, <2>7, AddedIs
  <2>10. \A k \in 1 .. i - 1 : new[k] = Here[k] /\ BranchAt(new, k) = BranchAt(Here, k)
    <3> TAKE k \in 1 .. i - 1
    <3>1. PICK layer : layer = Here
      OBVIOUS
    <3>2. /\ [layer EXCEPT ![i] = n][k] = layer[k]
          /\ BranchAt([layer EXCEPT ![i] = n], k) = BranchAt(layer, k)
      BY <1>1, <2>4, <2>9, <3>1, ReplacedBranch
    <3> QED
      BY <2>8, <3>1, <3>2
  <2>11. i \in Nat \ {0} /\ i <= cursor.at
    BY <1>1, <2>2
  <2>12. Trail(new, w, i)
    BY <1>1, <2>10, <2>11, TrailSame
  <2>13. Len(new) = Len(Here) /\ new[i] = n
    BY <1>1, <2>4, <2>8
  <2>14. BranchAt(new, i) = "granted"
    BY <1>1, <2>4, <2>5, <2>6, <2>7, <2>13, WidenedGranted DEF BranchAt
  <2> QED
    BY <2>4, <2>11, <2>12, <2>13, <2>14 DEF GrantsAt
<1> QED
  BY <1>2, <1>3

\* The rules of a layer and of its inline layers.
LEMMA SmoothIs ==
    ASSUME NEW layer \in Seq(AnyRule), \A r \in RulesOf(layer) : ~RoughCleanup(r)
    PROVE  /\ \A k \in 1 .. Len(layer) : ~RoughCleanup(layer[k])
           /\ \A e \in 1 .. Len(layer) : \A k \in 1 .. Len(layer[e].inline) : ~RoughCleanup(layer[e].inline[k])
<1>1. DOMAIN layer = 1 .. Len(layer)
  OBVIOUS
<1>2. \A k \in 1 .. Len(layer) : layer[k] \in RulesOf(layer)
  BY <1>1 DEF RulesOf
<1>3. ASSUME NEW e \in 1 .. Len(layer), NEW k \in 1 .. Len(layer[e].inline)
      PROVE  layer[e].inline[k] \in RulesOf(layer)
  <2>1. layer[e] \in AnyRule
    BY ElementOfSeq
  <2>2. layer[e].inline \in Seq(PlainRule)
    BY <2>1, RuleFields
  <2>3. DOMAIN layer[e].inline = 1 .. Len(layer[e].inline)
    BY <2>2
  <2> QED
    BY <1>1, <2>3 DEF RulesOf
<1> QED
  BY <1>2, <1>3

\* Once an answer is applied, a walk of the layer meets what it wrote or named.
LEMMA AppliedRepeats ==
    ASSUME IInv, AgainInv, Kept, Answered, NEW layer, layer = Applied,
           \A k \in 1 .. Len(layer) : ~RoughCleanup(layer[k]),
           \A e \in 1 .. Len(layer) : \A k \in 1 .. Len(layer[e].inline) : ~RoughCleanup(layer[e].inline[k])
    PROVE  \E e, u, v, n : Repeats(layer, e, u, v, n)
<1>1. /\ Followed /\ AnswerFrom(decision) /\ rules \in Seq(AnyRule) /\ Len(rules) \in Nat
      /\ Here \in Seq(AnyRule) /\ Len(Here) \in Nat /\ cursor.at \in 1 .. Len(Here) + 1
      /\ cursor.in # 0 => Here = rules[cursor.in].inline
      /\ cursor.in = 0 => Here = rules
  BY HereIs DEF AgainInv, IInv
<1>2. PICK w : Trail(Here, w, cursor.at) /\ walk = w[cursor.at]
  BY <1>1 DEF Followed
<1>3. cursor.in # 0 => cursor.in \in 1 .. Len(rules) /\ rules[cursor.in] \in LayerRule
  BY DEF IInv, WalkSound, Entered
<1>4. CASE decision.outcome = "noop"
  <2>1. Changed(rules) = rules
    BY <1>4, ChangedIs
  <2>2. layer = rules
    <3>1. CASE decision.in = 0
      BY <2>1, <3>1 DEF Applied
    <3>2. CASE decision.in # 0
      <4>1. PICK i, r : i = decision.in /\ r = rules[i]
        OBVIOUS
      <4>2. i \in 1 .. Len(rules) /\ r \in LayerRule
        BY <3>2, <4>1, AppliedInside
      <4>3. Changed(r.inline) = r.inline
        BY <1>4, ChangedIs
      <4>4. [r EXCEPT !.inline = r.inline] = r
        BY <4>2 DEF LayerRule, RuleOf
      <4>5. [rules EXCEPT ![i].inline = Changed(@)] = [rules EXCEPT ![i] = r]
        BY <4>1, <4>3, <4>4
      <4>6. [rules EXCEPT ![i] = r] = rules
        BY <1>1, <4>1, <4>2
      <4> QED
        BY <3>2, <4>1, <4>5, <4>6 DEF Applied
    <3> QED
      BY <3>1, <3>2
  <2>3. cursor.at \in Nat \ {0}
    BY <1>1
  <2>4. CASE cursor.in = 0
    <3>1. ~Done /\ BranchAt(Here, cursor.at) = "granted"
      BY <1>1, <1>4, <2>4 DEF AnswerFrom
    <3>2. GrantsAt(rules, cursor.at) /\ Trail(rules, w, cursor.at)
      BY <1>1, <1>2, <2>4, <3>1 DEF GrantsAt, Done
    <3> QED
      BY <2>2, <2>3, <3>2 DEF Repeats
  <2>5. CASE cursor.in # 0
    <3>1. PICK u : Trail(rules, u, cursor.in) /\ BranchAt(rules, cursor.in) = "enter"
      BY <1>1, <2>5 DEF Followed
    <3>2. \/ GrantsAt(Here, cursor.at)
          \/ cursor.at = Len(Here) + 1 /\ Yields(rules, cursor.in, w[cursor.at])
      BY <1>1, <1>2, <1>4 DEF AnswerFrom, GrantsAt, Done
    <3>3. Repeats(rules, cursor.in, u, w, cursor.at)
      BY <1>1, <1>2, <1>3, <2>3, <2>5, <3>1, <3>2 DEF Repeats
    <3> QED
      BY <2>2, <3>3
  <2> QED
    BY <2>4, <2>5
<1>5. CASE decision.outcome \in {"create", "widen"}
  <2>1. decision.in = cursor.in
    BY <1>1, <1>5 DEF AnswerFrom
  <2>2. PICK new : new = Changed(Here)
    OBVIOUS
  <2>3. CASE cursor.in = 0
    <3>1. layer = new
      BY <1>1, <2>1, <2>2, <2>3 DEF Applied
    <3>2. \E n \in Nat \ {0} : Trail(new, w, n) /\ GrantsAt(new, n)
      BY <1>1, <1>2, <1>5, <2>2, <3>1, ChangedGrants
    <3> QED
      BY <3>1, <3>2 DEF Repeats
  <2>4. CASE cursor.in # 0
    <3>1. PICK e, L : e = cursor.in /\ L = rules
      OBVIOUS
    <3>2. e \in 1 .. Len(L) /\ L[e] \in LayerRule /\ Here = L[e].inline /\ L \in Seq(AnyRule)
          /\ Len(L) \in Nat /\ e \in Nat /\ e # 0
      BY <1>1, <1>3, <2>4, <3>1
    <3>3. new \in Seq(PlainRule)
      <4>1. DecidedIn(decision) = Here
        BY <2>1, <2>4, <3>1, <3>2 DEF DecidedIn
      <4> QED
        BY <2>1, <2>2, <2>4, <4>1, AppliedInside
    <3>4. layer = [L EXCEPT ![e] = [L[e] EXCEPT !.inline = new]]
      BY <2>1, <2>2, <2>4, <3>1, <3>2 DEF Applied
    <3>5. /\ [L[e] EXCEPT !.inline = new].inline = new
          /\ [L[e] EXCEPT !.inline = new].enabled = L[e].enabled
      BY <3>2 DEF LayerRule, RuleOf
    <3>6. Len(layer) = Len(L) /\ layer[e] = [L[e] EXCEPT !.inline = new]
      BY <3>2, <3>4
    <3>7. layer[e].inline = new
      BY <3>5, <3>6
    <3>8. \A k \in 1 .. Len(new) : ~RoughCleanup(new[k])
      BY <3>2, <3>6, <3>7
    <3>9. PICK n \in Nat \ {0} : Trail(new, w, n) /\ GrantsAt(new, n)
      BY <1>1, <1>2, <1>5, <2>2, <3>8, ChangedGrants
    <3>10. PICK u : Trail(L, u, e) /\ BranchAt(L, e) = "enter"
      BY <1>1, <2>4, <3>1 DEF Followed
    <3>11. \A k \in 1 .. e - 1 : layer[k] = L[k] /\ BranchAt(layer, k) = BranchAt(L, k)
      <4> TAKE k \in 1 .. e - 1
      <4>1. PICK x : x = [L[e] EXCEPT !.inline = new]
        OBVIOUS
      <4>2. x.enabled = L[e].enabled
        BY <3>5, <4>1
      <4>3. /\ [L EXCEPT ![e] = x][k] = L[k]
            /\ BranchAt([L EXCEPT ![e] = x], k) = BranchAt(L, k)
        BY <3>2, <4>2, ReplacedBranch
      <4>4. layer = [L EXCEPT ![e] = x]
        BY <3>4, <4>1
      <4>5. BranchAt(layer, k) = BranchAt([L EXCEPT ![e] = x], k)
        BY <4>4
      <4> QED
        BY <4>3, <4>4, <4>5
    <3>12. Trail(layer, u, e)
      BY <3>2, <3>10, <3>11, TrailSame
    <3>13. BranchAt(layer, e) = "enter"
      <4>1. BranchAt([L EXCEPT ![e] = [L[e] EXCEPT !.inline = new]], e) = BranchAt(L, e)
        BY <3>2, <3>3, ReplacedEntry
      <4> QED
        BY <3>4, <3>10, <4>1
    <3>14. Repeats(layer, e, u, w, n)
      BY <3>2, <3>6, <3>7, <3>9, <3>12, <3>13 DEF Repeats
    <3> QED
      BY <3>14
  <2> QED
    BY <2>3, <2>4
<1>6. decision.outcome \in {"create", "widen", "noop"}
  BY AnsweredIs DEF Answer
<1> QED
  BY <1>4, <1>5, <1>6

\* Applying an answer sets the walk on its way to what was written.
LEMMA ApplyAgain ==
    ASSUME IInv, AgainInv, Apply
    PROVE  AgainInv'
<1>1. /\ Answered /\ rules' = Applied /\ cursor' = Top /\ walk' = Fresh /\ decision' = Pending
      /\ req' = req /\ opts' = opts /\ cursor'.in = 0 /\ cursor'.at = 1
  BY DEF Apply, Answered, Top
<1>2. ~Answered'
  BY <1>1 DEF Answered, Pending
<1>3. Kept' <=> Kept
  BY <1>1 DEF Kept, MakesItWork, Empty
<1>4. rules' \in Seq(AnyRule)
  BY <1>1, AnsweredIs
<1>5. PICK layer : layer = rules'
  OBVIOUS
<1>6. Followed'
  <2>1. PICK v, Y : v = [k \in {1} |-> Fresh] /\ Y = Here'
    OBVIOUS
  <2>2. v[1] = Fresh /\ \A k \in 1 .. 1 - 1 : FALSE
    BY <2>1
  <2>3. Trail(Y, v, 1)
    BY <2>2 DEF Trail
  <2>4. Trail(Y, v, 1)'
    BY <1>1, <2>3, SameTrail
  <2> QED
    BY <1>1, <2>1, <2>2, <2>4 DEF Followed
<1>7. ASSUME Kept, Smooth' PROVE MeetsItAgain'
  <2>1. /\ \A k \in 1 .. Len(layer) : ~RoughCleanup(layer[k])
        /\ \A e \in 1 .. Len(layer) : \A k \in 1 .. Len(layer[e].inline) : ~RoughCleanup(layer[e].inline[k])
    <3>1. AllRules' = RulesOf(layer)
      BY <1>5 DEF AllRules, RulesOf
    <3>2. \A r \in AllRules' : ~RoughCleanup(r)
      BY <1>7 DEF Smooth, RoughCleanup, CatchAll, Approximate
    <3>3. \A r \in RulesOf(layer) : ~RoughCleanup(r)
      BY <3>1, <3>2
    <3>4. layer \in Seq(AnyRule)
      BY <1>4, <1>5
    <3> QED
      BY <3>3, <3>4, SmoothIs
  <2>2. PICK e, u, v, n : Repeats(layer, e, u, v, n)
    BY <1>1, <1>5, <1>7, <2>1, AppliedRepeats
  <2>3. OnPath(e, u, v, n)'
    <3>1. n \in Nat \ {0}
      BY <2>2 DEF Repeats
    <3>2. CASE e = 0
      <4>1. v[1] = Fresh
        BY <2>2, <3>2 DEF Repeats, Trail
      <4> QED
        BY <1>1, <3>1, <3>2, <4>1 DEF OnPath
    <3>3. CASE e # 0
      <4>1. u[1] = Fresh /\ e \in 1 .. Len(layer)
        BY <2>2, <3>3 DEF Repeats, Trail
      <4> QED
        BY <1>1, <1>4, <1>5, <3>3, <4>1 DEF OnPath
    <3> QED
      BY <3>2, <3>3
  <2>4. Repeats(layer, e, u, v, n)'
    BY <1>1, <2>2, SameRepeats
  <2> QED
    BY <1>5, <2>3, <2>4 DEF MeetsItAgain
<1> QED
  BY <1>2, <1>3, <1>6, <1>7 DEF AgainInv

\* The first walk starts on no answer.
LEMMA AgainInit == Init => AgainInv
<1> SUFFICES ASSUME Init PROVE AgainInv
  OBVIOUS
<1>1. cursor.in = 0 /\ cursor.at = 1 /\ walk = Fresh /\ decision = Pending /\ applied = 0
  BY DEF Init, Top
<1>2. ~Answered
  BY <1>1 DEF Answered, Pending
<1>3. Followed
  <2>1. PICK v : v = [k \in {1} |-> Fresh]
    OBVIOUS
  <2>2. v[1] = Fresh /\ \A k \in 1 .. 1 - 1 : FALSE
    BY <2>1
  <2>3. Trail(Here, v, 1)
    BY <2>2 DEF Trail
  <2> QED
    BY <1>1, <2>2, <2>3 DEF Followed
<1> QED
  BY <1>1, <1>2, <1>3 DEF AgainInv

\* Every step keeps AgainInv.
LEMMA StepAgain ==
    ASSUME IInv, AgainInv, [Next]_vars
    PROVE  AgainInv'
<1>1. CASE UNCHANGED vars \/ Review
  <2>1. /\ rules' = rules /\ req' = req /\ opts' = opts /\ cursor' = cursor /\ walk' = walk
        /\ applied' = applied /\ (decision' = decision \/ decision' = Incomplete)
    BY <1>1 DEF vars, Review
  <2>2. (Kept' <=> Kept) /\ (Empty' <=> Empty)
    BY <2>1 DEF Kept, MakesItWork, Empty
  <2>3. Smooth' <=> Smooth
    BY <2>1 DEF Smooth, AllRules, RoughCleanup, CatchAll, Approximate
  <2>4. PICK d : d = decision
    OBVIOUS
  <2>5. /\ Followed => Followed'
        /\ MeetsItAgain => MeetsItAgain'
        /\ AnswerFrom(d) => AnswerFrom(d)'
    BY <2>1, UnmovedKeeps
  <2>6. Answered' => Answered /\ decision' = d
    BY <2>1, <2>4 DEF Answered, Incomplete
  <2>7. Kept => Followed'
    BY <2>5 DEF AgainInv
  <2>8. Kept /\ Answered' => AnswerFrom(decision)'
    BY <2>4, <2>5, <2>6 DEF AgainInv
  <2>9. Kept /\ applied > 0 /\ Smooth => MeetsItAgain' /\ (Answered' => decision'.outcome = "noop")
    BY <2>4, <2>5, <2>6 DEF AgainInv
  <2>10. Answered' => ~Empty'
    BY <2>2, <2>6 DEF AgainInv
  <2> QED
    BY <2>1, <2>2, <2>3, <2>7, <2>8, <2>9, <2>10 DEF AgainInv
<1>2. CASE Next /\ ~Review
  BY <1>2, GoesOnAgain, DivertAgain, BlockedAgain, GrantedAgain, FallThroughAgain, EnterAgain, ApplyAgain
  DEF Next
<1> QED
  BY <1>1, <1>2

\* The same access request, asked again once its decision was applied, writes nothing more
\* (decide(), execute()): the walk comes to what the first decision wrote, by the same branches.
THEOREM AskedAgain == Spec => []AskedAgainWritesNothing
<1>1. Init => IInv /\ AgainInv
  BY InitSound, AgainInit
<1>2. IInv /\ AgainInv /\ [Next]_vars => (IInv /\ AgainInv)'
  BY StepKeeps, StepAgain
<1>3. IInv /\ AgainInv => AskedAgainWritesNothing
  BY DEF AgainInv, AskedAgainWritesNothing, Kept, Smooth
<1> QED
  BY <1>1, <1>2, <1>3, PTL DEF Spec
=============================================================================
