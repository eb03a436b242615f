--------------------------- MODULE RulebaseProofs ----------------------------
(***************************************************************************)
(* What the relations of a request to a rule say of packets, and what a    *)
(* changed layer does with them, for every layer, request and set of       *)
(* addresses, ports and applications.                                      *)
(***************************************************************************)
EXTENDS Rulebase, WellFoundedInduction, SequenceTheorems, TLAPS

---------------------------------------------------------------------------
(* Columns: what the relation of a request to a cell says of the packets     *)

\* A flow that a service, as the engine compares it, is about.
Wanted(q, f) == q.any \/ f.port \in q.ports \/ f.names \cap q.names # {}

LEMMA RelationIs ==
    ASSUME NEW a, NEW b
    PROVE  /\ Relation(a, b) = "disjoint" <=> a \cap b = {}
           /\ Covered(Relation(a, b)) => a \subseteq b
           /\ Relation(a, b) = "equal" => a = b
           /\ a # {} /\ a \subseteq b => Covered(Relation(a, b))
<1>1. CASE a \cap b = {}
  BY <1>1 DEF Relation, Covered
<1>2. CASE a \cap b # {} /\ a = b
  BY <1>2 DEF Relation, Covered
<1>3. CASE a \cap b # {} /\ a # b /\ a \subseteq b
  BY <1>3 DEF Relation, Covered
<1>4. CASE a \cap b # {} /\ a # b /\ ~(a \subseteq b) /\ b \subseteq a
  BY <1>4 DEF Relation, Covered
<1>5. CASE a \cap b # {} /\ a # b /\ ~(a \subseteq b) /\ ~(b \subseteq a)
  BY <1>5 DEF Relation, Covered
<1> QED
  BY <1>1, <1>2, <1>3, <1>4, <1>5

\* What a flow may show.
LEMMA FlowIs ==
    ASSUME NEW f \in Flows
    PROVE  /\ f.port \in Ports \cup {NoPort} /\ f.names \subseteq Names
           /\ f.names \cap (Apps \cup Categories) # {} => f.port \in WebPorts
           /\ f.names \cap (Named \ Unbounded) # {} => f.port = NoPort
           /\ \A m, n \in f.names \ (Categories \cup Unbounded) : m = n
BY FlowsAssumption

LEMMA ServiceCellIs ==
    ASSUME NEW c \in ServiceCell
    PROVE  /\ c.any \in BOOLEAN /\ c.ports \subseteq Ports /\ c.names \subseteq Names
           /\ c.opaque \in BOOLEAN /\ c.grouped \in BOOLEAN /\ c.unknown \in BOOLEAN
           /\ c.hidden \subseteq Flows
           /\ c.names \cap (Categories \cup Unbounded) # {} => c.opaque
           /\ c.hidden # {} => c.unknown \/ (c.opaque /\ c.grouped)
           /\ c.any => c.ports = {} /\ c.names = {} /\ ~c.opaque /\ ~c.grouped
BY DEF ServiceCell

\* The legs of a service: what is not empty of its names, kind by kind.
LEMMA LegsAre ==
    ASSUME NEW q \in Service
    PROVE  /\ \A n \in q.names : \E leg \in Legs(q) : n \in leg
           /\ \A leg \in Legs(q) : leg # {} /\ leg \subseteq q.names
<1>1. q.names \subseteq Names
  BY DEF Service
<1>2. ASSUME NEW n \in q.names PROVE \E leg \in Legs(q) : n \in leg
  <2>1. PICK kind \in {Apps, Categories, Named} : n \in kind
    BY <1>1 DEF Names
  <2>2. q.names \cap kind \in Legs(q) /\ n \in q.names \cap kind
    BY <2>1 DEF Legs
  <2> QED
    BY <2>2
<1>3. \A leg \in Legs(q) : leg # {} /\ leg \subseteq q.names
  BY DEF Legs
<1> QED
  BY <1>2, <1>3

\* The relation of services, case by case.
LEMMA ServiceRelationIs ==
    ASSUME NEW q \in Service, NEW c \in ServiceCell
    PROVE  /\ c.any /\ q.any => ServiceRelation(q, c) = "equal"
           /\ c.any /\ ~q.any => ServiceRelation(q, c) = "subset"
           /\ ~c.any /\ q.any => ServiceRelation(q, c) = "superset"
           /\ ~c.any /\ ~q.any =>
                ServiceRelation(q, c) = IF Several(q) THEN Meet(q, c)
                                        ELSE IF q.names # {} THEN NameRelation(q.names, c)
                                        ELSE PortRelation(q.ports, c)
BY DEF ServiceRelation, Service, ServiceCell

\* What the relation of ports says.
LEMMA PortRelationIs ==
    ASSUME NEW ports, ports # {}, NEW c
    PROVE  /\ PortRelation(ports, c) = "disjoint" => ports \cap c.ports = {}
           /\ Covered(PortRelation(ports, c)) <=> ports \subseteq c.ports
           /\ PortRelation(ports, c) = "equal" => ports = c.ports /\ c.names = {} /\ ~c.opaque
<1>1. CASE c.ports = {}
  BY <1>1 DEF PortRelation, Covered
<1>2. CASE c.ports # {} /\ Relation(ports, c.ports) = "equal"
  BY <1>2, RelationIs DEF PortRelation, Covered
<1>3. CASE c.ports # {} /\ Relation(ports, c.ports) # "equal"
  <2>1. PortRelation(ports, c) = Relation(ports, c.ports)
    BY <1>3 DEF PortRelation
  <2> QED
    BY <1>3, <2>1, RelationIs
<1> QED
  BY <1>1, <1>2, <1>3

\* What the relation of the names of a kind says.
LEMMA NameRelationIs ==
    ASSUME NEW leg, NEW c
    PROVE  /\ NameRelation(leg, c) = "disjoint" => leg \cap c.names = {} /\ ~c.opaque
           /\ Covered(NameRelation(leg, c)) <=> leg \cap c.names # {}
           /\ NameRelation(leg, c) = "equal" =>
                /\ c.names = leg /\ c.ports = {}
                /\ leg \subseteq Categories => ~c.grouped
                /\ ~(leg \subseteq Categories) => ~c.opaque
BY DEF NameRelation, Covered

\* A service is of one kind, or the meet of its legs is taken.
LEMMA SingleKind ==
    ASSUME NEW q \in Service, ~Several(q), q.names # {}
    PROVE  q.ports = {} /\ q.names \in Legs(q) /\ \A leg \in Legs(q) : leg = q.names
<1>1. PICK kind \in {Apps, Categories, Named} : q.names \subseteq kind /\ q.ports = {}
  BY DEF Several
<1>2. q.names = q.names \cap kind
  BY <1>1
<1>3. q.names \in Legs(q)
  BY <1>2 DEF Legs
<1>4. ASSUME NEW leg \in Legs(q) PROVE leg = q.names
  <2>1. PICK other \in {Apps, Categories, Named} : leg = q.names \cap other /\ leg # {}
    BY DEF Legs
  <2>2. other = kind
    BY <1>1, <2>1, NamesAssumption
  <2> QED
    BY <1>2, <2>1, <2>2
<1> QED
  BY <1>1, <1>3, <1>4

\* Read apart: every leg is.
LEMMA ReadApart ==
    ASSUME NEW q \in Service, NEW c \in ServiceCell, ServiceRelation(q, c) = "disjoint"
    PROVE  /\ ~c.any /\ ~q.any
           /\ q.names # {} => q.names \cap c.names = {} /\ ~c.opaque
           /\ q.ports \cap c.ports = {}
<1>1. ~c.any /\ ~q.any
  BY ServiceRelationIs DEF Service, ServiceCell
<1>2. CASE Several(q)
  <2>1. Meet(q, c) = "disjoint"
    BY <1>1, <1>2, ServiceRelationIs
  <2>2. LegRelations(q, c) = {"disjoint"}
    BY <2>1 DEF Meet
  <2>3. \A leg \in Legs(q) : NameRelation(leg, c) = "disjoint"
    BY <2>2 DEF LegRelations
  <2>4. q.ports # {} => PortRelation(q.ports, c) = "disjoint"
    BY <2>2 DEF LegRelations
  <2>5. q.names # {} => q.names \cap c.names = {} /\ ~c.opaque
    BY <2>3, LegsAre, NameRelationIs
  <2>6. q.ports \cap c.ports = {}
    BY <2>4, PortRelationIs
  <2> QED
    BY <1>1, <2>5, <2>6
<1>3. CASE ~Several(q) /\ q.names # {}
  <2>1. NameRelation(q.names, c) = "disjoint" /\ q.ports = {}
    BY <1>1, <1>3, ServiceRelationIs, SingleKind
  <2> QED
    BY <1>1, <2>1, NameRelationIs
<1>4. CASE q.names = {}
  <2>1. PortRelation(q.ports, c) = "disjoint"
    BY <1>1, <1>4, ServiceRelationIs DEF Several
  <2>2. q.ports \cap c.ports = {}
    BY <2>1, PortRelationIs
  <2> QED
    BY <1>1, <1>4, <2>2
<1> QED
  BY <1>2, <1>3, <1>4

\* Covered: every leg is.
LEMMA ReadCovered ==
    ASSUME NEW q \in Service, NEW c \in ServiceCell, ~Blank(q), ~c.any, ~q.any
    PROVE  Covered(ServiceRelation(q, c)) <=>
             /\ q.ports \subseteq c.ports
             /\ \A leg \in Legs(q) : leg \cap c.names # {}
<1>1. CASE Several(q)
  <2>1. ServiceRelation(q, c) = Meet(q, c)
    BY <1>1, ServiceRelationIs
  <2>2. Covered(Meet(q, c)) <=> \A rel \in LegRelations(q, c) : Covered(rel)
    <3>1. CASE \A rel \in LegRelations(q, c) : Covered(rel)
      <4>1. Meet(q, c) \in {"subset", "equal"}
        BY <3>1 DEF Meet
      <4> QED
        BY <3>1, <4>1 DEF Covered
    <3>2. CASE ~(\A rel \in LegRelations(q, c) : Covered(rel))
      <4>1. Meet(q, c) \in {"disjoint", "overlap"}
        BY <3>2 DEF Meet
      <4> QED
        BY <3>2, <4>1 DEF Covered
    <3> QED
      BY <3>1, <3>2
  <2>3. (\A rel \in LegRelations(q, c) : Covered(rel)) <=>
          /\ \A leg \in Legs(q) : Covered(NameRelation(leg, c))
          /\ q.ports # {} => Covered(PortRelation(q.ports, c))
    BY DEF LegRelations
  <2>4. \A leg \in Legs(q) : Covered(NameRelation(leg, c)) <=> leg \cap c.names # {}
    BY NameRelationIs
  <2>5. (q.ports # {} => Covered(PortRelation(q.ports, c))) <=> q.ports \subseteq c.ports
    BY PortRelationIs
  <2> QED
    BY <2>1, <2>2, <2>3, <2>4, <2>5
<1>2. CASE ~Several(q) /\ q.names # {}
  <2>1. ServiceRelation(q, c) = NameRelation(q.names, c)
    BY <1>2, ServiceRelationIs
  <2>2. Covered(NameRelation(q.names, c)) <=> q.names \cap c.names # {}
    BY NameRelationIs
  <2> QED
    BY <1>2, <2>1, <2>2, SingleKind
<1>3. CASE q.names = {}
  <2>1. ServiceRelation(q, c) = PortRelation(q.ports, c)
    BY <1>3, ServiceRelationIs DEF Several
  <2>2. q.ports # {} /\ Legs(q) = {}
    BY <1>3 DEF Blank, Legs
  <2>3. \A leg \in Legs(q) : leg \cap c.names # {}
    BY <2>2
  <2>4. Covered(PortRelation(q.ports, c)) <=> q.ports \subseteq c.ports
    BY <2>2, PortRelationIs
  <2> QED
    BY <2>1, <2>3, <2>4
<1> QED
  BY <1>1, <1>2, <1>3

\* A cell that is provably apart from the requested service matches none of its flows.
LEMMA ServiceMisses ==
    ASSUME NEW q \in Service, NEW c \in ServiceCell, ~c.unknown, ~Strays(q, c),
           ~ServiceIndeterminate(q, c), ServiceRelation(q, c) = "disjoint",
           NEW f \in Flows, Wanted(q, f)
    PROVE  ~FlowMatches(c, f)
<1>1. /\ ~c.any /\ ~q.any
      /\ q.names # {} => q.names \cap c.names = {} /\ ~c.opaque
      /\ q.ports \cap c.ports = {}
  BY ReadApart
<1>2. q.ports # {} => c.names \cap Apps = {} /\ ~c.opaque
  BY <1>1 DEF ServiceIndeterminate
<1>3. q.names \cap (Apps \cup Categories) # {} => c.ports \cap WebPorts = {}
  BY <1>1 DEF ServiceIndeterminate, ForApp
<1>4. ~c.opaque /\ f \notin c.hidden /\ c.names \cap (Categories \cup Unbounded) = {}
  BY <1>1, <1>2, ServiceCellIs DEF Wanted
<1>5. q.names \cap Unbounded = {} /\ (q.names \cap Categories # {} => c.names \cap Apps = {})
  BY <1>1, <1>4 DEF Strays
<1>6. q.names \subseteq Names /\ c.names \subseteq Names /\ c.ports \subseteq Ports /\ q.ports \subseteq Ports
  BY ServiceCellIs DEF Service
<1>7. f.port \notin c.ports
  <2>1. CASE f.port \in q.ports
    BY <1>1, <2>1
  <2>2. CASE f.names \cap q.names \cap (Apps \cup Categories) # {}
    <3>1. f.port \in WebPorts /\ q.names \cap (Apps \cup Categories) # {}
      BY <2>2, FlowIs
    <3> QED
      BY <1>3, <3>1
  <2>3. CASE f.names \cap q.names \cap (Named \ Unbounded) # {}
    <3>1. f.port = NoPort
      BY <2>3, FlowIs
    <3> QED
      BY <1>6, <3>1, PortsAssumption
  <2> QED
    BY <1>1, <1>5, <1>6, <2>1, <2>2, <2>3 DEF Wanted, Names
<1>8. ASSUME NEW n \in f.names, n \in c.names PROVE FALSE
  <2>1. n \in Apps \cup (Named \ Unbounded) /\ n \notin Categories \cup Unbounded
    BY <1>4, <1>6, <1>8 DEF Names
  <2>2. CASE f.port \in q.ports
    <3>1. n \notin Apps
      BY <1>2, <1>8, <2>2
    <3>2. f.names \cap (Named \ Unbounded) # {}
      BY <1>8, <2>1, <3>1
    <3>3. f.port = NoPort
      BY <3>2, FlowIs
    <3> QED
      BY <1>6, <2>2, <3>3, PortsAssumption
  <2>3. ASSUME NEW m \in f.names, m \in q.names PROVE FALSE
    <3>1. m # n
      BY <1>1, <1>8, <2>3
    <3>2. CASE m \in Categories
      <4>1. n \notin Apps
        BY <1>5, <1>8, <2>3, <3>2
      <4>2. f.names \cap (Named \ Unbounded) # {} /\ f.names \cap (Apps \cup Categories) # {}
        BY <1>8, <2>1, <2>3, <3>2, <4>1
      <4>3. f.port = NoPort /\ f.port \in WebPorts
        BY <4>2, FlowIs
      <4> QED
        BY <4>3, PortsAssumption
    <3>3. CASE m \notin Categories
      <4>1. m \notin Unbounded
        BY <1>5, <2>3
      <4>2. m \in f.names \ (Categories \cup Unbounded) /\ n \in f.names \ (Categories \cup Unbounded)
        BY <1>8, <2>1, <2>3, <3>3, <4>1
      <4> QED
        BY <3>1, <4>2, FlowIs
    <3> QED
      BY <3>2, <3>3
  <2> QED
    BY <1>1, <2>2, <2>3 DEF Wanted
<1> QED
  BY <1>1, <1>4, <1>7, <1>8 DEF FlowMatches

\* A cell that covers the requested service matches every flow of it.
LEMMA ServiceCovers ==
    ASSUME NEW q \in Service, NEW c \in ServiceCell, ~c.unknown, ~Halves(q, c), ~Blank(q),
           Covered(ServiceRelation(q, c)), NEW f \in Flows, Wanted(q, f)
    PROVE  FlowMatches(c, f)
<1>1. CASE c.any
  BY <1>1 DEF FlowMatches
<1>2. CASE ~c.any /\ q.any
  BY <1>2, ServiceRelationIs DEF Covered
<1>3. CASE ~c.any /\ ~q.any
  <2>1. q.ports \subseteq c.ports /\ \A leg \in Legs(q) : leg \cap c.names # {}
    BY <1>3, ReadCovered
  <2>2. \A leg \in Legs(q) : leg \subseteq c.names
    BY <1>3, <2>1 DEF Halves
  <2>3. q.names \subseteq c.names
    BY <2>2, LegsAre
  <2> QED
    BY <1>3, <2>1, <2>3 DEF Wanted, FlowMatches
<1> QED
  BY <1>1, <1>2, <1>3 DEF Service, ServiceCell

\* A cell that equals the requested service matches no other flow.
LEMMA ServiceEquals ==
    ASSUME NEW q \in Service, NEW c \in ServiceCell, ~c.unknown, ~Loose(q, c),
           ServiceRelation(q, c) = "equal", NEW f \in Flows, FlowMatches(c, f)
    PROVE  Wanted(q, f)
<1>1. CASE c.any
  BY <1>1, ServiceRelationIs DEF Wanted, Service
<1>2. CASE ~c.any /\ q.any
  BY <1>2 DEF Wanted
<1>3. CASE ~c.any /\ ~q.any
  <2>1. CASE Several(q)
    <3>1. Meet(q, c) = "equal"
      BY <1>3, <2>1, ServiceRelationIs
    <3>2. c.names = q.names /\ c.ports = q.ports /\ c.opaque = q.opaque
      BY <3>1 DEF Meet, SameService
    <3>3. c.hidden = {}
      BY <2>1, <3>2, ServiceCellIs DEF Loose
    <3> QED
      BY <1>3, <3>2, <3>3 DEF FlowMatches, Wanted
  <2>2. CASE ~Several(q) /\ q.names # {}
    <3>1. NameRelation(q.names, c) = "equal"
      BY <1>3, <2>2, ServiceRelationIs
    <3>2. c.names = q.names /\ c.ports = {} /\ (~c.grouped \/ ~c.opaque)
      BY <3>1, NameRelationIs
    <3>3. c.hidden = {}
      BY <3>2, ServiceCellIs
    <3> QED
      BY <1>3, <3>2, <3>3 DEF FlowMatches, Wanted
  <2>3. CASE q.names = {}
    <3>1. PortRelation(q.ports, c) = "equal"
      BY <1>3, <2>3, ServiceRelationIs DEF Several
    <3>2. q.ports # {}
      BY <3>1, RelationIs DEF PortRelation
    <3>3. q.ports = c.ports /\ c.names = {} /\ ~c.opaque
      BY <3>1, <3>2, PortRelationIs
    <3>4. c.hidden = {}
      BY <3>3, ServiceCellIs
    <3> QED
      BY <1>3, <3>3, <3>4 DEF FlowMatches, Wanted
  <2> QED
    BY <2>1, <2>2, <2>3
<1> QED
  BY <1>1, <1>2, <1>3 DEF Service, ServiceCell

\* Of a request that is understood, what is compared is what is asked for.
LEMMA UnderstoodIs ==
    ASSUME NEW q, Understood(q), NEW f
    PROVE  FlowMatches(q.obj, f) <=> Wanted(q.svc, f)
BY DEF Understood, FlowMatches, Wanted

\* A cell that an object is added to.
LEMMA JoinedIs ==
    ASSUME NEW c \in ServiceCell, ~c.unknown, NEW o \in ServiceCell
    PROVE  /\ Joined(c, o) \in ServiceCell
           /\ \A f \in Flows : FlowMatches(Joined(c, o), f) <=> FlowMatches(c, f) \/ FlowMatches(o, f)
           /\ ~o.unknown => /\ ~Joined(c, o).unknown /\ (Joined(c, o).any <=> c.any \/ o.any)
                            /\ ~Joined(c, o).any =>
                                 /\ Joined(c, o).ports = c.ports \cup o.ports
                                 /\ Joined(c, o).names = c.names \cup o.names
                                 /\ Joined(c, o).opaque = (c.opaque \/ o.opaque)
<1> DEFINE w == Joined(c, o)
           anything == \E x \in {c, o} : x.any /\ ~x.unknown
<1>1. CASE anything
  <2>1. w = [any |-> TRUE, ports |-> {}, names |-> {}, opaque |-> FALSE, grouped |-> FALSE,
             unknown |-> FALSE, hidden |-> {}]
    BY <1>1 DEF Joined
  <2>2. w \in ServiceCell
    BY <2>1 DEF ServiceCell
  <2>3. \A f \in Flows : FlowMatches(w, f) /\ (FlowMatches(c, f) \/ FlowMatches(o, f))
    BY <1>1, <2>1 DEF FlowMatches
  <2>4. ~w.unknown /\ w.any /\ (c.any \/ o.any)
    BY <1>1, <2>1
  <2> QED
    BY <2>2, <2>3, <2>4
<1>2. CASE ~anything
  <2> DEFINE under == {f \in Flows : FlowMatches(c, f) \/ FlowMatches(o, f)}
             hidden == IF c.unknown \/ o.unknown THEN under ELSE c.hidden \cup o.hidden
  <2>1. w = [any |-> FALSE, ports |-> c.ports \cup o.ports, names |-> c.names \cup o.names,
             opaque |-> c.opaque \/ o.opaque, grouped |-> c.grouped \/ o.grouped,
             unknown |-> c.unknown \/ o.unknown, hidden |-> hidden]
    BY <1>2 DEF Joined
  <2>2. /\ hidden \subseteq Flows
        /\ o.unknown => hidden = under
        /\ ~o.unknown => hidden = c.hidden \cup o.hidden
    BY ServiceCellIs
  <2>3. w \in ServiceCell
    <3> HIDE DEF hidden, w
    <3>1. w \in [any : BOOLEAN, ports : SUBSET Ports, names : SUBSET Names, opaque : BOOLEAN,
                 grouped : BOOLEAN, unknown : BOOLEAN, hidden : SUBSET Flows]
      BY <2>1, <2>2, ServiceCellIs
    <3>2. w.names \cap (Categories \cup Unbounded) # {} => w.opaque
      BY <2>1, ServiceCellIs
    <3>3. w.hidden # {} => w.unknown \/ (w.opaque /\ w.grouped)
      BY <2>1, <2>2, ServiceCellIs
    <3> QED
      BY <2>1, <3>1, <3>2, <3>3 DEF ServiceCell
  <2>4. ASSUME NEW f \in Flows PROVE FlowMatches(w, f) <=> FlowMatches(c, f) \/ FlowMatches(o, f)
    <3> HIDE DEF hidden, w
    <3>1. CASE o.unknown
      BY <2>1, <2>2, <3>1 DEF FlowMatches, under
    <3>2. CASE ~o.unknown
      <4>1. ~c.any /\ ~o.any
        BY <1>2, <3>2
      <4> QED
        BY <2>1, <2>2, <3>2, <4>1 DEF FlowMatches
    <3> QED
      BY <3>1, <3>2
  <2>5. ~o.unknown => ~c.any /\ ~o.any /\ ~w.unknown /\ ~w.any
    <3>1. ~o.unknown => ~c.any /\ ~o.any
      BY <1>2
    <3>2. w.any = FALSE /\ w.unknown = (c.unknown \/ o.unknown)
      BY <2>1
    <3> HIDE DEF w
    <3> QED
      BY <3>1, <3>2
  <2> QED
    BY <2>1, <2>3, <2>4, <2>5
<1> QED
  BY <1>1, <1>2

---------------------------------------------------------------------------
(* Rules *)

AnyRule == PlainRule \cup LayerRule

\* What the type of a rule says of its fields.
LEMMA RuleFields ==
    ASSUME NEW r \in AnyRule
    PROVE  /\ r.enabled \in BOOLEAN /\ r.cond \in BOOLEAN /\ r.holds \in BOOLEAN
           /\ r.dynamic \in BOOLEAN /\ r.layered \in BOOLEAN
           /\ r.action \in {"accept", "drop", "other"} /\ r.verdict \in Verdicts
           /\ r.src \in AddressCell(Sources) /\ r.dst \in AddressCell(Destinations)
           /\ r.svc \in ServiceCell /\ r.cleanup \in {"accept", "drop"}
           /\ r.inline \in Seq(PlainRule)
           /\ r.action # "other" /\ ~r.dynamic => r.verdict = r.action
           /\ r.layered => r.action = "other"
<1>1. CASE r \in PlainRule
  <2>1. r.inline = <<>> /\ ~r.layered
    BY <1>1 DEF PlainRule, RuleOf
  <2>2. r.inline \in Seq(PlainRule)
    BY <2>1
  <2> QED
    BY <1>1, <2>1, <2>2 DEF PlainRule, RuleOf
<1>2. CASE r \in LayerRule
  BY <1>2 DEF LayerRule, RuleOf
<1> QED
  BY <1>1, <1>2 DEF AnyRule

LEMMA CellIs ==
    ASSUME NEW Space, NEW c \in AddressCell(Space)
    PROVE  /\ c.seen \subseteq Space /\ c.real \subseteq Space
           /\ c.trust \in {"exact", "approx", "unknown"}
           /\ c.trust = "exact" => c.real = c.seen
           /\ c.trust # "unknown" => c.seen \subseteq c.real
BY DEF AddressCell, Trust

\* A cell that equals a column of the request matches just that.
LEMMA ExactCellIs ==
    ASSUME NEW Space, NEW c \in AddressCell(Space), NEW s,
           Relation(s, c.seen) = "equal", c.trust = "exact"
    PROVE  c.real = s
BY CellIs, RelationIs

\* A rule that _out_of_path() takes for apart, other than on the word of an approximated
\* cell, matches no packet asked for.
LEMMA ApartMisses ==
    ASSUME NEW q, q.svc \in Service, NEW r \in AnyRule, Legible(q, r.svc), OutOfPath(q, r),
           r.src.trust = "approx" => Rel(q, r).src # "disjoint",
           r.dst.trust = "approx" => Rel(q, r).dst # "disjoint", NEW p \in Asked(q)
    PROVE  ~Matches(r, p)
<1>1. /\ p \in Packets /\ p.src \in q.src /\ p.dst \in q.dst
      /\ p.flow \in Flows /\ Wanted(q.svc, p.flow)
  BY UnderstoodIs DEF Asked, Packets, Legible
<1>2. /\ Rel(q, r).src = Relation(q.src, r.src.seen)
      /\ Rel(q, r).dst = Relation(q.dst, r.dst.seen)
      /\ Rel(q, r).svc = ServiceRelation(q.svc, r.svc)
  BY DEF Rel
<1>3. r.src \in AddressCell(Sources) /\ r.dst \in AddressCell(Destinations) /\ r.svc \in ServiceCell
  BY RuleFields
<1>4. CASE r.src.trust # "unknown" /\ Rel(q, r).src = "disjoint"
  <2>1. r.src.trust = "exact"
    BY <1>3, <1>4, CellIs
  <2>2. r.src.real = r.src.seen
    BY <1>3, <2>1, CellIs
  <2>3. q.src \cap r.src.seen = {}
    <3>1. Relation(q.src, r.src.seen) = "disjoint"
      BY <1>2, <1>4
    <3> QED
      BY <3>1, RelationIs
  <2>4. p.src \notin r.src.real
    BY <1>1, <2>2, <2>3
  <2> QED
    BY <2>4 DEF Matches
<1>5. CASE r.dst.trust # "unknown" /\ Rel(q, r).dst = "disjoint"
  <2>1. r.dst.trust = "exact"
    BY <1>3, <1>5, CellIs
  <2>2. r.dst.real = r.dst.seen
    BY <1>3, <2>1, CellIs
  <2>3. q.dst \cap r.dst.seen = {}
    <3>1. Relation(q.dst, r.dst.seen) = "disjoint"
      BY <1>2, <1>5
    <3> QED
      BY <3>1, RelationIs
  <2>4. p.dst \notin r.dst.real
    BY <1>1, <2>2, <2>3
  <2> QED
    BY <2>4 DEF Matches
<1>6. CASE ~r.svc.unknown /\ ~ServiceIndeterminate(q.svc, r.svc) /\ Rel(q, r).svc = "disjoint"
  <2>1. q.svc \in Service
    OBVIOUS
  <2>2. ~FlowMatches(r.svc, p.flow)
    BY <1>1, <1>2, <1>3, <1>6, <2>1, ServiceMisses DEF Legible
  <2> QED
    BY <2>2 DEF Matches
<1> QED
  BY <1>4, <1>5, <1>6 DEF OutOfPath

\* A resolved rule that covers the request in every column matches every packet asked for.
LEMMA CoversMatches ==
    ASSUME NEW q, q.svc \in Service, ~Blank(q.svc), NEW r \in AnyRule, Legible(q, r.svc),
           Within(q, r), ~Unresolved(r), r.enabled, r.cond => r.holds, NEW p \in Asked(q)
    PROVE  Matches(r, p)
<1>1. /\ p \in Packets /\ p.src \in q.src /\ p.dst \in q.dst
      /\ p.flow \in Flows /\ Wanted(q.svc, p.flow)
  BY UnderstoodIs DEF Asked, Packets, Legible
<1>2. /\ Covered(Relation(q.src, r.src.seen))
      /\ Covered(Relation(q.dst, r.dst.seen))
      /\ Covered(ServiceRelation(q.svc, r.svc))
  BY DEF Rel, Within
<1>3. r.src \in AddressCell(Sources) /\ r.dst \in AddressCell(Destinations) /\ r.svc \in ServiceCell
  BY RuleFields
<1>4. r.src.trust # "unknown" /\ r.dst.trust # "unknown" /\ ~r.svc.unknown
  BY DEF Unresolved
<1>5. p.src \in r.src.real
  BY <1>1, <1>2, <1>3, <1>4, CellIs, RelationIs
<1>6. p.dst \in r.dst.real
  BY <1>1, <1>2, <1>3, <1>4, CellIs, RelationIs
<1>7. q.svc \in Service
  OBVIOUS
<1>8. FlowMatches(r.svc, p.flow)
  BY <1>1, <1>2, <1>3, <1>4, <1>7, ServiceCovers DEF Legible
<1> QED
  BY <1>5, <1>6, <1>8 DEF Matches

\* A rule that is an accept is no rule that applies an inline layer.
LEMMA AcceptIsPlain ==
    ASSUME NEW r \in AnyRule, r.action = "accept"
    PROVE  r \in PlainRule
BY DEF AnyRule, LayerRule

LEMMA PlainAreRules == Seq(PlainRule) \subseteq Seq(AnyRule)
<1>1. PlainRule \subseteq AnyRule
  BY DEF AnyRule
<1> HIDE DEF AnyRule
<1> QED
  BY <1>1

---------------------------------------------------------------------------
(* Layers: the first match, and what a new rule changes of it               *)

\* A set of naturals has a least element.
LEMMA LeastOf ==
    ASSUME NEW T, T \subseteq Nat, T # {}
    PROVE  \E x \in T : \A y \in T : x <= y
<1> DEFINE Less == {ss \in Nat \X Nat : ss[1] < ss[2]}
<1>1. Less = OpToRel(<, Nat)
  BY Zenon DEF OpToRel
<1>2. IsWellFoundedOn(Less, Nat)
  BY Zenon, <1>1, NatLessThanWellFounded
<1> HIDE DEF Less
<1>3. PICK x \in T : \A y \in T : ~(<<y, x>> \in Less)
  BY <1>2, WFMin
<1>4. ASSUME NEW y \in T PROVE x <= y
  <2>1. ~(<<y, x>> \in Less)
    BY <1>3
  <2>2. x \in Nat /\ y \in Nat
    OBVIOUS
  <2>3. ~(y < x)
    BY <2>1, <2>2 DEF Less
  <2> QED
    BY <2>2, <2>3
<1> QED
  BY <1>4

\* No rule above the n-th matches p.
MissesTo(layer, p, n) == \A k \in 1 .. n - 1 : ~Matches(layer[k], p)

LEMMA FirstHitIs ==
    ASSUME NEW layer \in Seq(AnyRule), NEW p, NEW i \in 1 .. Len(layer),
           Matches(layer[i], p), MissesTo(layer, p, i)
    PROVE  FirstHit(layer, p) = i
<1> DEFINE hits == {k \in DOMAIN layer : Matches(layer[k], p)}
<1>1. i \in hits /\ \A k \in hits : i <= k
  BY DEF MissesTo
<1>2. hits # {} /\ hits \subseteq Nat
  BY <1>1
<1>3. FirstHit(layer, p) = CHOOSE k \in hits : \A j \in hits : k <= j
  BY <1>2 DEF FirstHit
<1> HIDE DEF hits
<1> DEFINE first == CHOOSE k \in hits : \A j \in hits : k <= j
<1>4. first \in hits /\ \A j \in hits : first <= j
  BY <1>1
<1>5. first <= i /\ i <= first /\ first \in Nat /\ i \in Nat
  BY <1>1, <1>2, <1>4
<1> QED
  BY <1>3, <1>5

LEMMA NoHit ==
    ASSUME NEW layer \in Seq(AnyRule), NEW p, MissesTo(layer, p, Len(layer) + 1)
    PROVE  FirstHit(layer, p) = 0
BY DEF FirstHit, MissesTo

\* Either no rule matches, or the first one that does is the first hit.
LEMMA HitOrMiss ==
    ASSUME NEW layer \in Seq(AnyRule), NEW p
    PROVE  \/ MissesTo(layer, p, Len(layer) + 1) /\ FirstHit(layer, p) = 0
           \/ /\ FirstHit(layer, p) \in 1 .. Len(layer)
              /\ Matches(layer[FirstHit(layer, p)], p)
              /\ MissesTo(layer, p, FirstHit(layer, p))
<1> DEFINE hits == {k \in DOMAIN layer : Matches(layer[k], p)}
<1>1. CASE hits = {}
  <2>1. MissesTo(layer, p, Len(layer) + 1)
    BY <1>1 DEF MissesTo
  <2> QED
    BY <2>1, NoHit
<1>2. CASE hits # {}
  <2>1. hits \subseteq Nat
    OBVIOUS
  <2>2. PICK i \in hits : \A k \in hits : i <= k
    BY <1>2, <2>1, LeastOf
  <2>3. i \in 1 .. Len(layer) /\ Matches(layer[i], p)
    OBVIOUS
  <2>4. MissesTo(layer, p, i)
    <3>1. ASSUME NEW k \in 1 .. i - 1, Matches(layer[k], p) PROVE FALSE
      <4>1. k \in hits
        BY <2>3, <3>1
      <4> QED
        BY <2>2, <2>3, <4>1
    <3> QED
      BY <3>1 DEF MissesTo
  <2>5. FirstHit(layer, p) = i
    BY <2>3, <2>4, FirstHitIs
  <2> QED
    BY <2>3, <2>4, <2>5
<1> QED
  BY <1>1, <1>2

\* What the gateway does with p at a rule.
RuleVerdict(r, p) == IF r.layered THEN InlineVerdict(r, p) ELSE r.verdict

LEMMA VerdictAt ==
    ASSUME NEW layer \in Seq(AnyRule), NEW p, NEW i \in 1 .. Len(layer),
           Matches(layer[i], p), MissesTo(layer, p, i)
    PROVE  Verdict(layer, p) = RuleVerdict(layer[i], p)
<1>1. FirstHit(layer, p) = i /\ i # 0
  BY FirstHitIs
<1> QED
  BY <1>1 DEF Verdict, RuleVerdict

LEMMA VerdictNone ==
    ASSUME NEW layer \in Seq(AnyRule), NEW p, MissesTo(layer, p, Len(layer) + 1)
    PROVE  Verdict(layer, p) = "drop"
BY NoHit DEF Verdict

\* The new rule is at its place, the rules below it one further down.
LEMMA InsertIs ==
    ASSUME NEW S, NEW layer \in Seq(S), NEW i \in 1 .. Len(layer) + 1, NEW r \in S
    PROVE  /\ InsertAt(layer, i, r) \in Seq(S)
           /\ Len(InsertAt(layer, i, r)) = Len(layer) + 1
           /\ InsertAt(layer, i, r)[i] = r
           /\ \A k \in 1 .. i - 1 : InsertAt(layer, i, r)[k] = layer[k]
           /\ \A k \in i .. Len(layer) : InsertAt(layer, i, r)[k + 1] = layer[k]
<1> DEFINE above == SubSeq(layer, 1, i - 1)
           below == SubSeq(layer, i, Len(layer))
<1>1. above \in Seq(S) /\ Len(above) = i - 1 /\ \A k \in 1 .. i - 1 : above[k] = layer[k]
  OBVIOUS
<1>2. /\ below \in Seq(S) /\ Len(below) = Len(layer) - i + 1
      /\ \A k \in 1 .. Len(layer) - i + 1 : below[k] = layer[i + k - 1]
  OBVIOUS
<1>3. InsertAt(layer, i, r) = (above \o <<r>>) \o below
  BY DEF InsertAt
<1> HIDE DEF above, below
<1> DEFINE top == above \o <<r>>
<1>4. /\ top \in Seq(S) /\ Len(top) = i /\ top[i] = r
      /\ \A k \in 1 .. i - 1 : top[k] = layer[k]
  BY <1>1
<1> HIDE DEF top
<1> DEFINE all == top \o below
<1>5. all \in Seq(S) /\ Len(all) = Len(layer) + 1
  <2>1. top \in Seq(S) /\ below \in Seq(S)
    BY <1>2, <1>4
  <2>2. all \in Seq(S) /\ Len(all) = Len(top) + Len(below)
    BY <2>1, ConcatProperties
  <2>3. Len(layer) \in Nat /\ i \in Nat
    OBVIOUS
  <2> HIDE DEF all
  <2> QED
    BY <1>2, <1>4, <2>1, <2>2, <2>3
<1>6. \A k \in 1 .. i : all[k] = top[k]
  BY <1>2, <1>4
<1>7. \A k \in 1 .. Len(layer) - i + 1 : all[i + k] = below[k]
  BY <1>2, <1>4
<1>8. all = InsertAt(layer, i, r)
  BY <1>3 DEF top
<1> HIDE DEF all
<1>9. ASSUME NEW k \in i .. Len(layer) PROVE all[k + 1] = layer[k]
  <2>1. k - i + 1 \in 1 .. Len(layer) - i + 1 /\ i + (k - i + 1) = k + 1 /\ i + (k - i + 1) - 1 = k
    OBVIOUS
  <2>2. all[i + (k - i + 1)] = below[k - i + 1]
    BY <1>7, <2>1
  <2>3. below[k - i + 1] = layer[i + (k - i + 1) - 1]
    BY <1>2, <2>1
  <2> QED
    BY <2>1, <2>2, <2>3
<1>10. all[i] = r /\ \A k \in 1 .. i - 1 : all[k] = layer[k]
  BY <1>4, <1>6
<1> QED
  BY <1>5, <1>8, <1>9, <1>10

\* A new rule decides what it matches, where nothing above it does.
LEMMA InsertedDecides ==
    ASSUME NEW layer \in Seq(AnyRule), NEW i \in 1 .. Len(layer) + 1, NEW r \in AnyRule,
           NEW p, Matches(r, p), MissesTo(layer, p, i)
    PROVE  Verdict(InsertAt(layer, i, r), p) = RuleVerdict(r, p)
<1> DEFINE new == InsertAt(layer, i, r)
<1>1. /\ new \in Seq(AnyRule) /\ Len(new) = Len(layer) + 1 /\ new[i] = r
      /\ \A k \in 1 .. i - 1 : new[k] = layer[k]
  BY InsertIs
<1> HIDE DEF new
<1>2. i \in 1 .. Len(new) /\ Matches(new[i], p) /\ MissesTo(new, p, i)
  BY <1>1 DEF MissesTo
<1> QED
  BY <1>1, <1>2, VerdictAt DEF new

\* What is decided above a new rule stays so.
LEMMA InsertedUnder ==
    ASSUME NEW layer \in Seq(AnyRule), NEW i \in 1 .. Len(layer) + 1, NEW r \in AnyRule,
           NEW p, NEW h \in 1 .. i - 1, Matches(layer[h], p), MissesTo(layer, p, h)
    PROVE  Verdict(InsertAt(layer, i, r), p) = RuleVerdict(layer[h], p)
<1> DEFINE new == InsertAt(layer, i, r)
<1>1. /\ new \in Seq(AnyRule) /\ Len(new) = Len(layer) + 1
      /\ \A k \in 1 .. i - 1 : new[k] = layer[k]
  BY InsertIs
<1> HIDE DEF new
<1>2. h \in 1 .. Len(new) /\ new[h] = layer[h] /\ MissesTo(new, p, h)
  BY <1>1 DEF MissesTo
<1> QED
  BY <1>1, <1>2, VerdictAt DEF new

\* A rule that does not match p changes nothing for p.
LEMMA InsertedElsewhere ==
    ASSUME NEW layer \in Seq(AnyRule), NEW i \in 1 .. Len(layer) + 1, NEW r \in AnyRule,
           NEW p, ~Matches(r, p)
    PROVE  /\ Verdict(InsertAt(layer, i, r), p) = Verdict(layer, p)
           /\ (FirstHit(InsertAt(layer, i, r), p) = 0) = (FirstHit(layer, p) = 0)
           /\ FirstHit(layer, p) # 0 =>
                InsertAt(layer, i, r)[FirstHit(InsertAt(layer, i, r), p)] = layer[FirstHit(layer, p)]
<1> DEFINE new == InsertAt(layer, i, r)
           h == FirstHit(layer, p)
<1>1. /\ new \in Seq(AnyRule) /\ Len(new) = Len(layer) + 1 /\ new[i] = r
      /\ \A k \in 1 .. i - 1 : new[k] = layer[k]
      /\ \A k \in i .. Len(layer) : new[k + 1] = layer[k]
  BY InsertIs
<1> HIDE DEF new
<1>2. CASE MissesTo(layer, p, Len(layer) + 1) /\ h = 0
  <2>1. ASSUME NEW k \in 1 .. Len(new) PROVE ~Matches(new[k], p)
    <3>1. CASE k < i
      BY <1>1, <1>2, <3>1 DEF MissesTo
    <3>2. CASE k = i
      BY <1>1, <3>2
    <3>3. CASE k > i
      <4>1. k - 1 \in i .. Len(layer) /\ (k - 1) + 1 = k
        BY <1>1, <3>3
      <4>2. new[k] = layer[k - 1]
        BY <1>1, <4>1
      <4>3. ~Matches(layer[k - 1], p)
        BY <1>2, <4>1 DEF MissesTo
      <4> QED
        BY <4>2, <4>3
    <3> QED
      BY <3>1, <3>2, <3>3
  <2>2. MissesTo(new, p, Len(new) + 1)
    BY <2>1, <1>1 DEF MissesTo
  <2>3. FirstHit(new, p) = 0
    BY <1>1, <2>2, NoHit
  <2> QED
    BY <1>2, <2>3 DEF Verdict, new
<1>3. CASE h \in 1 .. Len(layer) /\ Matches(layer[h], p) /\ MissesTo(layer, p, h)
  <2> DEFINE g == IF h < i THEN h ELSE h + 1
  <2>1. g \in 1 .. Len(new) /\ new[g] = layer[h]
    <3>1. CASE h < i
      BY <1>1, <1>3, <3>1
    <3>2. CASE h >= i
      <4>1. h \in i .. Len(layer)
        BY <1>3, <3>2
      <4> QED
        BY <1>1, <1>3, <3>2, <4>1
    <3> QED
      BY <1>3, <3>1, <3>2
  <2>2. ASSUME NEW k \in 1 .. g - 1 PROVE ~Matches(new[k], p)
    <3>1. CASE k < i
      <4>1. k \in 1 .. h - 1
        BY <1>3, <2>2, <3>1
      <4> QED
        BY <1>1, <1>3, <3>1, <4>1 DEF MissesTo
    <3>2. CASE k = i
      BY <1>1, <3>2
    <3>3. CASE k > i
      <4>1. k - 1 \in i .. Len(layer) /\ (k - 1) + 1 = k /\ k - 1 \in 1 .. h - 1
        BY <1>1, <1>3, <2>1, <2>2, <3>3
      <4>2. new[k] = layer[k - 1]
        BY <1>1, <4>1
      <4>3. ~Matches(layer[k - 1], p)
        BY <1>3, <4>1 DEF MissesTo
      <4> QED
        BY <4>2, <4>3
    <3> QED
      BY <2>1, <3>1, <3>2, <3>3
  <2> HIDE DEF g
  <2>3. MissesTo(new, p, g)
    BY <2>2 DEF MissesTo
  <2>4. FirstHit(new, p) = g /\ g # 0
    BY <1>1, <1>3, <2>1, <2>3, FirstHitIs
  <2> QED
    BY <1>3, <2>1, <2>4 DEF Verdict, new
<1> QED
  BY <1>2, <1>3, HitOrMiss

\* The verdict of a rule that applies no layer is its own.
LEMMA PlainVerdict ==
    ASSUME NEW r \in PlainRule, NEW p
    PROVE  ~r.layered /\ RuleVerdict(r, p) = r.verdict
BY DEF PlainRule, RuleOf, RuleVerdict

\* Both layers are silent on p, or decide it alike.
SameHit(old, new, p) ==
    /\ FirstHit(old, p) = 0 <=> FirstHit(new, p) = 0
    /\ FirstHit(old, p) # 0 =>
         RuleVerdict(new[FirstHit(new, p)], p) = RuleVerdict(old[FirstHit(old, p)], p)

LEMMA SameHitVerdict ==
    ASSUME NEW old, NEW new, NEW p, SameHit(old, new, p)
    PROVE  Verdict(new, p) = Verdict(old, p)
BY DEF SameHit, Verdict, RuleVerdict

\* An inline layer that is changed so leaves the verdict of the rule that applies it.
LEMMA SameHitInline ==
    ASSUME NEW r \in LayerRule, NEW new \in Seq(PlainRule), NEW p, SameHit(r.inline, new, p)
    PROVE  InlineVerdict([r EXCEPT !.inline = new], p) = InlineVerdict(r, p)
<1> DEFINE x == [r EXCEPT !.inline = new]
           i == FirstHit(r.inline, p)
           j == FirstHit(new, p)
<1>1. x.inline = new /\ x.cleanup = r.cleanup /\ r.inline \in Seq(PlainRule)
  BY DEF LayerRule, RuleOf
<1> HIDE DEF x
<1>2. CASE i = 0
  BY <1>1, <1>2 DEF SameHit, InlineVerdict, x
<1>3. CASE i # 0
  <2>1. r.inline \in Seq(AnyRule) /\ new \in Seq(AnyRule)
    BY <1>1, PlainAreRules
  <2>2. i \in 1 .. Len(r.inline) /\ j \in 1 .. Len(new)
    <3>1. j # 0
      BY <1>3 DEF SameHit
    <3>2. i \in 1 .. Len(r.inline)
      BY <1>3, <2>1, HitOrMiss
    <3>3. j \in 1 .. Len(new)
      BY <3>1, <2>1, HitOrMiss
    <3> QED
      BY <3>2, <3>3
  <2>3. r.inline[i] \in PlainRule /\ new[j] \in PlainRule
    BY <1>1, <2>2
  <2>4. RuleVerdict(r.inline[i], p) = r.inline[i].verdict /\ RuleVerdict(new[j], p) = new[j].verdict
    BY <2>3, PlainVerdict
  <2>5. RuleVerdict(new[j], p) = RuleVerdict(r.inline[i], p) /\ j # 0
    BY <1>3 DEF SameHit
  <2> HIDE DEF i, j
  <2>6. InlineVerdict(x, p) = new[j].verdict
    BY <1>1, <2>5 DEF InlineVerdict, j
  <2>7. InlineVerdict(r, p) = r.inline[i].verdict
    BY <1>3 DEF InlineVerdict, i
  <2> QED
    BY <2>4, <2>5, <2>6, <2>7 DEF x
<1> QED
  BY <1>2, <1>3

\* A rule that is replaced by one that matches and decides p alike changes nothing for p.
LEMMA ReplacedSame ==
    ASSUME NEW layer \in Seq(AnyRule), NEW i \in 1 .. Len(layer), NEW r \in AnyRule, NEW p,
           Matches(r, p) <=> Matches(layer[i], p),
           Matches(r, p) => RuleVerdict(r, p) = RuleVerdict(layer[i], p)
    PROVE  /\ [layer EXCEPT ![i] = r] \in Seq(AnyRule)
           /\ SameHit(layer, [layer EXCEPT ![i] = r], p)
<1> DEFINE new == [layer EXCEPT ![i] = r]
           h == FirstHit(layer, p)
<1>1. new \in Seq(AnyRule) /\ Len(new) = Len(layer)
  OBVIOUS
<1>2. new[i] = r /\ \A k \in 1 .. Len(layer) : k # i => new[k] = layer[k]
  OBVIOUS
<1> HIDE DEF new
<1>3. \A k \in 1 .. Len(layer) : Matches(new[k], p) <=> Matches(layer[k], p)
  BY <1>2
<1>4. CASE MissesTo(layer, p, Len(layer) + 1) /\ h = 0
  <2>1. MissesTo(new, p, Len(new) + 1)
    BY <1>1, <1>3, <1>4 DEF MissesTo
  <2>2. FirstHit(new, p) = 0
    BY <1>1, <2>1, NoHit
  <2> QED
    BY <1>1, <1>4, <2>2 DEF SameHit, new
<1>5. CASE h \in 1 .. Len(layer) /\ Matches(layer[h], p) /\ MissesTo(layer, p, h)
  <2>1. Matches(new[h], p)
    BY <1>3, <1>5
  <2>2. MissesTo(new, p, h)
    <3>1. \A k \in 1 .. h - 1 : k \in 1 .. Len(layer)
      BY <1>5
    <3> QED
      BY <1>3, <1>5, <3>1 DEF MissesTo
  <2>3. FirstHit(new, p) = h /\ h # 0
    BY <1>1, <1>5, <2>1, <2>2, FirstHitIs
  <2>4. RuleVerdict(new[h], p) = RuleVerdict(layer[h], p)
    <3>1. CASE h = i
      BY <1>2, <1>5, <2>1, <3>1
    <3>2. CASE h # i
      BY <1>2, <1>5, <3>2
    <3> QED
      BY <3>1, <3>2
  <2> HIDE DEF h
  <2> QED
    BY <1>1, <2>3, <2>4 DEF SameHit, new, h
<1> QED
  BY <1>4, <1>5, HitOrMiss

LEMMA InlineTyped ==
    ASSUME NEW r \in LayerRule, NEW new \in Seq(PlainRule)
    PROVE  /\ [r EXCEPT !.inline = new] \in LayerRule
           /\ [r EXCEPT !.inline = new].inline = new
           /\ [r EXCEPT !.inline = new].cleanup = r.cleanup
           /\ [r EXCEPT !.inline = new].layered
           /\ r.inline \in Seq(PlainRule) /\ r.layered
           /\ \A p : Matches([r EXCEPT !.inline = new], p) <=> Matches(r, p)
<1> DEFINE x == [r EXCEPT !.inline = new]
<1>1. x \in LayerRule /\ r.inline \in Seq(PlainRule) /\ r.layered
  BY DEF LayerRule, RuleOf
<1>2. /\ x.inline = new /\ x.cleanup = r.cleanup /\ x.layered = r.layered
      /\ x.enabled = r.enabled /\ x.cond = r.cond /\ x.holds = r.holds
      /\ x.src = r.src /\ x.dst = r.dst /\ x.svc = r.svc
  BY DEF LayerRule, RuleOf
<1> HIDE DEF x
<1>3. \A p : Matches(x, p) <=> Matches(r, p)
  BY <1>2 DEF Matches
<1> QED
  BY <1>1, <1>2, <1>3 DEF x
=============================================================================
