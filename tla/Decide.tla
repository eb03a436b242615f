-------------------------------- MODULE Decide --------------------------------
(***************************************************************************)
(* The decision engine of services/access_automation.py: decide() walks an *)
(* access layer top down for one request and ends in NO_OP, WIDEN or       *)
(* CREATE with a position; execute() applies that decision; a retry of the *)
(* request walks the changed layer again.                                  *)
(*                                                                         *)
(* The walk is one action per branch of _decide and _decide_nonaccept, in  *)
(* the order of the code: Branch names the first branch that takes a rule. *)
(* The reason texts and the display-only advice (near misses, disabled or  *)
(* redundant rules) are left out; a "possible match" note is kept as a     *)
(* flag, since a reader must be told of what the engine could not resolve. *)
(***************************************************************************)
EXTENDS Rulebase

CONSTANTS
    Layers,     \* the access layers a behaviour may start with
    Requests,   \* the requests
    Settings,   \* the settings of DecideOptions, and whether a section is configured
    MaxApplied  \* bound: how many decisions on one request are applied

Request ==
    [src : SUBSET Sources, dst : SUBSET Destinations,
     svc : Service,            \* the service as the engine compares it
     obj : ServiceCell,        \* the object it names, as a rule with it is read and enforced
     action : {"accept", "block", "ask"},
     restricted : BOOLEAN]     \* forces_create: a column or setting a rule may lack

\* section: rules at the floor go to a section of their own above the cleanup.
Options == [ignore : BOOLEAN, carveout : BOOLEAN, override : BOOLEAN, widen : BOOLEAN,
            section : BOOLEAN]

ASSUME RequestsAssumption == Requests \subseteq Request
ASSUME SettingsAssumption == Settings \subseteq Options
ASSUME LayersAssumption == \A rules \in Layers : rules \in Seq(PlainRule \cup LayerRule)
ASSUME BoundAssumption == MaxApplied \in Nat

Columns == {"src", "dst", "svc"}

\* A decision: in = 0 for the layer itself, else the rule whose inline layer it is
\* in; at is the rule it is about; pos is where a new rule goes; stop is where the
\* walk ended.
Pending == [outcome |-> "pending"]

VARIABLES
    rules,     \* the layer
    req, opts, \* the request and the settings, fixed
    cursor,    \* where the walk is: the layer it is in, the rule, the walk outside
    walk,      \* what the walk remembers
    decision,  \* the decision, or Pending
    applied    \* how many decisions on the request were applied

vars == <<rules, req, opts, cursor, walk, decision, applied>>

\* floor: the cleanup drop; target, field: the widen candidate; below: it was found
\* below a possible deny; anchor: the last more specific rule; doubt: a possible
\* deny was passed; noted: the reader is told of something unresolved.
Fresh == [floor |-> 0, target |-> 0, field |-> "src", below |-> FALSE, anchor |-> 0,
          doubt |-> FALSE, noted |-> FALSE]

Top == [in |-> 0, at |-> 1, outer |-> Fresh]

-----------------------------------------------------------------------------
(* The layer under the cursor. *)

Here == IF cursor.in = 0 THEN rules ELSE rules[cursor.in].inline

Done == cursor.at > Len(Here)

R == Here[cursor.at]

LastEnabled ==
    LET on == {i \in DOMAIN Here : Here[i].enabled}
    IN  IF on = {} THEN 0 ELSE CHOOSE i \in on : \A j \in on : j <= i

\* The real bottom cleanup.
IsFloor == CatchAll(R) /\ cursor.at = LastEnabled

Interferes(q, r) == ~OutOfPath(q, r)

\* A condition the engine does not model, unless told to ignore conditions.
Conditional(r) == r.cond /\ ~opts.ignore

\* A drop that may be leapt over for an application: resolved and unconditional.
Carveable(r) ==
    /\ ForApp(req.svc)
    /\ r.action = "drop"
    /\ Interferes(req, r)
    /\ ~IsFloor
    /\ ~Conditional(r)
    /\ ~Unresolved(r) /\ ~Approximate(r)

\* A drop whose extent is not pinned down.
Unproven(r) ==
    /\ r.action = "drop"
    /\ ServiceIndeterminate(req.svc, r.svc) \/ Approximate(r)

Opaque(r) == Unresolved(r) \/ ServiceUncertain(req.svc, r.svc) \/ r.action = "other"

\* The branch of _decide a rule is taken by.
AcceptBranch(r) ==
    CASE ~r.enabled -> "skip"
      [] r.enabled /\ ~Interferes(req, r) -> IF r.dynamic THEN "skip" ELSE "consider"
      [] OTHER ->
           IF r.dynamic THEN "divert"
           ELSE IF Carveable(r) THEN "carve"
           ELSE IF r.layered
                THEN IF Conditional(r) \/ Unresolved(r) \/ ~Within(req, r) THEN "doubt"
                     ELSE "enter"
           ELSE IF Opaque(r)
                THEN IF r.action = "accept"
                     THEN IF CantCover(req, r) THEN "skip" ELSE "note"
                     ELSE "doubt"
           ELSE IF Conditional(r) THEN IF r.action = "accept" THEN "skip" ELSE "doubt"
           ELSE IF Unproven(r)
                THEN IF /\ ~ServiceIndeterminate(req.svc, r.svc)
                        /\ Within(req, r)
                        /\ ~IsFloor
                     THEN "blocked" ELSE "doubt"
           ELSE IF Within(req, r)
                THEN IF r.action = "accept" THEN "granted"
                     ELSE IF IsFloor THEN "floor" ELSE "blocked"
           ELSE IF r.action = "drop" /\ ~CatchAll(r) THEN "blocked"
           ELSE "consider"

\* Mutant: a conditional rule settles the request too.
SettledUnderCondition(r) ==
    /\ ~Unresolved(r)
    /\ r.action # "other"
    /\ ~ServiceIndeterminate(req.svc, r.svc)
    /\ ~r.layered
    /\ Within(req, r)

\* covers of _decide_nonaccept.
Settled(r) ==
    /\ ~Unresolved(r)
    /\ r.action # "other"
    /\ ~r.cond
    /\ ~ServiceIndeterminate(req.svc, r.svc)
    /\ ~r.layered
    /\ Within(req, r)

\* The branch of _decide_nonaccept a rule is taken by.
OtherBranch(r) ==
    IF ~r.enabled \/ r.dynamic \/ OutOfPath(req, r) THEN "skip"
    ELSE IF req.action = "block"
         THEN IF r.action = "drop" /\ Settled(r) THEN "granted" ELSE "above"
    ELSE IF r.action = "drop" /\ Settled(r) THEN "blocked"
    ELSE IF r.action # "accept" THEN "doubtful"
    ELSE IF walk.doubt THEN "last" ELSE "above"

Branch == IF req.action = "accept" THEN AcceptBranch(R) ELSE OtherBranch(R)

-----------------------------------------------------------------------------
(* The walk. *)

\* A request that names no source, destination or service decides nothing.
Incomplete == [outcome |-> "review"]

Empty == req.src = {} \/ req.dst = {} \/ Blank(req.svc)

Review ==
    /\ decision = Pending /\ Empty
    /\ decision' = Incomplete
    /\ UNCHANGED <<rules, req, opts, cursor, walk, applied>>

Walking(branch) ==
    /\ decision = Pending /\ ~Empty
    /\ ~Done
    /\ Branch = branch
    /\ UNCHANGED <<rules, req, opts, applied>>

Onward(memory) ==
    /\ walk' = memory
    /\ cursor' = [cursor EXCEPT !.at = @ + 1]
    /\ UNCHANGED decision

Decided(outcome, at, pos) ==
    [outcome |-> outcome, in |-> cursor.in, at |-> at, pos |-> pos, field |-> walk.field,
     noted |-> walk.noted \/ cursor.outer.noted,
     doubt |-> walk.doubt \/ cursor.outer.doubt, stop |-> cursor.at]

\* A sub-layer's verdict is read by the rule that applies it: a CREATE that no drop
\* of the layer forced yields to the layer's implicit accept, and its notes are lost.
Returned(d) ==
    IF /\ cursor.in # 0
       /\ d.outcome = "create"
       /\ d.at = 0 \/ Here[d.at].action # "drop"
       /\ rules[cursor.in].cleanup = "accept"
       /\ ~req.restricted
    THEN [d EXCEPT !.outcome = "noop", !.in = 0, !.at = cursor.in, !.stop = cursor.in,
                   !.noted = cursor.outer.noted]
    ELSE d

Conclude(d) ==
    /\ decision' = Returned(d)
    /\ UNCHANGED <<cursor, walk>>

Above == Conclude(Decided("create", cursor.at, cursor.at))

Below == Conclude(Decided("create", cursor.at, cursor.at + 1))

\* _widen_above_block: a clean candidate above the block is widened instead.
WidenFirst == opts.widen /\ walk.target # 0 /\ ~walk.doubt
Widened == Conclude(Decided("widen", walk.target, 0))

Skip == Walking("skip") /\ Onward(walk)

Note == Walking("note") /\ Onward([walk EXCEPT !.noted = TRUE])

\* Mutant: a possible deny is noted and forgotten.
NotedOnly == [walk EXCEPT !.noted = TRUE]

\* A possible deny: nothing may be placed above it from now on.
InDoubt == [walk EXCEPT !.noted = TRUE, !.doubt = TRUE]

Doubt == Walking("doubt") /\ Onward(InDoubt)

\* _decide_nonaccept keeps silent about it: its note is on the new rule.
Doubtful == Walking("doubtful") /\ Onward([walk EXCEPT !.doubt = TRUE])

\* A rule that diverts into a Dynamic Layer is a silent floor.
Divert ==
    /\ Walking("divert")
    /\ IF WidenFirst THEN Widened ELSE Onward([walk EXCEPT !.doubt = TRUE])

\* The carve-out of one application.
Carve ==
    /\ Walking("carve")
    /\ IF opts.carveout /\ opts.override
       THEN IF WidenFirst THEN Widened ELSE Above
       ELSE Below

Enter ==
    /\ Walking("enter")
    /\ cursor' = [in |-> cursor.at, at |-> 1, outer |-> walk]
    /\ walk' = Fresh
    /\ UNCHANGED decision

Granted ==
    /\ Walking("granted")
    /\ IF req.restricted /\ req.action = "accept" THEN Above
       ELSE Conclude(Decided("noop", cursor.at, 0))

\* A proven deny, covering or partial.
Blocked ==
    /\ Walking("blocked")
    /\ IF ~opts.override THEN Below
       ELSE IF req.action = "accept" /\ WidenFirst THEN Widened
       ELSE Above

Floored == Walking("floor") /\ Onward([walk EXCEPT !.floor = cursor.at])

AboveFirst == Walking("above") /\ Above

\* The columns of the rule that do not cover the request.
Lacking(r) == {d \in Columns : ~Covered(Rel(req, r)[d])}

\* Mutant: a column that merely covers the request counts as equal.
ExactEnough(r, d) == Covered(Rel(req, r)[d])

Exact(r, d) ==
    /\ Rel(req, r)[d] = "equal"
    /\ d # "svc" => r[d].trust # "approx"

\* An accept that equals the request in two columns and lacks it in the third.
Widenable(r) ==
    /\ r.action = "accept"
    /\ ~Unresolved(r)
    /\ ~ServiceIndeterminate(req.svc, r.svc)
    /\ ~r.cond
    /\ ~req.restricted
    /\ \E field \in Columns :
        /\ Lacking(r) = {field}
        /\ \A d \in Columns \ {field} : Exact(r, d)

\* A rule that is neither a grant nor a block of the request.
Consider ==
    /\ Walking("consider")
    /\ LET candidate == opts.widen /\ walk.target = 0 /\ Widenable(R)
           anchored == ~Unresolved(R) /\ MoreSpecific(req, R)
       IN  Onward([walk EXCEPT
                     !.target = IF candidate THEN cursor.at ELSE @,
                     !.field = IF candidate THEN CHOOSE d \in Lacking(R) : TRUE ELSE @,
                     !.below = IF candidate THEN walk.doubt ELSE @,
                     !.anchor = IF anchored THEN cursor.at ELSE @])

\* _floor_position: the bottom, or above a trailing catch-all.
Floor ==
    IF opts.section /\ Here # <<>> /\ CatchAll(Here[Len(Here)]) THEN Len(Here) ELSE Len(Here) + 1

\* Mutant: the new rule goes below the cleanup.
PlacedBelowFloor ==
    IF walk.floor # 0 THEN Decided("create", walk.floor, walk.floor + 1)
    ELSE Decided("create", 0, Floor)

\* _placement, for the walk that found neither a grant nor a block.
Placed ==
    IF walk.floor # 0 THEN Decided("create", walk.floor, walk.floor)
    ELSE IF walk.anchor # 0 /\ ~walk.doubt
         THEN Decided("create", walk.anchor, walk.anchor + 1)
         ELSE Decided("create", 0, Floor)

\* The walk fell through: widen the candidate unless that leaps a possible deny.
WidenLast == walk.target # 0 /\ (~walk.doubt \/ walk.below)

FallThrough ==
    /\ decision = Pending /\ ~Empty
    /\ Done \/ (~Done /\ Branch = "last")
    /\ Conclude(IF req.action # "accept" THEN Decided("create", 0, Floor)
                ELSE IF WidenLast THEN Decided("widen", walk.target, 0)
                ELSE Placed)
    /\ UNCHANGED <<rules, req, opts, applied>>

-----------------------------------------------------------------------------
(* Applying a decision. *)

\* The rule _apply creates: exactly the request.
NewRule ==
    [enabled |-> TRUE,
     action |-> CASE req.action = "accept" -> "accept" [] req.action = "block" -> "drop"
                  [] req.action = "ask" -> "other",
     verdict |-> CASE req.action = "accept" -> "accept" [] req.action = "block" -> "drop"
                   [] req.action = "ask" -> "ask",
     src |-> ExactCell(req.src), dst |-> ExactCell(req.dst),
     svc |-> req.obj,
     cond |-> req.restricted, holds |-> TRUE, dynamic |-> FALSE,
     layered |-> FALSE, inline |-> <<>>, cleanup |-> "drop"]

Added(r, d) ==
    IF d = "svc" THEN [r EXCEPT !.svc = Joined(@, req.obj)]
    ELSE [r EXCEPT ![d].seen = @ \cup req[d], ![d].real = @ \cup req[d]]

Changed(layer) ==
    CASE decision.outcome = "create" -> InsertAt(layer, decision.pos, NewRule)
      [] decision.outcome = "widen" ->
            [layer EXCEPT ![decision.at] = Added(@, decision.field)]
      [] decision.outcome = "noop" -> layer

Applied ==
    IF decision.in = 0 THEN Changed(rules)
    ELSE [rules EXCEPT ![decision.in].inline = Changed(@)]

\* execute: the decision is written and published; the same request then comes again.
Apply ==
    /\ decision \notin {Pending, Incomplete}
    /\ applied < MaxApplied
    /\ rules' = Applied
    /\ applied' = applied + 1
    /\ cursor' = Top
    /\ walk' = Fresh
    /\ decision' = Pending
    /\ UNCHANGED <<req, opts>>

Init ==
    /\ rules \in Layers
    /\ req \in Requests
    /\ opts \in Settings
    /\ cursor = Top
    /\ walk = Fresh
    /\ decision = Pending
    /\ applied = 0

Next ==
    \/ Skip \/ Note \/ Doubt \/ Doubtful \/ Divert \/ Carve \/ Enter \/ Granted \/ Blocked
    \/ Floored \/ AboveFirst \/ Consider \/ FallThrough
    \/ Review \/ Apply

Spec == Init /\ [][Next]_vars

-----------------------------------------------------------------------------
(* What must hold. *)

\* What a walk that came to rule n remembers.
Memory(n) ==
    [floor : 0 .. n, target : 0 .. n, anchor : 0 .. n, field : Columns,
     below : BOOLEAN, doubt : BOOLEAN, noted : BOOLEAN]

\* The variables hold what the walk, the decision and the layer may be.
TypeOK ==
    /\ rules \in Seq(PlainRule \cup LayerRule)
    /\ req \in Requests /\ opts \in Settings
    /\ cursor.in \in 0 .. Len(rules) /\ cursor.at \in 1 .. Len(Here) + 1
    /\ walk \in Memory(cursor.at) /\ cursor.outer \in Memory(cursor.in)
    /\ decision \notin {Pending, Incomplete} =>
        /\ decision.outcome \in {"noop", "widen", "create"}
        /\ decision.outcome = "create" =>
              decision.pos \in 1 .. (IF decision.in = 0 THEN Len(rules)
                                     ELSE Len(rules[decision.in].inline)) + 1
    /\ applied \in 0 .. MaxApplied

Answered == decision \notin {Pending, Incomplete}

\* The settings under which the engine promises that the access will work.
MakesItWork == opts.override /\ opts.carveout /\ ~opts.ignore

\* An approximated cell of a rule that resolves apart from the request: trusted to
\* be apart by _out_of_path.
TrustedApart(r) ==
    \/ r.src.trust = "approx" /\ Rel(req, r).src = "disjoint"
    \/ r.dst.trust = "approx" /\ Rel(req, r).dst = "disjoint"

\* A rule whose columns do not tell the engine what the gateway does.
Misjudged(r) == TrustedApart(r) \/ ~Legible(req, r.svc)

\* The rules of the layer and of its inline layers.
AllRules ==
    {rules[i] : i \in DOMAIN rules}
        \cup UNION {{rules[i].inline[j] : j \in DOMAIN rules[i].inline} : i \in DOMAIN rules}

\* A rule that may deny the request without being a deny the engine can prove: a
\* proven one is resolved, unconditional and, unless it is a drop an application
\* is carved out of, pinned down on its service.
PossibleDeny(r) ==
    /\ ~Misjudged(r)
    /\ \/ r.dynamic \/ r.action = "other" \/ Unresolved(r)
       \/ r.cond /\ ~opts.ignore
       \/ Approximate(r) /\ ~Within(req, r)
       \/ ServiceIndeterminate(req.svc, r.svc) /\ (~ForApp(req.svc) \/ Approximate(r))
       \/ req.action = "ask" /\ ~Within(req, r)

\* The walk stopped at k or passed it, and k is a possible deny.  To widen a rule
\* above the divert into a Dynamic Layer the walk stopped at is the code's choice.
PassedDeny(layer, k) ==
    /\ k \in 1 .. decision.stop
    /\ PossibleDeny(layer[k])
    /\ ~(k = decision.stop /\ layer[k].dynamic /\ decision.outcome = "widen")

\* A rule that the walk passed as a possible deny denies p.
DeniedOnTheWay(p) ==
    LET hit == FirstHit(rules, p)
        sub == FirstHit(rules[hit].inline, p)
    IN  /\ hit # 0
        /\ Verdict(rules, p) = "drop"
        /\ \/ decision.in = 0 /\ PassedDeny(rules, hit)
           \/ decision.in # 0 /\ hit < decision.in /\ PossibleDeny(rules[hit])
           \/ decision.in # 0 /\ hit = decision.in /\ PassedDeny(rules[hit].inline, sub)

Leaps == \E p \in Asked(req) : DeniedOnTheWay(p) /\ Verdict(Applied, p) # "drop"

\* A new rule at the floor goes above a possible deny at the bottom: see FlooredBelowDoubt.
FlooredAboveDoubt ==
    LET layer == IF decision.in = 0 THEN rules ELSE rules[decision.in].inline
    IN  /\ decision.outcome = "create" /\ decision.at = 0
        /\ decision.pos = Len(layer)
        /\ PossibleDeny(layer[Len(layer)])

\* No decision, once applied, opens a packet asked for that a possible deny the walk
\* passed denies: the new rule goes below it, and a rule above it is not widened.  (The
\* other packets are GrantsNothingElse's.)  Left out are the two cases the code gets
\* wrong.
LeapsNoPossibleDeny ==
    Answered /\ Leaps => \/ decision.outcome = "widen" /\ decision.doubt
                         \/ FlooredAboveDoubt

\* "WIDEN is suppressed only when widening would let the request LEAP an opaque
\* possible-deny" (access_automation.py:2035): a widening opens no packet that a
\* possible deny the walk passed denies.
WideningLeapsNoDeny == Answered /\ decision.outcome = "widen" => ~Leaps

\* "the new rule is placed below it" (access_automation.py:1810), of a conditional
\* deny in the path: the floor is below every possible deny.
FlooredBelowDoubt == Answered => ~(Leaps /\ FlooredAboveDoubt)

\* An applied decision changes the verdict of no packet outside the request: a
\* widening multiplies the added cell with every member of the two others.  Left out is a
\* service that is not read in full, of the request or of a rule that equals it.
GrantsNothingElse ==
    [][/\ Apply
       /\ Understood(req)
       /\ \A r \in AllRules : ~Loose(req.svc, r.svc)
       => \A p \in Packets \ Asked(req) : Verdict(rules', p) = Verdict(rules, p)]_vars

\* An answer to an access request that tells the reader of nothing unresolved.  A decision
\* below a Dynamic Layer's divert is silent, and left out.
Silent ==
    /\ Answered /\ req.action = "accept" /\ ~req.restricted /\ MakesItWork
    /\ ~decision.noted /\ ~decision.doubt

\* The access works once the decision is applied; for a NO_OP, it does already.
Works == \A p \in Asked(req) : Verdict(Applied, p) = "accept"

\* An answer to an access request that tells the reader of nothing unresolved is
\* true: every packet asked for is accepted once it is applied, or is already for a
\* NO_OP.
UnnotedAnswerHolds == Silent /\ (\A r \in AllRules : ~Misjudged(r)) => Works

\* "a multi-kind request is covered ONLY when EVERY kind it spans is covered"
\* (access_automation.py:405), and so no rule that grants one member of a service group
\* answers for the others.
EveryMemberIsCovered ==
    /\ Silent /\ Understood(req)
    /\ \A r \in AllRules : ~TrustedApart(r) /\ ~Strays(req.svc, r.svc)
    => Works

\* "Can we PROVE the service dimension does NOT match?" (access_automation.py:1190): a drop
\* is only stepped over when it denies nothing of the request.
ProvedNotToMatch ==
    /\ Silent /\ Understood(req)
    /\ \A r \in AllRules : ~TrustedApart(r) /\ ~Halves(req.svc, r.svc)
    => Works

\* "membership not enumerable -> unknown extent -> REVIEW" (access_automation.py:1037): no
\* silent answer is given for a service that is not read in full.
UnknownExtentIsReviewed ==
    /\ Silent
    /\ \A r \in AllRules : /\ ~TrustedApart(r)
                           /\ ~Halves(req.svc, r.svc) /\ ~Strays(req.svc, r.svc)
    => Works

\* "Must never be loose: a rule that is BROADER than the request read as EQUAL would let a
\* widen on another dimension grant that broader service" (access_automation.py:391-393).
WidensNeverLoosely ==
    [][Apply /\ Understood(req)
       => \A p \in Packets \ Asked(req) : Verdict(rules', p) = Verdict(rules, p)]_vars

\* "already permitted" (access_automation.py:1732) is said only of access that is
\* permitted, unless the reader is told of a rule in the path that may say no.
NoOpIsTrue ==
    /\ Answered /\ decision.outcome = "noop" /\ req.action = "accept" /\ MakesItWork
    /\ ~decision.noted
    /\ \A r \in AllRules : ~r.dynamic /\ ~Misjudged(r)
    => \A p \in Asked(req) : Verdict(rules, p) = "accept"

\* A block request denies the whole flow, above everything that may accept it. Left
\* out: what a Dynamic Layer diverts before.
BlockDenies ==
    /\ Answered /\ req.action = "block"
    /\ \A r \in AllRules : ~r.dynamic /\ ~Misjudged(r)
    => \A p \in Asked(req) : Verdict(Applied, p) = "drop"

\* A catch-all drop with an approximated cell.  The walk notes it while no enabled rule
\* follows it and goes on, and once one does it is a proven deny.
RoughCleanup(r) == r.action = "drop" /\ CatchAll(r) /\ Approximate(r)

\* The same access request, asked again once its decision was applied, writes
\* nothing more: the walk meets what the first decision wrote. Left out is a rough
\* cleanup: a new rule may go below it, and asked again another one goes above it; and a
\* service that is compared by name and written as what it holds.
AskedAgainWritesNothing ==
    /\ Understood(req)
    /\ Answered /\ applied > 0 /\ req.action = "accept" /\ ~req.restricted /\ MakesItWork
    /\ \A r \in AllRules : ~RoughCleanup(r)
    => decision.outcome = "noop"

=============================================================================
