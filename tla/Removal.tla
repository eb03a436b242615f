------------------------------- MODULE Removal --------------------------------
(***************************************************************************)
(* Revoking a granted access: decide_removal() walks an access layer top   *)
(* down for one request and ends in NO_OP, DISABLE, DENY or REVIEW;        *)
(* remove_execute() applies it, and the same removal is then asked again.  *)
(* One action per branch of the walk; the reason texts are left out.       *)
(***************************************************************************)
EXTENDS Rulebase

CONSTANTS
    Layers,    \* the access layers a behaviour may start with
    Requests,  \* what is to be removed
    Ignoring   \* the values of the ignore_conditions setting

ASSUME IgnoringAssumption == Ignoring \subseteq BOOLEAN
ASSUME RequestsAssumption ==
    Requests \subseteq [src : SUBSET Sources, dst : SUBSET Destinations,
                        svc : Service,      \* the service as the engine compares it
                        obj : ServiceCell]  \* and the object it names
ASSUME LayersAssumption == \A rules \in Layers : rules \in Seq(PlainRule \cup LayerRule)

Pending == [outcome |-> "pending"]

VARIABLES
    rules,        \* the layer
    req, ignore,  \* the request and the setting, fixed
    at,           \* the rule the walk is at
    enabler,      \* the first accept that may carry the application, or 0
    decision,     \* the decision, or Pending
    before,       \* history: the layer as it was
    applied,      \* a removal was applied and published
    narrowed      \* history: and a second grant lost the source

vars == <<rules, req, ignore, at, enabler, decision, before, applied, narrowed>>

R == rules[at]

Done == at > Len(rules)

\* Nothing can be proved of a rule in the path: a removal never guesses.  A conditional
\* drop never settles a removal, not even under ignore_conditions.
Opaque(r) ==
    \/ r.layered
    \/ r.cond /\ (~ignore \/ r.action = "drop")
    \/ Unresolved(r)
    \/ r.action = "other"

\* An application rides on the ports of a web rule, so neither column proves a thing.
Unclear(r) == ServiceIndeterminate(req.svc, r.svc)

\* The branch of decide_removal a rule is taken by.
Branch ==
    IF ~R.enabled \/ R.dynamic \/ OutOfPath(req, R) THEN "pass"
    ELSE IF Opaque(R) THEN "review"
    ELSE IF Unclear(R)
         THEN IF ForApp(req.svc) /\ R.action = "accept" THEN "carries"
              ELSE IF ForApp(req.svc) /\ enabler # 0 THEN "pass" ELSE "review"
    ELSE IF R.action = "accept" /\ Within(req, R) THEN "grants"
    ELSE IF enabler # 0 THEN "pass"
    ELSE IF R.action = "drop" /\ Within(req, R) THEN "denied"
    ELSE "review"

-----------------------------------------------------------------------------
(* The walk. *)

Empty == req.src = {} \/ req.dst = {} \/ Blank(req.svc)

Conclude(outcome, target, narrow) ==
    /\ decision' = [outcome |-> outcome, target |-> target, narrow |-> narrow]
    /\ UNCHANGED <<rules, req, ignore, at, enabler, before, applied, narrowed>>

Incomplete ==
    /\ decision = Pending /\ Empty
    /\ Conclude("review", 0, 0)

Walking(branch) == decision = Pending /\ ~Empty /\ ~Done /\ Branch = branch

Onward ==
    /\ at' = at + 1
    /\ UNCHANGED <<rules, req, ignore, decision, before, applied, narrowed>>

Pass == Walking("pass") /\ Onward /\ UNCHANGED enabler

\* Mutant: the last accept that may carry the application is the one to deny above.
LastCarrier == at

\* The first one: the drop must be above every rule that lets the application through.
FirstCarrier == IF enabler = 0 THEN at ELSE enabler

Carries == Walking("carries") /\ Onward /\ enabler' = FirstCarrier

Review == Walking("review") /\ Conclude("review", at, 0)

Denied == Walking("denied") /\ Conclude("noop", at, 0)

\* _still_granted_below: a rule below that decides the request, or may, other than by
\* a covering drop.
Decides(r) ==
    /\ r.enabled /\ ~OutOfPath(req, r)
    /\ ~(~r.dynamic /\ ~Opaque(r) /\ ~Unclear(r) /\ r.action = "drop" /\ ~Within(req, r))

Survives(r) == r.dynamic \/ Opaque(r) \/ Unclear(r) \/ r.action = "accept"

StillGrantedBelow ==
    \E j \in at + 1 .. Len(rules) :
        /\ Decides(rules[j]) /\ Survives(rules[j])
        /\ \A k \in at + 1 .. j - 1 : ~Decides(rules[k])

\* Mutant: an approximated cell that equals the request counts as exactly it.
EqualAsResolved == \A d \in {"src", "dst", "svc"} : Rel(req, R)[d] = "equal"

\* The rule grants exactly the request: no cell of it reaches further unseen.
ExactlyThis == ~Approximate(R) /\ \A d \in {"src", "dst", "svc"} : Rel(req, R)[d] = "equal"

\* Disabled, where that revokes the request and nothing more; else a drop goes above.
Grants ==
    /\ Walking("grants")
    /\ IF enabler # 0
       THEN Conclude("deny", enabler, IF Rel(req, R).src = "subset" THEN at ELSE 0)
       ELSE IF ExactlyThis /\ ~StillGrantedBelow
       THEN Conclude("disable", at, 0)
       ELSE Conclude("deny", at, 0)

End ==
    /\ decision = Pending /\ ~Empty /\ Done
    /\ IF enabler # 0 THEN Conclude("deny", enabler, 0) ELSE Conclude("noop", 0, 0)

-----------------------------------------------------------------------------
(* Applying a removal. *)

\* The least-privilege drop: exactly the request.
NewDrop ==
    [enabled |-> TRUE, action |-> "drop", verdict |-> "drop",
     src |-> ExactCell(req.src), dst |-> ExactCell(req.dst),
     svc |-> req.obj,
     cond |-> FALSE, holds |-> TRUE, dynamic |-> FALSE,
     layered |-> FALSE, inline |-> <<>>, cleanup |-> "drop"]

Disabled == [rules EXCEPT ![decision.target].enabled = FALSE]

\* A direct member that equals the requested source leaves the cell of the second grant;
\* another member may still hold some of its addresses.
Without(r, lost) == [r EXCEPT !.src.seen = @ \ lost, !.src.real = @ \ lost]

\* Mutant: the drop goes below the rule it is to precede.
InsertedBelow(layer) == InsertAt(layer, decision.target + 1, NewDrop)

Inserted(layer) == InsertAt(layer, decision.target, NewDrop)

\* The removal is published, and asked again.
Published ==
    /\ applied' = TRUE
    /\ decision' = Pending
    /\ at' = 1 /\ enabler' = 0
    /\ UNCHANGED <<req, ignore, before>>

Disable ==
    /\ ~applied /\ decision.outcome = "disable"
    /\ rules' = Disabled
    /\ Published /\ UNCHANGED narrowed

Deny ==
    /\ ~applied /\ decision.outcome = "deny"
    /\ rules' = Inserted(rules)
    /\ Published /\ UNCHANGED narrowed

\* _narrow_member_name proved that a member of the second grant is the requested source,
\* and not its only one.
DenyAndNarrow ==
    /\ ~applied /\ decision.outcome = "deny" /\ decision.narrow # 0
    /\ \E lost \in SUBSET req.src :
          rules' = Inserted([rules EXCEPT ![decision.narrow] = Without(@, lost)])
    /\ narrowed' = TRUE
    /\ Published

Init ==
    /\ rules \in Layers
    /\ req \in Requests
    /\ ignore \in Ignoring
    /\ at = 1 /\ enabler = 0
    /\ decision = Pending
    /\ before = rules
    /\ applied = FALSE /\ narrowed = FALSE

Next ==
    \/ Incomplete \/ Pass \/ Carries \/ Review \/ Denied \/ Grants \/ End
    \/ Disable \/ Deny \/ DenyAndNarrow

Spec == Init /\ [][Next]_vars

-----------------------------------------------------------------------------
(* What must hold. *)

\* The variables hold what the walk, the decision and the layer may be.
TypeOK ==
    /\ rules \in Seq(PlainRule \cup LayerRule)
    /\ req \in Requests /\ ignore \in Ignoring
    /\ at \in 1 .. Len(rules) + 1 /\ enabler \in 0 .. at - 1
    /\ decision # Pending =>
        /\ decision.outcome \in {"noop", "review", "disable", "deny"}
        /\ decision.outcome \in {"disable", "deny"} => decision.target \in DOMAIN rules
        /\ decision.narrow # 0 => decision.narrow \in decision.target + 1 .. Len(rules)
    /\ applied \in BOOLEAN /\ narrowed \in BOOLEAN

\* What the engine cannot see: a Dynamic Layer, an approximated cell that it trusts to be
\* apart from the request, and a service cell that does not tell it what is matched.
Blind ==
    \E i \in DOMAIN before :
        LET r == before[i]
        IN  \/ r.dynamic
            \/ r.src.trust = "approx" /\ Rel(req, r).src = "disjoint"
            \/ r.dst.trust = "approx" /\ Rel(req, r).dst = "disjoint"
            \/ ~Legible(req, r.svc)

\* "Already not permitted" is said, and a removal is published, only if the gateway then
\* lets nothing of the requested flow through: by no rule below, and by no web rule that
\* carries the application.
RevokedIsRevoked ==
    /\ applied \/ (decision # Pending /\ decision.outcome = "noop")
    /\ ~Empty /\ ~Blind
    => \A p \in Asked(req) : Verdict(rules, p) # "accept"

Kept(p) == Verdict(before, p) = "accept" => Verdict(rules, p) = "accept"

\* A rule that equals the request is one for what the request is for.
EqualIsSame ==
    Understood(req) /\ \A i \in DOMAIN before : ~Loose(req.svc, before[i].svc)

\* No one else loses an access by a removal: a rule is disabled only if it serves no one
\* else.  Left out is what the source of a narrowed second grant had by that rule: see
\* NeverOverRemoves; and a service that is not read in full.
OthersKeepTheirs ==
    applied /\ EqualIsSame =>
        \A p \in Packets \ Asked(req) : (narrowed /\ p.src \in req.src) \/ Kept(p)

\* "first-match then denies just this flow; the broad rule still serves everyone else,
\* never an over-removal" (access_automation.py:2252-2253).
NeverOverRemoves == applied /\ EqualIsSame => \A p \in Packets \ Asked(req) : Kept(p)

\* A removal that was published, asked again, changes nothing more: the walk meets the drop
\* it wrote, or the rule it disabled no longer.  Left out is a service that is compared by
\* name and written as what it holds.
RemovedOnce ==
    applied /\ decision # Pending /\ Understood(req) => decision.outcome \in {"noop", "review"}

=============================================================================
