------------------------------ MODULE Correlate ------------------------------
(***************************************************************************)
(* From the name in a ticket to the one object it may mean: applications,  *)
(* services, layers, identities and the objects of the further columns.    *)
(* Of a name only matters how it compares with the name in the request:    *)
(* its level, its score in percent, and whether the filter of the server   *)
(* finds it.                                                               *)
(***************************************************************************)
EXTENDS Integers, Sequences, FiniteSets, FiniteSetsExt

CONSTANTS
    AppLimit,     \* most applications of an answer, and most categories
    CatLimit,
    ListPage,     \* how many a page of a listing has
    LookupPage,   \* most objects of the answer to a lookup by the exact name
    Autocorrect   \* percent from which a single near miss is taken, 0 for never

ASSUME LimitsAssumption == AppLimit \in Nat \ {0} /\ CatLimit \in Nat \ {0} /\ LookupPage \in Nat \ {0}

Margin == 8

\* An answer of the server: all it has, or a page of it; or the query fails.
Answers(all, limit) ==
    LET page == IF Cardinality(all) <= limit THEN {all} ELSE kSubset(limit, all)
    IN  {[ok |-> TRUE, objs |-> p, cut |-> Cardinality(p) >= limit] : p \in page}

\* _query() of applications.py: a failure reads as an empty answer.
Failed == [ok |-> FALSE, objs |-> {}, cut |-> FALSE]

Best(cs) == CHOOSE c \in cs : \A d \in cs : d.score <= c.score

\* A near miss that is taken: above the bar, and clear of the next.
Corrected(cs) ==
    /\ Autocorrect > 0 /\ cs # {}
    /\ Best(cs).level = "fuzzy" /\ Best(cs).score >= Autocorrect
    /\ \A d \in cs \ {Best(cs)} : Best(cs).score - d.score >= Margin

At(cs, level) == {c \in cs : c.level = level}

\* Mutant: the first exact match is taken.
AnyOf(cs, cut) ==
    IF At(cs, "exact") # {} THEN At(cs, "exact") ELSE At(cs, "normalized")

\* The only exact match, or with none the only one after normalising, of a complete answer.
OnlyOne(cs, cut) ==
    IF cut THEN {}
    ELSE IF Cardinality(At(cs, "exact")) = 1 THEN At(cs, "exact")
    ELSE IF At(cs, "exact") = {} /\ Cardinality(At(cs, "normalized")) = 1 THEN At(cs, "normalized")
    ELSE {}

\* resolve() of applications.py, from the answers for applications and for categories: the one name
\* that it is taken for, or none and a person decides.
ResolveApp(apps, cats) ==
    LET cs == apps.objs \cup cats.objs
        cut == apps.cut \/ cats.cut
    IN  IF OnlyOne(cs, cut) # {} THEN OnlyOne(cs, cut)
        ELSE IF ~cut /\ Corrected(cs) THEN {Best(cs)} ELSE {}

\* The answers that a query for the names of a kind may get; sure: it does not fail.
Asked(all, kinds, how, limit, sure) ==
    Answers({c \in all : c.kind \in kinds /\ c[how]}, limit) \cup (IF sure THEN {} ELSE {Failed})

\* The queries for an application: by the term, and when that finds nothing by a prefix of it.
AppAnswers(all, sure) ==
    LET by(how) == Asked(all, {"app"}, how, AppLimit, sure) \X Asked(all, {"category"}, how, CatLimit, sure)
        nothing(a) == a[1].objs = {} /\ a[2].objs = {}
    IN  {a \in by("found") : ~nothing(a)}
        \cup (IF \E a \in by("found") : nothing(a) THEN by("near") ELSE {})

\* What the server has an index of; of identities, and of nothing else, by their type too.
Indexed == {"app", "category", "service", "time", "time-group", "data", "data-group", "message"}

\* The types that make up a class.
Types(kind) ==
    CASE kind = "time" -> {"time", "time-group"}
      [] kind = "data" -> {"data", "data-group"}
      [] kind = "vpn" -> {"meshed", "star", "remote"}
      [] kind = "gateway" -> {"gateway", "group"}
      [] OTHER -> {kind}

\* _query_typed(): the query covers every kind of object; the page is cut before the others are left out.
IndexAnswers(all, kind, sure) ==
    {[a EXCEPT !.objs = {c \in @ : c.kind \in Types(kind)}] : a \in Asked(all, Indexed, "found", AppLimit, sure)}

\* _query() of services.py
ServiceAnswers(all, sure) == IndexAnswers(all, "service", sure)

\* resolve() of services.py
ResolveService(answer) == OnlyOne(answer.objs, answer.cut)

\* What the name of an application or a service may be taken for.
TakenFor(all, kind, sure) ==
    IF kind = "term" THEN {ResolveApp(a[1], a[2]) : a \in AppAnswers(all, sure)}
    ELSE {ResolveService(a) : a \in ServiceAnswers(all, sure)}

\* The names that the server would find for what was asked.
Findable(all, kinds) ==
    LET found == {c \in all : c.kind \in kinds /\ c.found}
    IN  IF found # {} THEN found ELSE {c \in all : c.kind \in kinds /\ c.near}

\* A listing that gets as far as a failure.
Interrupted(all) ==
    UNION {kSubset(n * ListPage, all) : n \in {i \in 1..Cardinality(all) : i * ListPage < Cardinality(all)}}

Listed(objs) == [ok |-> TRUE, objs |-> objs, cut |-> FALSE]

\* _list_limits(): what was listed before a failure is better than nothing.
LimitAnswers(all, sure) ==
    {Listed(all)} \cup (IF sure THEN {} ELSE {Failed} \cup {Listed(p) : p \in Interrupted(all)})

\* The commands that list a class, in the order in which they are called.
Commands(kind) ==
    CASE kind = "vpn" -> <<"meshed", "star", "remote">> [] OTHER -> <<kind>>

\* Mutant: what was listed before a failure is all there is.
KnownSoFar(all, kind, sure) ==
    {Listed(p) : p \in {all} \cup Interrupted(all)}

\* _known_object_names(): all that the commands list, or nothing is known when one fails after
\* something was listed; not sure: the first fail at once, and are taken for unavailable.
Known(all, kind, sure) ==
    LET from(i) == {c \in all : \E j \in i..Len(Commands(kind)) : c.kind = Commands(kind)[j]}
    IN  {Listed(from(1)), Failed} \cup (IF sure THEN {} ELSE {Listed(from(i)) : i \in 2..Len(Commands(kind))})

\* The classes of a column whose names are looked up one by one, with a filter.
LookedUp(kind) == CASE kind \in {"time", "data"} -> Types(kind) [] kind = "gateway" -> {"group"} [] OTHER -> {}

\* The filter takes a part of a name: as many others of the class as the page has may match it, and
\* push the name itself out of the answer.
Crowded(all, kind, name) == Cardinality({c \in all : c.kind = kind /\ c.name # name}) >= LookupPage

\* What the query for one class of a lookup tells.
Verdicts(all, kind, name, sure) ==
    {IF \E c \in all : c.kind = kind /\ c.name = name THEN "yes" ELSE "no"}
    \cup (IF Crowded(all, kind, name) THEN {"no"} ELSE {}) \cup (IF sure THEN {} ELSE {"failed"})

\* _typed_lookup(): whether the classes have the name; a class whose query fails is passed over, and
\* nothing is known when all fail.
TypedLookup(all, name, kinds, sure) ==
    LET told == {v \in [kinds -> {"yes", "no", "failed"}] : \A k \in kinds : v[k] \in Verdicts(all, k, name, sure)}
    IN  {IF \E k \in kinds : v[k] = "yes" THEN "yes"
         ELSE IF \E k \in kinds : v[k] = "no" THEN "no" ELSE "unknown" : v \in told}
        \cup {"unknown"}

-----------------------------------------------------------------------------
(* The tools that an agent asks before it requests. *)

\* resolve_time(), resolve_content()
ResolveTyped(all, kind, sure) == {OnlyOne(a.objs, a.cut) : a \in IndexAnswers(all, kind, sure)}

\* resolve() of typed_objects.py: an access role or a zone, by its type.
ResolveIdentity(all, kind, sure) == {OnlyOne(a.objs, a.cut) : a \in Asked(all, {kind}, "found", AppLimit, sure)}

\* resolve() of usercheck.py: the text of a message grants nothing, so that the only one that is near
\* will do.
ResolveMessage(all, sure) ==
    LET near(a) == {c \in a.objs : c.score >= 40}
        only(a) == IF OnlyOne(near(a), a.cut) = {} /\ ~a.cut /\ Cardinality(near(a)) = 1 THEN near(a)
                   ELSE OnlyOne(near(a), a.cut)
    IN  {only(a) : a \in IndexAnswers(all, "message", sure)}

\* resolve_limit(): a listing is taken to be complete.
ResolveLimit(all, sure) == {OnlyOne(a.objs, FALSE) : a \in LimitAnswers({c \in all : c.kind = "limit"}, sure)}

\* resolve_gateway(), resolve_vpn()
ResolveEnumerated(all, kind, sure) == {OnlyOne(a.objs, FALSE) : a \in Known(all, kind, sure)}

\* What the name of a column's object, or of an identity, may be taken for.
ColumnTakenFor(all, kind, sure) ==
    CASE kind \in {"time", "data"} -> ResolveTyped(all, kind, sure)
      [] kind = "message" -> ResolveMessage(all, sure)
      [] kind = "limit" -> ResolveLimit(all, sure)
      [] kind \in {"gateway", "vpn"} -> ResolveEnumerated(all, kind, sure)
      [] OTHER -> ResolveIdentity(all, kind, sure)

\* _resolve_named_objects() of the column of a kind: whether the name may be written.
MayBeWritten(all, kind, name, sure) ==
    LET typed(kinds) == {a # "no" : a \in TypedLookup(all, name, kinds, sure)}
        listed(a) == ~a.ok \/ \E c \in a.objs : c.name = name
    IN  CASE kind = "message" -> {TRUE}
          [] kind \in {"time", "data"} -> typed(LookedUp(kind))
          [] kind = "gateway" -> UNION {IF listed(a) THEN {TRUE} ELSE typed(LookedUp(kind)) : a \in Known(all, kind, sure)}
          [] OTHER -> {listed(a) : a \in Known(all, kind, sure)}

\* resolve_layer_name(): the same name whatever its case, or the only one that differs by a noise
\* word; the name as it came when the layers cannot be listed.
LayersNamed(layers) ==
    IF At(layers, "exact") # {} THEN At(layers, "exact")
    ELSE IF Cardinality(At(layers, "normalized")) = 1 THEN At(layers, "normalized") ELSE {}

=============================================================================
