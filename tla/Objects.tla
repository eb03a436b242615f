------------------------------- MODULE Objects -------------------------------
(***************************************************************************)
(* The objects of a request: how the names in it are correlated, how its   *)
(* preview names them, how its apply looks each up, creates what is        *)
(* missing, and writes a rule or widens one.  People add and remove        *)
(* objects in the meantime.                                                *)
(* The source stands for both endpoints; the session publishes all it made *)
(* with the rule, or discards it.                                          *)
(***************************************************************************)
EXTENDS Addresses, Correlate

CONSTANTS
    Objects,    \* those that people may add
    Catalogues, \* what the names of applications and services may be
    Layers,     \* the layers of a server, as they compare with the name in the request
    CellsOfRule,\* the source cells of a rule that is widened
    Starts,     \* the objects there may be at first, with the request: source, service, an object of a
                \* further column or None, and what the agent asks the name of before, or None
    PageSize,   \* most objects of an answer
    MaxEdits    \* bound on what people do

\* An application is correlated before it is looked up, and it is the service that may be one.
ASSUME RequestsAssumption ==
    \A start \in Starts :
        /\ start.request.src.kind \notin {"port", "named", "term", "service"}
        /\ start.request.src.kind = "ip" => start.request.src.scope \in Int \X Int
        /\ start.request.svc.kind \in {"port", "term", "service"}

\* The server has so many objects.  The name of a domain object tells the domain, and what compares as
\* more than near has a score of 97 or of 100.
ASSUME ServerAssumption ==
    /\ PageSize \in Nat /\ MaxEdits \in Nat
    /\ \A all \in Catalogues : IsFiniteSet(all)
    /\ \A start \in Starts :
        /\ IsFiniteSet(start.objs)
        /\ \A o \in start.objs \cup Objects :
            /\ o.is \in {"address", "infra"} => o.iv \subseteq Int \X Int
            /\ o.is = "typed" /\ o.typed.kind = "domain" /\ start.request.src.kind = "domain" =>
                   (o.name = start.request.src.new => o.typed.base = start.request.src.base)
            /\ o.is = "column" \/ (o.is = "typed" /\ o.typed.kind = "access-role") =>
                   o.level = "fuzzy" \/ (o.level \in {"exact", "normalized"} /\ o.score \in {97, 100})

VARIABLES
    objs,      \* the objects on the server
    cell,      \* the source cell of the rule that a widening extends
    catalogue, \* the names that the correlation compared
    job,       \* the request, how far it is, and what it found
    shown,     \* what its preview said, or None
    written,   \* what the apply published, or None
    edits

objectsVars == <<objs, cell, catalogue, job, shown, written, edits>>

-----------------------------------------------------------------------------
(* Lookup. *)

\* The order of an answer is the server's, and stays.
Page(found) ==
    IF Cardinality(found) <= PageSize THEN found
    ELSE CHOOSE p \in kSubset(PageSize, found) : TRUE

Single(scope) == scope[1] = scope[2]

\* _object_ip_span(): an object of both families shows the IPv4 one, a wildcard its address.
Span(o) ==
    IF o.is = "wildcard" THEN <<o.addr, o.addr>> ELSE CHOOSE i \in o.iv : \A j \in o.iv : i[1] <= j[1]

\* Reuse prefers a host, a network, a range; anything else comes last.
Rank(o) == CASE o.type = "host" -> 0 [] o.type = "network" -> 1 [] o.type = "range" -> 2 [] OTHER -> 9

First(found) == CHOOSE o \in found : \A p \in found : Rank(o) <= Rank(p)

\* The objects that hold the address: the answer of the server to ip-only.
Containing(all, address) ==
    Page({o \in all : o.is \in {"address", "infra", "wildcard"} /\ address \in Reach(o)})

\* Mutant: whatever holds the address is reused.
AnyContaining(all, scope) ==
    LET exact == Containing(all, scope[1]) IN IF exact = {} THEN None ELSE First(exact)

\* lookup_address_object()
LookupAddress(all, scope) ==
    LET exact == {o \in Containing(all, scope[1]) : Span(o) = scope}
    IN  IF exact = {} THEN None ELSE First(exact)

\* lookup_host(): a host by either of its addresses.
LookupHost(all, scope) ==
    LET hosts == {o \in all : o.is = "address" /\ o.type = "host" /\ scope \in o.iv}
    IN  IF hosts = {} THEN None ELSE CHOOSE o \in hosts : TRUE

\* The objects of the name and kind that are asked for.
SameName(all, q) == {o \in all : o.is = "typed" /\ o.typed.kind = q.kind /\ o.name = q.new}

\* _find_dns_domain(), lookup_typed_object(): a domain needs the same meaning too.
LookupTyped(all, q) ==
    LET fit == {o \in SameName(all, q) : q.kind = "domain" => o.typed.sub = q.sub}
    IN  IF fit = {} THEN None ELSE CHOOSE o \in fit : TRUE

Creatable == {"ip", "port", "domain", "dynamic"}

\* lookup_service(): by the port alone.
LookupService(all, port) ==
    LET same == Page({o \in all : o.is = "port" /\ o.port = port})
    IN  IF same = {} THEN None ELSE CHOOSE o \in same : TRUE

AnyObject == [name |-> "Any", is |-> "any"]
Internet == [name |-> "Internet", is |-> "typed", typed |-> [kind |-> "internet"]]

\* Mutant: a network is made of its first address.
HostOnly(q) ==
    CASE q.kind = "ip" -> [name |-> q.new, is |-> "address", iv |-> {<<q.scope[1], q.scope[1]>>}, type |-> "host"]
      [] q.kind = "domain" -> [name |-> q.new, is |-> "typed", typed |-> [kind |-> "domain", base |-> q.base, sub |-> q.sub]]
      [] q.kind = "port" -> [name |-> q.new, is |-> "port", port |-> q.port, narrow |-> FALSE]
      [] OTHER -> [name |-> q.new, is |-> "typed", typed |-> [kind |-> q.kind]]

\* What is created for a part of a request, under the name that the templates give it.
NewObject(q) ==
    CASE q.kind = "ip" -> [name |-> q.new, is |-> "address", iv |-> {q.scope},
                           type |-> IF Single(q.scope) THEN "host" ELSE "network"]
      [] q.kind = "domain" -> [name |-> q.new, is |-> "typed", typed |-> [kind |-> "domain", base |-> q.base, sub |-> q.sub]]
      [] q.kind = "port" -> [name |-> q.new, is |-> "port", port |-> q.port, narrow |-> FALSE]
      [] OTHER -> [name |-> q.new, is |-> "typed", typed |-> [kind |-> q.kind]]

\* lookup_endpoint() and its like: what there is for a part of the request, None when it is missing.
Lookup(all, q) ==
    CASE q.kind = "any" -> AnyObject
      [] q.kind = "internet" -> Internet
      [] q.kind = "ip" -> LookupAddress(all, q.scope)
      [] q.kind = "port" -> LookupService(all, q.port)
      [] q.kind = "named" -> [name |-> q.new, is |-> "named"]
      [] OTHER -> LookupTyped(all, q)

-----------------------------------------------------------------------------
(* The preview. *)

\* Mutant: the preview looks for any object that holds the address.
ToldWider(all, q) ==
    LET o == IF q.kind = "ip" THEN AnyContaining(all, q.scope) ELSE Lookup(all, q)
    IN  IF o = None THEN [name |-> q.new, exists |-> FALSE] ELSE [name |-> o.name, exists |-> TRUE]

\* _endpoint_object_preview(), typed_object_preview(), _svc_object_preview()
Told(all, q) ==
    LET o == Lookup(all, q)
    IN  IF o = None THEN [name |-> q.new, exists |-> FALSE] ELSE [name |-> o.name, exists |-> TRUE]

\* build_preview(): of what the decision needs, source and service.
Preview ==
    /\ job.at = "decided" /\ shown = None
    /\ shown' = [src |-> Told(objs, job.src), svc |-> Told(objs, job.svc)]
    /\ UNCHANGED <<objs, cell, catalogue, job, written, edits>>

-----------------------------------------------------------------------------
(* The names in the request. *)

Fail == job' = [job EXCEPT !.at = "failed", !.made = {}]

\* The objects whose names are compared: identities and those of the further columns.
Comparable == {o \in objs : o.is = "column" \/ (o.is = "typed" /\ o.typed.kind = "access-role")}

\* The tools correlate_time() and its like: the agent requests the object that it is told, or a person
\* decides.
CorrelateName ==
    /\ job.at = "asking"
    /\ \E sure \in BOOLEAN :
         \E m \in ColumnTakenFor(Comparable, job.asks, sure) :
           LET told == [job EXCEPT !.at = "layer", !.sure = sure]
           IN  \/ m = {} /\ job' = [job EXCEPT !.at = "review"]
               \/ \E c \in m :
                    job' = IF job.asks = "access-role"
                           THEN [told EXCEPT !.taken = c, !.src = [kind |-> job.asks, new |-> c.name]]
                           ELSE [told EXCEPT !.taken = c, !.column = [kind |-> job.asks, name |-> c.name]]
    /\ UNCHANGED <<objs, cell, catalogue, shown, written, edits>>

\* resolve_layer_name(); the name is kept when the layers cannot be listed.
FindLayer ==
    /\ job.at = "layer"
    /\ \E ls \in Layers :
         \/ LayersNamed(ls) = {} /\ Fail
         \/ \E l \in LayersNamed(ls) : job' = [job EXCEPT !.at = "names", !.layer = l, !.layers = ls,
                                                              !.taken = None, !.sure = FALSE]
    /\ UNCHANGED <<objs, cell, catalogue, shown, written, edits>>

\* _expand_request_service(): the object of a service with a port, and of a group, is asked for, so that
\* its ports and members are compared; an answer that fails leaves the name.
Expansions(service) == IF service.is \in {"port", "group"} THEN BOOLEAN ELSE {FALSE}

\* A service that more is read of than that it is there: its port is a number or a range, and it
\* matches by nothing else.  A group within a group comes without its members.
Legible(service) ==
    CASE service.is = "port" -> service.port # None /\ ~service.narrow
      [] service.is = "group" -> FALSE
      [] OTHER -> TRUE

\* decide(): without anything concrete to compare, a person decides.
Concrete(svc) ==
    ~svc.expanded \/ Legible(svc.is.obj) \/ (svc.is.obj.is = "group" /\ \E o \in svc.is.obj.members : Legible(o))

\* _correlate(): the name of an application or of a service becomes that of one object, or a person
\* decides.
Correlated ==
    /\ job.at = "names"
    /\ LET decided == [job EXCEPT !.at = "decided", !.layer = None, !.layers = {}]
       IN  \/ /\ job.svc.kind = "port"
              /\ job' = decided /\ UNCHANGED catalogue
           \/ /\ job.svc.kind # "port"
              /\ \E all \in Catalogues, sure \in BOOLEAN :
                   \E m \in TakenFor(all, job.svc.kind, sure) :
                     \/ m = {} /\ job' = [decided EXCEPT !.at = "review"] /\ UNCHANGED catalogue
                     \/ \E c \in m : \E expanded \in Expansions(c.obj) :
                          LET svc == [kind |-> "named", new |-> c.name, is |-> c, expanded |-> expanded]
                          IN  /\ catalogue' = all
                              /\ job' = IF Concrete(svc) THEN [decided EXCEPT !.sure = sure, !.svc = svc]
                                        ELSE [decided EXCEPT !.at = "review"]
    /\ UNCHANGED <<objs, cell, shown, written, edits>>

\* The decision: a new rule, always with a further column, or a rule whose source or service is widened.
Begin ==
    /\ job.at = "decided" /\ catalogue' = {}
    /\ \E mode \in IF job.column = None THEN {"create", "source", "service"} ELSE {"create"} :
         /\ job' = [job EXCEPT !.at = IF mode = "service" THEN mode ELSE "source", !.mode = mode]
         /\ IF mode = "source" THEN cell' \in CellsOfRule ELSE UNCHANGED cell
    /\ UNCHANGED <<objs, shown, written, edits>>

-----------------------------------------------------------------------------
(* The objects of the apply. *)

All == objs \cup job.made

\* A name is unique on the server.
Free(name) == \A o \in All : o.name # name

\* What a lookup finds is used, what it misses is created; not every kind may be, and the name may
\* be taken, for a domain by the same name with the other meaning.
Resolve(q, column, next) ==
    LET looked == Lookup(All, q)
        found == IF looked = None /\ q.kind = "ip" /\ Single(q.scope) THEN LookupHost(All, q.scope) ELSE looked
    IN  \/ /\ found # None
           /\ job' = [job EXCEPT !.at = next, !.use[column] = found]
        \/ /\ found = None /\ q.kind \in Creatable /\ Free(q.new)
           /\ job' = [job EXCEPT !.at = next, !.use[column] = NewObject(q), !.made = @ \cup {NewObject(q)}]
        \/ /\ found = None /\ ~(q.kind \in Creatable /\ Free(q.new))
           /\ Fail

\* _resolve_endpoint_object()
ResolveSource ==
    /\ job.at = "source"
    /\ Resolve(job.src, "src", IF job.mode = "create" THEN "service" ELSE "write")
    /\ UNCHANGED <<objs, cell, catalogue, shown, written, edits>>

\* _resolve_svc_object()
ResolveSvc ==
    /\ job.at = "service"
    /\ Resolve(job.svc, "svc", IF job.mode = "create" THEN "column" ELSE "write")
    /\ UNCHANGED <<objs, cell, catalogue, shown, written, edits>>

\* _apply(), the further columns
ResolveColumn ==
    /\ job.at = "column"
    /\ \/ job.column = None /\ job' = [job EXCEPT !.at = "write"]
       \/ /\ job.column # None
          /\ \E sure \in BOOLEAN : \E may \in MayBeWritten(Comparable, job.column.kind, job.column.name, sure) :
               job' = IF may THEN [job EXCEPT !.at = "write"]
                      ELSE [job EXCEPT !.at = "refused", !.made = {}, !.sure = sure]
    /\ UNCHANGED <<objs, cell, catalogue, shown, written, edits>>

UsedObjects == {job.use[c] : c \in {"src", "svc"}} \ {None}

\* All that the rule names is there.
Accepted ==
    /\ \A o \in UsedObjects : o.is \in {"any", "named"} \/ o = Internet \/ ~Free(o.name)
    /\ job.column # None => ~Free(job.column.name)

\* What the names of the rule stand for when it is written.
Now(o) ==
    IF o # None /\ o.is = "named" THEN job.svc.is.obj
    ELSE IF o # None /\ \E p \in All : p.name = o.name THEN CHOOSE p \in All : p.name = o.name ELSE o

\* _apply() and the publish; the rule refers to objects by their names.
Write ==
    /\ job.at = "write"
    /\ \/ Fail /\ UNCHANGED <<objs, written>>
       \/ /\ Accepted
          /\ objs' = All
          /\ written' = [src |-> cell \cup ({Now(job.use["src"])} \ {None}), svc |-> {Now(job.use["svc"])} \ {None}]
          /\ job' = [job EXCEPT !.at = "done"]
    /\ UNCHANGED <<cell, catalogue, shown, edits>>

-----------------------------------------------------------------------------
(* People; what they did before the decision is in Initial. *)

AddObject ==
    /\ edits > 0 /\ edits' = edits - 1 /\ written = None /\ job.at \notin {"asking", "layer", "names", "review", "refused", "failed"}
    /\ \E o \in Objects : Free(o.name) /\ objs' = objs \cup {o}
    /\ UNCHANGED <<cell, catalogue, job, shown, written>>

RemoveObject ==
    /\ edits > 0 /\ edits' = edits - 1 /\ written = None /\ job.at \notin {"asking", "layer", "names", "review", "refused", "failed"}
    /\ \E o \in objs : objs' = objs \ {o}
    /\ UNCHANGED <<cell, catalogue, job, shown, written>>

-----------------------------------------------------------------------------
ObjectsInit ==
    /\ cell = {} /\ catalogue = {}
    /\ \E start \in Starts :
         /\ objs = start.objs
         /\ \E r \in {start.request} :
              job = [at |-> IF r.asks = None THEN "layer" ELSE "asking", asks |-> r.asks, src |-> r.src, svc |-> r.svc,
                     column |-> r.column, mode |-> None, made |-> {}, layer |-> None, layers |-> {}, sure |-> FALSE,
                     taken |-> None, use |-> [src |-> None, svc |-> None]]
    /\ shown = None /\ written = None /\ edits = MaxEdits

ObjectsNext ==
    \/ CorrelateName \/ FindLayer \/ Correlated \/ Preview \/ Begin
    \/ ResolveSource \/ ResolveSvc \/ ResolveColumn \/ Write
    \/ AddObject \/ RemoveObject

ObjectsSpec == ObjectsInit /\ [][ObjectsNext]_objectsVars

-----------------------------------------------------------------------------
(* What must hold. *)

\* The addresses, or the domains, that an object or a part of a request stands for.
Meaning(q) == CASE q.kind = "ip" -> AddressesOf({q.scope}) [] q.kind = "domain" -> Covering(q)
                [] q.kind = "any" -> Line [] OTHER -> {q.kind}
MeaningOf(o) == IF o.is # "typed" THEN Reach(o)
                ELSE IF o.typed.kind = "domain" THEN Covering(o.typed) ELSE {o.typed.kind}

Done == job.at = "done"

\* lookup_address_object() says that it keeps "only an object whose own span is IDENTICAL to the
\* request (never a broader container, which would over-grant)".
ReuseNeverOverGrants ==
    Done /\ job.use["src"] # None => MeaningOf(job.use["src"]) \subseteq Meaning(job.src)

\* An object with one address scope: no wildcard, and not of both families.
OneScope(o) == o.is # "wildcard" /\ (o.is \in {"address", "infra"} => \E i \in o.iv : o.iv = {i})

\* What an apply found or created, and nobody touched before it was published, stands for the
\* requested addresses or domains and for no others.
\* Left out: wildcards and objects of both families.
ReferenceIsTheRequest ==
    Done /\ edits = MaxEdits =>
        \A o \in {job.use["src"]} \ {None} : OneScope(o) => MeaningOf(o) = Meaning(job.src)

\* With nobody in between, the apply refers to the object that the preview said exists, and creates
\* only what it said is missing, under the name that it gave.
ShownIsDone ==
    Done /\ shown # None /\ edits = MaxEdits =>
        \A c \in {"src", "svc"} : job.use[c] # None =>
            /\ shown[c].exists => job.use[c].name = shown[c].name
            /\ job.use[c] \in job.made => ~shown[c].exists /\ job.use[c].name = shown[c].name

\* Of what the server finds, only m is written as alike.
Unique(m) ==
    At(Findable(catalogue, IF m.kind = "service" THEN {"service"} ELSE {"app", "category"}), m.level) = {m}

\* What a name is compared with: all that the server lists, but for the groups that a rule may be
\* installed on, of which nobody has a list; or what the server finds by the name.
Compared(all, kind) ==
    CASE kind = "gateway" -> {o \in all : o.kind = kind}
      [] kind \in {"limit", "vpn"} -> {o \in all : o.kind \in Types(kind)}
      [] OTHER -> {o \in all : o.kind \in Types(kind) /\ o.found}

\* A name is only taken for another when nothing else that the server has is written as alike.
\* Left out: an answer of which a part failed.
NeverAGuess ==
    /\ job.layer # None /\ job.layer.level = "normalized" => Cardinality(At(job.layers, "normalized")) = 1
    /\ job.at = "decided" /\ job.svc.kind = "named" /\ job.sure /\ job.svc.is.level # "fuzzy" => Unique(job.svc.is)
    /\ job.taken # None /\ job.sure /\ job.taken.level # "fuzzy" =>
           At(Compared(Comparable, job.asks), job.taken.level) = {job.taken}

\* An apply refuses the name of a column's object only when there is no such object, or when so many
\* others of its class match the filter that its page of the answer lost it: an object that the agent
\* was told, and that is still there, is written.
\* Left out: a class of which the first listing, or one of two queries, fails.
RefusedIsMissing ==
    job.at = "refused" /\ job.sure =>
        \A o \in Comparable : o.kind \in Types(job.column.kind) /\ o.name = job.column.name =>
            o.kind \in LookedUp(job.column.kind) /\ Crowded(Comparable, o.kind, o.name)

\* _resolve_named_objects(): "BEST-EFFORT, never a false reject".
NeverAFalseReject ==
    job.at = "refused" => ~\E o \in Comparable : o.kind \in Types(job.column.kind) /\ o.name = job.column.name

=============================================================================
