------------------------------ MODULE LayerPush ------------------------------
(***************************************************************************)
(* Dynamic layers: authoring a layer, pushing it to a gateway from the     *)
(* portal or by an agent, the thread that runs the push, what it records,  *)
(* fetching what a gateway has and importing it; the saved gateway with    *)
(* its address, its pinned certificate and its password.                   *)
(***************************************************************************)
EXTENDS Naturals, FiniteSets, FiniteSetsExt

CONSTANTS
    Pushes,     \* the requests to push
    Agents,     \* those an agent makes, under one idempotency key
    Mock,       \* those to the built-in target
    Dry,        \* those that only validate
    Casts,      \* the pushes a behaviour may have, with the edits and the failures
    Ids,        \* the ids a layer's row may have
    Names,      \* names of layers, in the portal and on a gateway
    Rules,      \* rules
    Uses(_),    \* the name of an object that a rule uses
    Inline,     \* the rules whose object is an address, defined with the rule
    Contents,   \* what the builder may submit
    Hosts,      \* addresses, each with a gateway that presents its own certificate
    None

ASSUME PushesAssumption == Agents \cup Mock \cup Dry \subseteq Pushes /\ Agents \cap Mock = {}
ASSUME CastsAssumption == Casts \subseteq [pushes : SUBSET Pushes, edits : Nat, faults : Nat]
ASSUME IdsAssumption == Ids \subseteq Nat \ {0} /\ Inline \subseteq Rules
ASSUME NoneAssumption == None \notin {"connecting", "logging_in"}  \* None names no stage

VARIABLES
    layers,   \* the rows of layers
    draft,    \* what an agent has read of a layer it is editing, or None
    gw,       \* the row of the saved gateway, or None
    pinner,   \* an edit of that row that is about to pin a certificate, or None
    on,       \* the layers on each gateway
    snap,     \* what the last fetch saw, or None
    job,      \* each push: its request, its thread and its progress
    tasks,    \* the records of pushes
    memo,     \* what the idempotency key stands for, or None
    taken,    \* history: what gateways took of which push
    touched,  \* history: pushes that changed a gateway
    faults, edits  \* the failures and the edits there may still be

rows == <<layers, draft>>
gateway == <<gw, pinner, snap>>
pushVars == <<layers, draft, gw, pinner, on, snap, job, tasks, memo, taken, touched, faults, edits>>

Fault == faults > 0 /\ faults' = faults - 1 /\ UNCHANGED edits
Edit == edits > 0 /\ edits' = edits - 1 /\ UNCHANGED faults
Quiet == UNCHANGED <<faults, edits>>

-----------------------------------------------------------------------------
(* Content: the rules of a layer, the objects it defines and those it refers to. *)

Used(c) == {Uses(r) : r \in c.rules}

\* validate_layer_content(): at least one rule.
Valid(c) == c.rules # {}

\* evaluate_dynamic_content(): names the gateway would not resolve.
Warnings(c) == Used(c) \ (c.defs \cup c.refs)

\* The object an address stands for is defined in the layer; a name refers to one elsewhere.
WithRule(c, r) ==
    [c EXCEPT !.rules = @ \cup {r}, !.defs = @ \cup (IF r \in Inline THEN {Uses(r)} ELSE {})]

\* build_set_dynamic_content()
Payload(row) == [name |-> row.target, content |-> row.content, from |-> row.from]

-----------------------------------------------------------------------------
(* Authoring. *)

Row(name, target, content, from) == [name |-> name, target |-> target, content |-> content, from |-> from]

\* SQLite gives a new row the id after the largest one.
FreshId ==
    {i \in Ids : /\ \A j \in Ids : j >= i => layers[j] = None
                /\ \A j \in Ids : j = i - 1 => layers[j] # None}

AuthorOnly == UNCHANGED <<gw, pinner, on, snap, job, tasks, memo, taken, touched>>

Create ==
    /\ Edit
    /\ \E i \in FreshId, n \in Names, c \in Contents :
         Valid(c) /\ layers' = [layers EXCEPT ![i] = Row(n, n, c, None)]
    /\ UNCHANGED draft /\ AuthorOnly

Update(i) ==
    /\ Edit /\ layers[i] # None
    /\ \E n \in Names, c \in Contents :
         Valid(c) /\ layers' = [layers EXCEPT ![i] = Row(@.name, n, c, None)]
    /\ UNCHANGED draft /\ AuthorOnly

QuickEdit(i) ==
    /\ Edit /\ layers[i] # None
    /\ \E n \in Names : layers' = [layers EXCEPT ![i].name = n]
    /\ UNCHANGED draft /\ AuthorOnly

\* The records of a layer go with it.
Delete(i) ==
    /\ Edit /\ layers[i] # None
    /\ layers' = [layers EXCEPT ![i] = None]
    /\ tasks' = {t \in tasks : t.layer # i}
    /\ UNCHANGED <<draft, gw, pinner, on, snap, job, memo, taken, touched>>

DeleteHistory(i) ==
    /\ Edit
    /\ \E t \in tasks : t.layer = i /\ tasks' = tasks \ {t}
    /\ UNCHANGED <<layers, draft, gw, pinner, on, snap, job, memo, taken, touched>>

\* _resolve_layer(): by the name in the portal first, then by the name on the gateway.
Resolved(n) ==
    LET named == {i \in Ids : layers[i] # None /\ layers[i].name = n}
        aimed == {i \in Ids : layers[i] # None /\ layers[i].target = n}
    IN  IF named # {} THEN {Min(named)} ELSE IF aimed # {} THEN {Min(aimed)} ELSE {}

\* add_dynamic_rule() and remove_dynamic_rule() read the content, change it and write all
\* of it back.
ReadDraft ==
    /\ draft = None /\ Edit
    /\ \E n \in Names : \E i \in Resolved(n) : draft' = [id |-> i, content |-> layers[i].content]
    /\ UNCHANGED layers /\ AuthorOnly

SaveDraft ==
    /\ draft # None /\ Quiet
    /\ \/ layers[draft.id] = None /\ UNCHANGED layers
       \/ /\ layers[draft.id] # None
          /\ \/ \E r \in Rules : layers' = [layers EXCEPT ![draft.id].content = WithRule(draft.content, r)]
             \/ \E r \in draft.content.rules :
                   LET kept == [draft.content EXCEPT !.rules = @ \ {r}]
                   IN  IF Valid(kept)
                       THEN layers' = [layers EXCEPT ![draft.id].content = kept,
                                                     ![draft.id].from = None]
                       ELSE UNCHANGED layers
    /\ draft' = None /\ AuthorOnly

-----------------------------------------------------------------------------
(* The saved gateway. *)

GatewayOnly == UNCHANGED <<layers, draft, on, job, tasks, memo, taken, touched>>

NewGateway ==
    /\ gw = None /\ Edit
    /\ \E h \in Hosts, pw \in BOOLEAN :
         gw' = [host |-> h, cert |-> None, pw |-> pw] /\ pinner' = h
    /\ UNCHANGED snap /\ GatewayOnly

\* The form brings the certificate it was shown, or none; a password is kept, stored or
\* cleared.  When no certificate is left, pin_now fetches one after the commit.
EditGateway ==
    /\ gw # None /\ Edit
    /\ \E h \in Hosts, cert \in {None, gw.cert}, pw \in BOOLEAN :
         /\ gw' = [host |-> h, cert |-> cert, pw |-> pw]
         /\ pinner' = IF cert = None THEN h ELSE None
    /\ UNCHANGED snap /\ GatewayOnly

\* A certificate that was fetched for review is kept on the profile.
SetCert ==
    /\ gw # None /\ Edit
    /\ \E h \in Hosts : gw' = [gw EXCEPT !.cert = h]
    /\ UNCHANGED <<pinner, snap>> /\ GatewayOnly

\* What was fetched from it goes with it.
DeleteGateway ==
    /\ gw # None /\ Edit
    /\ gw' = None /\ snap' = None /\ UNCHANGED pinner /\ GatewayOnly

\* ensure_pinned(): the certificate of the address that was read is written into the row
\* as it is now; nothing happens when the gateway cannot be reached.
Pinned(h) == IF gw = None THEN gw ELSE [gw EXCEPT !.cert = h]

PinNow ==
    /\ pinner # None
    /\ \/ gw' = Pinned(pinner) /\ Quiet
       \/ Fault /\ UNCHANGED gw
    /\ pinner' = None /\ UNCHANGED snap /\ GatewayOnly

-----------------------------------------------------------------------------
(* Reading a gateway, and importing what was read. *)

\* _layer_view(): what an import keeps of a layer on the gateway.
LayerView(n, h) == on[h][n]

Trusted == gw.cert \in {None, gw.host}

Fetched == [n \in Names |-> LayerView(n, gw.host)]

\* _save_snapshot(): a fetch that failed leaves the view without layers.
SaveSnapshot(ok) == snap' = IF ok THEN Fetched ELSE [n \in Names |-> None]

Fetch ==
    /\ gw # None /\ gw.pw /\ Edit
    /\ \/ Trusted /\ SaveSnapshot(TRUE) /\ gw' = Pinned(gw.host)
       \/ SaveSnapshot(FALSE) /\ UNCHANGED gw
    /\ UNCHANGED pinner /\ GatewayOnly

\* An import writes over the layer of that name in the portal, or makes a new one.
Stored(name, target, c) ==
    LET there == {i \in Ids : layers[i] # None /\ layers[i].name = name}
        from == c.rules \cup c.refs
    IN  IF there # {}
        THEN layers' = [layers EXCEPT ![Min(there)] = Row(@.name, target, c, from)]
        ELSE \E i \in FreshId : layers' = [layers EXCEPT ![i] = Row(name, target, c, from)]

Import ==
    /\ snap # None /\ Edit
    /\ \E n \in Names : snap[n] # None /\ Valid(snap[n]) /\ Stored(n, n, snap[n])
    /\ UNCHANGED draft /\ AuthorOnly

\* import_dynamic_layer(): fetched and stored by one call, without what the rules refer to.
AgentImport ==
    /\ gw # None /\ gw.pw /\ Trusted /\ Edit
    /\ \E n, into \in Names :
         LET live == LayerView(n, gw.host)
             from == live.rules \cup live.refs
             there == {i \in Ids : layers[i] # None /\ layers[i].name = into}
             content == [live EXCEPT !.refs = {}]
         IN  /\ live # None /\ Valid(content)
             /\ IF there # {}
                THEN layers' = [layers EXCEPT ![Min(there)] = Row(@.name, n, content, from)]
                ELSE \E i \in FreshId : layers' = [layers EXCEPT ![i] = Row(into, n, content, from)]
    /\ SaveSnapshot(TRUE) /\ gw' = Pinned(gw.host)
    /\ UNCHANGED <<draft, pinner, on, job, tasks, memo, taken, touched>>

-----------------------------------------------------------------------------
(* A request to push. *)

NoJob == [at |-> "off", id |-> 0, host |-> None, cert |-> None, fp |-> None, payload |-> None,
          task |-> "none", stage |-> "queued", status |-> "none", failed |-> None,
          warned |-> FALSE, told |-> "nothing"]

JobOnly == UNCHANGED <<layers, draft, gateway, on, tasks, memo, taken, touched>>

Refuse(p, why) == job' = [job EXCEPT ![p].at = "refused", ![p].told = why]

\* start_apply(): the thread gets an id and the connection as the request read it.
Started(j) == [j EXCEPT !.at = "queued", !.status = "running"]

\* The mock needs no gateway; another target has the row of a gateway read first.
Begin(p, i) ==
    LET j == [job[p] EXCEPT !.id = i, !.fp = <<i, layers[i].content>>]
    IN  IF p \in Mock THEN job' = [job EXCEPT ![p] = Started(j)]
        ELSE IF gw = None THEN Refuse(p, "no gateway")
        ELSE job' = [job EXCEPT ![p] = [j EXCEPT !.at = "pin", !.host = gw.host, !.cert = gw.cert]]

\* apply_start() of the portal: the page shows one layer.
PortalAsk(p) ==
    /\ job[p].at = "ask" /\ p \notin Agents /\ Quiet
    /\ \E i \in Ids : IF layers[i] = None THEN Refuse(p, "no layer") ELSE Begin(p, i)
    /\ JobOnly

\* push_dynamic_layer(): what is remembered under the key is compared with the layer as it
\* is now; a dry run does not look at the key.
AgentAsk(p) ==
    /\ job[p].at = "ask" /\ p \in Agents /\ Quiet
    /\ \E n \in Names :
         IF Resolved(n) = {} THEN Refuse(p, "no layer")
         ELSE \E i \in Resolved(n) :
           \/ /\ p \notin Dry /\ memo # None
              /\ Refuse(p, IF memo.fp = <<i, layers[i].content>> THEN "replayed" ELSE "conflict")
           \/ (p \in Dry \/ memo = None) /\ Begin(p, i)
    /\ JobOnly

\* ensure_pinned() and the password, typed in the portal or stored.  A row that was written
\* is read again; when the gateway cannot be reached nothing is pinned.
Connected(p) ==
    LET j == job[p]
        pins == j.cert = None /\ gw # None
    IN  /\ j.at = "pin" /\ Quiet
        /\ \E row \in {gw, IF pins THEN Pinned(j.host) ELSE gw} :
             IF row = None THEN Refuse(p, "no gateway") /\ UNCHANGED gw
             ELSE /\ gw' = row
                  /\ \/ ~row.pw /\ Refuse(p, "no password")
                     \/ /\ row.pw \/ p \notin Agents
                        /\ job' = [job EXCEPT ![p] = Started([j EXCEPT
                              !.host = IF pins THEN row.host ELSE @,
                              !.cert = IF pins THEN row.cert ELSE @])]
        /\ UNCHANGED <<layers, draft, pinner, snap, on, tasks, memo, taken, touched>>

-----------------------------------------------------------------------------
(* The thread of a push. *)

\* _run(): the layer is read by its id, when the thread starts.
ReadLayer(p) ==
    /\ job[p].at = "queued" /\ Quiet
    /\ job' = IF layers[job[p].id] = None
              THEN [job EXCEPT ![p].at = "done", ![p].stage = "done", ![p].status = "failed"]
              ELSE [job EXCEPT ![p].at = IF p \in Mock THEN "mock" ELSE "connecting",
                               ![p].stage = "connecting",
                               ![p].payload = Payload(layers[job[p].id])]
    /\ JobOnly

\* _run_mock(): the stages are walked and the content evaluated here.
RunMock(p) ==
    /\ job[p].at = "mock" /\ Quiet
    /\ job' = [job EXCEPT ![p].at = "record", ![p].stage = "logging_out", ![p].task = "ok",
                          ![p].warned = Warnings(job[p].payload.content) # {}]
    /\ JobOnly

Broken(p, stage, failed) ==
    job' = [job EXCEPT ![p].at = "record", ![p].stage = stage, ![p].failed = failed]

\* The handshake checks the pinned certificate; without one it must be publicly trusted.
Connect(p) ==
    /\ job[p].at = "connecting"
    /\ \/ job[p].cert = job[p].host /\ Quiet
          /\ job' = [job EXCEPT ![p].at = "pushing", ![p].stage = "pushing"]
       \/ job[p].cert # job[p].host /\ Quiet /\ Broken(p, "connecting", "connecting")
       \/ Fault /\ Broken(p, "connecting", "connecting")
       \/ Fault /\ Broken(p, "connecting", "logging_in")
    /\ JobOnly

\* Mutant: a step that raised is marked as a connection that failed.
BlamedOnConnection(p) == "connecting"

\* The stage of the step that raised, read before the logout advances it.
FailedAt(p) == job[p].stage

\* set-dynamic-content: a task is what the gateway accepts with.
Push(p) ==
    /\ job[p].at = "pushing"
    /\ \/ Quiet /\ job' = [job EXCEPT ![p].at = "polling", ![p].stage = "polling", ![p].task = "pending"]
       \/ Quiet /\ Broken(p, "logging_out", "pushing")
       \/ Fault /\ Broken(p, "logging_out", FailedAt(p))
       \/ /\ Fault
          /\ job' = [job EXCEPT ![p].at = "record", ![p].stage = "logging_out", ![p].failed = FailedAt(p),
                                ![p].task = "pending"]
    /\ JobOnly

\* How the gateway ends a task: it took all of it; a part, with validation errors in the first
\* task-details; a part, and that list is empty ("partially succeeded", or the errors are in
\* details of their own); or nothing, and the task failed.
Endings == {"ok", "partly", "quietly", "failed"}

\* The gateway works on what it accepted.  A dry run changes nothing.
Process(p) ==
    LET j == job[p] IN
    /\ j.task = "pending" /\ Quiet
    /\ \E how \in Endings :
         /\ job' = [job EXCEPT ![p].task = how]
         /\ IF p \in Dry \/ how = "failed"
            THEN UNCHANGED <<on, taken, touched>>
            ELSE /\ on' = [on EXCEPT ![j.host][j.payload.name] =
                             IF how = "ok" THEN j.payload.content ELSE [j.payload.content EXCEPT !.rules = {}]]
                 /\ touched' = touched \cup {p}
                 /\ taken' = IF how = "ok" THEN taken \cup {[of |-> p, what |-> j.payload]} ELSE taken
    /\ UNCHANGED <<layers, draft, gateway, tasks, memo>>

\* Mutant: a task that ended with validation errors is not told from one that succeeded.
EndedOnly(j) == j.task \in {"ok", "partly", "quietly"}

\* Terminal, not failed, and no validation error in the first task-details.
Succeeded(j) == j.task \in {"ok", "quietly"}

\* show-task, twenty times: terminal, not confirmed in time (it is still at work, or its
\* answers cannot be read), or a call that raised.
Poll(p) ==
    LET j == job[p]
        over(status, warned) ==
            job' = [job EXCEPT ![p].at = "record", ![p].stage = "logging_out",
                               ![p].status = status, ![p].warned = warned]
    IN  /\ j.at = "polling"
        /\ \/ Succeeded(j) /\ Quiet /\ over("won", FALSE)
           \/ ~Succeeded(j) /\ j.task # "pending" /\ Quiet /\ over("running", FALSE)
           \/ j.task = "pending" /\ Quiet /\ over("won", TRUE)
           \/ Fault /\ over("won", TRUE)
           \/ Fault /\ Broken(p, "logging_out", FailedAt(p))
        /\ JobOnly

Verdict(p) == IF p \in Mock \/ job[p].status = "won" THEN "succeeded" ELSE "failed"

TaskOf(p) ==
    [of |-> p, layer |-> job[p].id, status |-> Verdict(p), warned |-> job[p].warned]

\* _finish()
Finish(p) ==
    [job EXCEPT ![p].at = "done", ![p].status = Verdict(p),
                ![p].stage = IF job[p].failed = None THEN "done" ELSE job[p].failed]

\* Mutant: an error outside the gateway's part ends the thread and nothing else.
Uncaught(p) == [job EXCEPT ![p].at = "done", ![p].status = "running"]

\* The outer handler of _run().
Caught(p) ==
    [job EXCEPT ![p].at = "done", ![p].status = "failed", ![p].failed = job[p].stage]

\* The record is committed; the layer is read again for the activity log, which raises
\* when its row is gone.
Record(p) ==
    /\ job[p].at = "record"
    /\ \/ /\ Quiet /\ tasks' = tasks \cup {TaskOf(p)}
          /\ job' = IF layers[job[p].id] = None THEN Caught(p) ELSE Finish(p)
       \/ Fault /\ UNCHANGED tasks /\ job' = Caught(p)
    /\ UNCHANGED <<layers, draft, gateway, on, memo, taken, touched>>

\* push_dynamic_layer() waits for the progress, forty-five seconds at most, and remembers
\* under its key what was pushed.
AnswerAgent(p) ==
    /\ p \in Agents /\ job[p].told = "nothing" /\ job[p].status # "none"
    /\ IF job[p].at # "done"
       THEN Fault /\ job' = [job EXCEPT ![p].told = "failed"] /\ UNCHANGED memo
       ELSE /\ Quiet
            /\ job' = [job EXCEPT ![p].told = IF job[p].status = "succeeded" THEN "pushed" ELSE "failed"]
            /\ memo' = IF job[p].status = "succeeded" /\ p \notin Dry
                       THEN [fp |-> job[p].fp, of |-> p] ELSE memo
    /\ UNCHANGED <<layers, draft, gateway, on, tasks, taken, touched>>

\* The progress is in memory and the threads are daemons: a restart ends both.
Restart ==
    /\ Fault
    /\ job' = [p \in Pushes |->
                 IF job[p].at \in {"off", "ask", "done", "refused"} THEN job[p]
                 ELSE [job[p] EXCEPT !.at = "lost", !.status = "none"]]
    /\ draft' = None /\ pinner' = None
    /\ UNCHANGED <<layers, gw, snap, on, tasks, memo, taken, touched>>

-----------------------------------------------------------------------------
Home == CHOOSE h \in Hosts : TRUE

PushInit ==
    /\ \E c \in Contents, n \in Names :
         Valid(c) /\ layers = [i \in Ids |-> IF i = 1 THEN Row(n, n, c, None) ELSE None]
    /\ draft = None
    /\ pinner = None
    /\ on = [h \in Hosts |-> [n \in Names |-> [rules |-> Rules, defs |-> {}, refs |-> {Uses(r) : r \in Rules}]]]
    /\ \/ gw = None /\ snap = None
       \/ gw = [host |-> Home, cert |-> None, pw |-> TRUE] /\ snap \in {None, on[Home]}
    /\ \E cast \in Casts :
         /\ job = [p \in Pushes |-> [NoJob EXCEPT !.at = IF p \in cast.pushes THEN "ask" ELSE "off"]]
         /\ faults = cast.faults /\ edits = cast.edits
    /\ tasks = {} /\ memo = None /\ taken = {} /\ touched = {}

Authoring ==
    \/ Create \/ ReadDraft \/ SaveDraft \/ Import \/ AgentImport
    \/ \E i \in Ids : Update(i) \/ QuickEdit(i) \/ Delete(i) \/ DeleteHistory(i)

Profile == NewGateway \/ EditGateway \/ SetCert \/ DeleteGateway \/ PinNow \/ Fetch

Rest ==
    /\ \A p \in Pushes : job[p].at \in {"off", "done", "refused", "lost"} /\ job[p].task # "pending"
    /\ UNCHANGED pushVars

Thread(p) == ReadLayer(p) \/ RunMock(p) \/ Connect(p) \/ Push(p) \/ Poll(p) \/ Record(p)

PushNext ==
    \/ Authoring \/ Profile \/ Restart \/ Rest
    \/ \E p \in Pushes : PortalAsk(p) \/ AgentAsk(p) \/ Connected(p) \/ Thread(p) \/ Process(p) \/ AnswerAgent(p)

PushSpec == PushInit /\ [][PushNext]_pushVars

\* A thread that was started runs on; the request that waits for it looks again and again.
FairSpec == PushSpec /\ \A p \in Pushes : WF_pushVars(Thread(p)) /\ WF_pushVars(AnswerAgent(p))

-----------------------------------------------------------------------------
(* What must hold. *)

\* Records of a success without the warning that the task was not confirmed, of pushes that
\* were neither a dry run nor to the mock.
Green == {t \in tasks : t.status = "succeeded" /\ ~t.warned /\ t.of \notin Mock \cup Dry}

TakenWhole(p) == \E x \in taken : x.of = p /\ x.what = job[p].payload

\* Where the portal says a push succeeded, its task had ended, and the gateway took the whole
\* content or had no error to show for the part it left: not while it still works on the push,
\* not after a failed task, an error it listed or a call that was lost.
SucceededWasTaken ==
    \A t \in Green : TakenWhole(t.of) \/ job[t.of].task = "quietly"

\* "Either way the policy was NOT fully applied - report failed and surface the gateway's own
\* message, don't paint it green" (apply_runner.py:284): what is green was taken whole.
NotPaintedGreen == \A t \in Green : TakenWhole(t.of)

\* When the portal shows that a push broke while connecting or logging in, or it was a dry
\* run, or it went to the mock, no gateway was changed by it.
FailedEarlyLeftAlone ==
    \A p \in touched : /\ p \notin Mock \cup Dry
                       /\ job[p].at = "done" => job[p].failed \notin {"connecting", "logging_in"}

\* Every push ends with an outcome in its progress and an answer to the agent, however it
\* failed, unless the process restarts.
EveryPushEnds ==
    \A p \in Pushes :
        job[p].at = "queued" ~> \/ job[p].status \in {"succeeded", "failed"} /\ (p \in Agents => job[p].told # "nothing")
                                \/ job[p].at = "lost"

\* "so an import -> edit -> push round-trip preserves them rather than dropping the
\* definitions" (apply_runner.py:366): what was on a gateway when its layer was imported is
\* still there when the layer is pushed back with rules added.
RoundTripWipesNothing ==
    \A x \in taken : x.what.from # None => x.what.from \subseteq x.what.content.rules \cup x.what.content.refs

=============================================================================
