# PolicyPilot: a verification project

TLA+ models of the parts of PolicyPilot where first-match order, concurrency, retries and
crashes decide whether a firewall change is right, the TLC runs that check them on small
instances, and TLAPS proofs of what matters most for every instance.

To repeat the checks, in this directory: `tlc -config rollback.cfg MCChangeLog.tla` (the table
under [Runs](#runs) names the module of every `.cfg`), and `tlapm ServerProofs.tla`.
`PROJECT.json` has, for every definition, the lines of source it stands for; every property and
every hazard; and for every property of a passing run a plausible bug that breaks it (the
definitions commented `Mutant:`).

## The system

PolicyPilot turns an access request into one change of a Check Point management server's (SMS)
policy, from a portal, a REST API, an MCP server for agents, or a ticketing webhook. Paths
below are under `src/app/`.

| Part | State | Operations | Interacts with |
|---|---|---|---|
| **Access decision engine** `services/access_automation.py` | none of its own; reads one layer, writes one rule | `decide` walks the layer first match first; `execute` applies the decision and publishes | policy cache (preview), write session (apply), journal |
| **Removal and amendment** same file | none | `decide_removal`, `remove_execute`, `amend_execute`, `revert_execute` | as above |
| **Rulebase parsing** same file | none | a cell of objects, groups and exclusions becomes intervals, typed endpoints and services | what the engine compares |
| **Object correlation** same file, `services/applications.py`, `services/services.py`, `services/typed_objects.py` | none; objects of the SMS | a name to one object; look up, reuse or create what a rule refers to | every preview and apply |
| **Rollback journal** `services/change_log.py`, `routers/access_automation.py`, `services/mcp_tools.py` | table `applied_changes`: outcome, inverse operations, `reverted_at`, `resolution` | record, claim, restore, mark, delete, clear; the verbs rollback, disable, reenable, delete rule | the SMS between claim and restore; several threads per entry |
| **Idempotent apply** `services/idempotency.py` and its callers | table `idempotency_records`: key, result, fingerprint, age | `replay`, `remember`, `prune` around `execute` | webhook, MCP and REST threads; write session |
| **Policy cache** `services/mgmt_api.py` | `_RAW_CACHE`: rules, revision token, age per layer | `cached_raw`, `invalidate_cache` | every publish, of PolicyPilot and of others |
| **Management sessions** same file | one pooled read session and one pooled write session per server, with a lock each | `read_session`, `write_session`, `apply_changes`, take-over, shutdown | every call to the SMS |
| **Management servers** `routers/mgmt.py`, `services/mgmt_creds.py` | a profile: host, domain, encrypted secrets, pinned certificate | make, edit, trust, delete; find by number or by what an agent calls it | journal entries keep the number |
| **Policy clean-up** `services/policy_cleanup.py` | stamps in rules' custom fields | scan by hit counts, apply a plan: disable, later delete | journal (batch entries), write session |
| **Dynamic layers and gateways** `routers/dynamic_layers.py`, `routers/gateways.py`, `services/apply_runner.py` | rows of layers and gateways; progress of a push in memory | edit, validate, fetch, import, push to a gateway in a background thread, poll | the gateway's task; a poller in another request |
| **Users and permissions** `routers/users.py`, `routers/ui.py` | table of accounts, reset links | register, make, edit, approve, reset, delete | two administrators at once |
| **API keys and doors** `services/api_keys.py`, `mcp_server.py`, `routers/api_v1.py` | rows of keys, a cache of them per scope | make, revoke, look up; the three doors | every call of a program |
| **Ticketing** `services/ticketing.py`, `routers/access_automation.py` | a remembered answer per ticket | read a body, check it, carry it out, push the answer back | idempotency, engine, call-back |
| **Login guard, rate limit** `services/login_guard.py`, `services/rate_limit.py` | failures and lock per address; request windows | record failure or success, locked for | login requests in parallel |
| **Retention, activity, audit; export, coverage, decision tree; web interface, settings** | logs, settings | trimming, views | little |

What is hard here:

* **First-match order.** A rule's effect depends on all rules above it, some of which cannot be
  resolved (opaque objects, conditions, inline layers). The engine must place a rule above what
  denies it, below what may legitimately deny it, and stay put when asked twice.
* **Several threads on one entry.** Panel, agents and REST callers may act on one journal entry;
  a claim in the database is taken before a call to the SMS that lasts seconds and released
  after it fails.
* **Two systems that do not commit together.** The SMS or a gateway takes a change, then the
  database is written: a crash, a lost answer or a storage error can come between.
* **Retries.** Webhooks and agents deliver again; records expire; requests overlap.
* **Caches.** Rules and their revision token are read by two calls that a publish may separate; rows of
  keys are used for a while after they were read.
* **What was read before an `await`, a preview or a plan** is used after it: accounts, objects, the
  rules of a clean-up plan, the number of a server.
* **Names.** What a ticket says is turned into the one object it may mean, and a field that is
  misread widens the request.

What makes each part correct:

* engine: no possible deny is leapt; what is granted is what was asked; an answer without a
  note is true; an answer once applied is settled; a block blocks;
* removal: what is taken away is not still granted below, and nothing else is taken away;
* parsing: what is trusted as exact is exact, what is approximated claims no more than there is;
* correlation: a reused object stands for the request, a preview says what the apply does, a rule
  that was written is recognised, a name is never guessed;
* journal: one thread per change, one undo per change, the entry tells what the SMS did, a
  rollback touches what PolicyPilot did and nothing else, on the server it did it on;
* idempotency: a request that comes again is replayed or found settled, every call ends;
* cache: an answer is not older than the window says, holds PolicyPilot's own publishes, and
  is never replaced by an older one;
* sessions: a pooled session is handed out clean, no apply commits another's change, no session
  is left behind;
* clean-up: only what the tool itself disabled long enough ago is deleted;
* dynamic layers: a push ends in one reported state, and the state is true;
* accounts: the configured administrator remains; nobody gains a rank by himself;
* keys: a revoked or expired key lets nobody in beyond the lag of the cache;
* tickets: a request means what its ticket says; a ticket sent again gets its own answer, and its
  system no second note.

## Modules

| Module | Models | State ↔ code | Actions ↔ code |
|---|---|---|---|
| `ChangeLog` | journal and its verbs | `log` is `applied_changes` by primary key (ids come back after a delete of the last row, as SQLite's do), `rule` the published policy by rule status, `swept` the clean-up's stamps, `act` what each request thread is at | `Apply*`, `Remove*`, `Cleanup*` publish and `Record` writes the entry; `Look`, `Claim`, `SmsCommit`/`SmsFail`/`SmsTimeout`, `Restore` are the four steps of `aa_revert` and `revert_change`; `DeleteEntry`, `ClearResolved`; `Crash`, `OutOfBand` |
| `RevertLifecycle` | abstract: the states of one entry its docstrings promise | `view` | one step per change: onward only, resolved is final |
| `Rulebase` | pure: rules, cells, relations, first-match verdict | a cell has what the parser `seen` and what is `real`, with its trust | `Relation`, `ServiceRelation`, `OutOfPath` … are `relation`, `svc_relation`, `_out_of_path`; `Verdict` is the gateway |
| `Decide` | `decide`, `_decide`, `_decide_nonaccept`, placement, `execute`'s change | `cursor` and `walk` are the loop and its locals, `decision` the `Decision` | one action per branch of the loop, in the code's order (`Branch` picks the first that applies); `Enter` recurses into an inline layer; `Apply` changes the layer and asks again |
| `Removal` | `decide_removal`, `_still_granted_below`, `remove_execute` | `at`, `enabler` are the loop and its local, `decision` | one action per branch of the walk; `Disable`, `Deny`, `DenyAndNarrow` change the layer and ask again |
| `Addresses` | pure: the line of addresses, its two bands, domains | what an object reaches (`Reach`), what a domain stands for (`Covering`) | `_net_interval`, `ANY_IP` |
| `Cells` | pure: `_parse_net`, `_parse_svc`, intervals, wildcards, groups, exclusions; extends `Addresses` | a parsed cell has intervals, typed endpoints, and the two flags `cx` and `approx` of the code; `Matched` is the gateway | `ParseNet`, `ParseSvc`, `IntervalRelation`, `DomainRelation` |
| `Correlate` | pure: `correlate` of applications, services, layers, identities and columns | a name is how it compares: level, score, found by the server's filter or not | `AppAnswers`, `ServiceAnswers`, `LimitAnswers` … are what a query may answer; `ResolveApp`, `TakenFor`, `TypedLookup` … what is made of it |
| `Objects` | lookup, reuse, creation, preview and apply; extends `Addresses`, `Correlate` | `objs` is the server's, `job` the request, `shown` its preview, `written` what was published | `Preview`, `ResolveSource`, `ResolveSvc`, `ResolveColumn`, `Write`; `AddObject`, `RemoveObject` are people |
| `ReadBack` | `Objects` with `Cells`: what is resolved of a rule's cells, also of one that was just written | that of both | that of `Objects` |
| `ApplyOnce` | `replay` – `execute` – `remember` | `records` is the table, `step` where a call is, `lock` the write session's, `commits` what was published | `Replay`, `Miss`, `Decide`, `Publish`, `Remember`, with `MissUnread`, `Fail`, `TimeOut`, `Forget`, `Crash`, `Late`, `Expire`, `Prune` around them |
| `PolicyCache` | `cached_raw`, `invalidate_cache` | `cache` is `_RAW_CACHE` of one server, `reader` each thread's call, `held` the read session's lock, `rev` the server's last revision | `Hit`, `Look`, `Confirm`, `Ask`, `Pull`, `Stamp`, `Store`, `Error`; `Publish`, `Invalidate`, `Return` are PolicyPilot's publish; `PublishElsewhere`, `Tick` |
| `Sessions` | `read_session`, `write_session`, `apply_changes`, `take_over_session`, `close_write_pool` | `ses` is what the process and the server know of each session, `wpool`, `rpool`, `wlock` the pools and the lock, `conf` the server's row | per request: take a kept session or log in, stage, publish or discard, keep or log out; `Expire`, `TakeOver`, `Shutdown`, `Edit` |
| `LayerPush` | dynamic layers, the push, a saved gateway | `layers`, `gw` are rows, `job` a push with its thread and `progress`, `tasks` its records, `on` what each gateway has, `memo` the idempotency record | `PortalAsk`/`AgentAsk`, the thread's stages (`Thread`), `Process` is the gateway, `AnswerAgent` the poller; `Authoring`, `Profile`, `Restart` |
| `Cleanup` | a plan and its life | `rule` is what the server says of each rule and who did it, `plan`, `job`, `journal` | `Scan`, `Reclassify`, `Commit`, `RecordBatch`, `RevertDisable`, `RevertDelete`; `Toggle`, `Pin`, `Remove`, `Hit`, `Install` are people, traffic and installs |
| `Accounts` | accounts and their administration | `account` is the table, `request` what each handler has read | `Begin` reads, `Check` is after the form, `CreateUser`/`EditUser`/`DeleteUser` commit; `Register`, `ResetByLink`, … ; `Startup` seeds |
| `Keys` | the keys of one scope, the cache and the door | `row` is the table, `cache` is `_cache`, `call` where each lookup is | `Administer` makes and revokes, `Door` reads, stores, matches; `Restart` |
| `Requests` | pure: how a body becomes a request | a body is a function from the fields given | `Verdict`, `Endpoint`, `Column`, `Service` … are those of `parse_payload`, `build_request` |
| `Tickets` | `aa_webhook` behind the door; extends `Keys`, `Requests` | `job`, `commits`, `kept`, `told` | body, read, check, replay or carry out, record, remember, `Notify`, answer; `Stop` at any step |
| `Servers` | profiles of management servers and how one is found | `server` is the table, `log` the journal's number and host, `sent` the last call | `Create`, `Update`, `Delete`, the portal's and the agents' calls and reverts |
| `MC*` | instances for TLC; `MCRulebase` has the rules that `MCDecide` and `MCRemoval` share | | |
| `ServerProofs`, `DecideProofs`, `RemovalProofs`, `ApplyProofs`, `LayersProofs`, `SessionsProofs`, `DoorsProofs`, `RulebaseProofs` | theorems, in this order, of `ChangeLog` and `Objects`; `Decide`; `Removal`; `ApplyOnce` and `Cleanup`; `PolicyCache` and `LayerPush`; `Sessions`; `Accounts`, `Keys` and `Tickets`; and the lemmas on rules that `DecideProofs` and `RemovalProofs` share, see [Proofs](#proofs) | | |

How they compose. `Decide` and `Removal` extend `Rulebase`; what `Rulebase` takes for granted of a
cell (exact means exact, approximate means within) is `ReadBack`'s property `CellIsHonest`. `Objects`
extends `Correlate`, and `ReadBack` extends it and `Cells`, so that what an apply writes is read back by
the parser. The two are apart because the parser recurses into groups, and a module that declares a
`RECURSIVE` operator cannot be proved about; `Objects` can.
`Tickets` extends `Keys` and `Requests`: the door, the reading and the carrying out of a call are one
state machine. `ChangeLog` is shown to implement `RevertLifecycle` by the mapping `ViewOf`.
`ApplyOnce` takes from `Decide` that some decisions settle (`AskedAgainWritesNothing`) and calls
those changes `Settling`; its one lock is what `Sessions` shows of the write session (`OwnChangesOnly`).
`Cleanup`'s entries run through `ChangeLog`'s verbs there, through its own two reverts here.

Choices a reader should know:

* *ChangeLog.* Rules have a status (`on`, `off`, `gone`), not contents: an edit, a widening and
  an amendment are one outcome. `doubt` and `disturbed` are history: the changes and rules that
  a crash, a lost answer, a storage error, an overlap of two claims or an edit in SmartConsole
  has hit. Properties excuse those by name, and nothing else. Entries of dynamic layers, which
  never take the SMS path, are left out.
* *Decide, Removal.* Addresses are small sets, ports and applications two each. A cell the parser
  could not resolve has `seen` unlike `real`, so that the verdict is of the real policy and the
  decision of the seen one; the same goes for whether a condition holds. The typed end points
  (domains, roles, zones) are related by the same five relations and add nothing to the
  walk. A request has the service object it names (`obj`) and what the engine compares of it (`svc`): for a group
  the ports and names of all kinds of its members, for a service that could not be expanded its name alone. A
  connection has at most one port, application or named service. The gateway does
  with a rule what its action says, unless the action is one the engine does not evaluate (`RuleOf`).
  Where what is compared is not what is matched, the properties leave that out by name: `Understood` is a request
  that is compared by all it holds, `Halves` a cell with one of several names of a kind, `Strays` one
  whose names are apart and whose traffic is not, `Loose` one that is opaque by another group than the
  request's. For each, a definition under [Observations](#observations) shows that it is needed.
  Near-miss, disabled-rule and redundancy advice never changes an outcome and is left out.
* *Cells, Correlate, Objects.* Addresses are numbers on one line with a band for each family; a
  name is how it compares with the requested one, never its letters. One edit of people, between
  any two steps. The object that a name of a service is taken for is asked for once more (`Expansions`), and that may
  fail; an apply writes its name. The lookup of an exact name shows one page (`LookupPage`) of what its filter
  takes (`Crowded`). Protocols other than TCP and UDP ports, and names of typed objects that are not
  domains, are left out.
* *ApplyOnce.* The webhook is `async def` and the MCP tools run inline, so both run on the event
  loop one at a time; REST handlers get a thread. Calls with `publish=false` or no key record
  nothing and are left out. Layer pushes keep their records in the same table: `LayerPush`' `memo`.
* *PolicyCache.* One server; a layer's rules are the revision they were read at; a paged pull
  is as old as its first page; token 0 is the empty string a failed lookup gives. One publish
  of PolicyPilot's at a time, as `write_session` orders them. `served` is the answer of the last
  step only.
* *Sessions.* A session is held and known twice, by the process and by the server, so that a lost
  answer, a timeout and a take-over leave the two apart. One server. The shutdown closes the shared
  reader in two steps, its logout and its client's end, without the lock of its calls (`close_pool`): a read
  in between logs in again.
* *LayerPush.* The mock target and the dry run are pushes of their own. A task may end taken whole (`ok`), taken in
  part with errors in the first task-details (`partly`) or without any there (`quietly`), or failed. The content of a rule is its
  name and whether its object is defined with it or must be on the gateway.
* *Keys, Tickets.* One scope per behaviour. The limiter may refuse any call; the time of last use
  of a key is left out. The handler does not wait once it has its body, so that one ticket is
  carried out at a time, as the event loop does. UserCheck columns, which a ticket cannot give, and the
  literals for "all gateways" are reduced to being given or not.
* *Servers.* A number comes back as SQLite gives it (the highest plus one). What the verbs do to a rule is `ChangeLog`'s.
* *Type invariants.* Where a module's state is not plain from its initial values it has a `TypeOK`.
  Of `ChangeLog`, `PolicyCache`, `ApplyOnce`, `Decide`, `Removal`, `Sessions`, `Accounts` and `Tickets`
  it is a theorem, and of `Cleanup`, `LayerPush` and `Objects` part of one (`CleanupInv`, `PushInv`, `ObjectsInv`); the runs spend their properties on what could really
  be wrong.

## Runs

| Run | Module | Asks | Bounds | Size |
|---|---|---|---|---|
| `rollback` | `MCChangeLog` | `OneThreadPerChange`, `LogTellsTruth`, `LogMatchesPolicy`, `ForeignRulesSurvive`, `LifecycleSpec` | 2 threads, 1 rule of the administrator's and 1 uid for an added rule, 2 changes, 1 fault of any of 5 kinds | 1.3M states, 2 min |
| `access` | `MCDecide` | `LeapsNoPossibleDeny`, `UnnotedAnswerHolds`, `BlockDenies`, `AskedAgainWritesNothing`, `GrantsNothingElse` | 15 requests × layers of a hard rule and one of 29 shapes in either order above a cleanup, of a hard one and another or a conditional drop of everything without, of one above an approximated cleanup, and of 3 different hard ones, a grant or a possible deny last, above a cleanup × 4 settings; 1 application in 1 category, services with and without a port | 313k, 45 s |
| `removal` | `MCRemoval` | `RevokedIsRevoked`, `OthersKeepTheirs`, `RemovedOnce` | 11 requests × layers of 2 of the same shapes, and of 6 grants above any 2; conditions ignored or not | 0.5M, 20 s |
| `objects` | `MCObjects` | `CellIsHonest`, `ReferenceIsTheRequest`, `WrittenIsReadBack`, `ShownIsDone`, `NeverAGuess`, `RefusedIsMissing` | 12 addresses, 3 domains, 24 cells, every pair of 14 names, 7 of them of services with a port, without, and of groups, 4 names in each class of a column, answers and lookups of 1 or 2 a page, 1 edit | 1.5M, 2 min |
| `apply` | `MCApplyOnce` | `SettlingOnce`, `RetryReplays`, `EveryCallEnds` | 4 deliveries sent twice each, 2 keys shared by 2 requests each, pooling on and off, 1 fault of any kind | 0.12M, 0.5 min |
| `cache` | `MCPolicyCache` | `AnswersAreRecent`, `OwnPublishSeen`, `NeverOlder` | 2 threads, 1 layer, 2 publishes, clock 0–1, window 1, maximum age 2, session shared or not | 0.8M, 0.5 min |
| `sessions` | `MCSessions` | `KeptClean`, `OwnChangesOnly`, `PublishedIsCommitted`, `NoneLeftBehind` | 3 applies, or 2 of which one is private, or one and a read, or 3 reads; 3 logins, 2 faults, 1 edit of the row, a shutdown | 2.7M, 1.5 min |
| `push` | `MCLayerPush` | `SucceededWasTaken`, `FailedEarlyLeftAlone`, `EveryPushEnds` | 1 push with 2 edits and 1 failure; 2 pushes with 1 or 2 failures; a dry run; the mock; 2 gateways, 2 rules | 0.2M, 1.5 min |
| `cleanup` | `MCCleanup` | `DeletesOnlyItsOwn`, `EnabledGetsItsTime` | 1 rule, 1 target, 1 apply at a time, thresholds of 1 day, 5 days, 2 edits | 1.1M, 0.5 min |
| `accounts` | `MCAccounts` | `ConfigRemains`, `RanksHold` | 3 accounts, 2 requests at once, 3 in all | 0.5M, 1 min |
| `tickets` | `MCTickets` | `AnswersItsServer`, `ToldOnce`, `AcceptedWasLive`, `RequestMeansTicket` | 2 secrets, 2 calls at once, clock 3, cache of 1; for `mcp` and `api` 2 changes of keys or restarts; behind the webhook 45 bodies, 1 change or restart, 2 commits | 1.2M, 2.5 min |
| `servers` | `MCServers` | **violated**: `ChangesStayAtTheirServer` | numbers 1 and 2, 2 profiles made, 1 change | 5 steps, 3 s |

The passing runs turn `CHECK_DEADLOCK` off because their systems may stop: bounds run out, a
walk that is answered has ended. Threads, calls and accounts that are alike are symmetric where no
liveness is checked; `push` and `apply`, which check it, use no symmetry.

### Why the bounds are enough

* `rollback`: every property is about one change, or about two that share an id or a rule. Two
  threads are the least that race for a claim; two changes the least that reuse an id or apply
  to one rule; a second uid lets a recreated rule be told from the first. One fault at any
  point reaches each crash window alone; more than one fault only adds to what is in doubt. The
  safety properties and the refinement are also proved without bounds.
* `access`, `removal`: a wrong placement needs a rule to be stepped over and a rule the placement is
  relative to; the third hard rule gives a doubt on both sides of a candidate. A removal needs the
  grant, a second one below and something between. The 29 shapes have every action, trust,
  condition, inline layer and divert the walk branches on, and cells that hold all, one or none of a group's members;
  the requests are for a port, an application, a category, a service without a port, Any, and groups of two or three kinds; the default settings and
  three others, in which each setting is flipped once, reach every branch. All of both is also proved without bounds.
* `objects`: the IPv4 line is as long as a wildcard mask of three bits, and 16–19 are IPv6; two
  objects on the server are what an ambiguous answer needs, one edit is what comes between a
  preview and an apply, pages of one or two are cut as long ones are. All but `CellIsHonest` and `WrittenIsReadBack` is
  also proved without bounds.
* `apply`: a key shared by two requests, each sent twice, on the three surfaces: overlaps on and
  off the loop, a conflict, a replay after a publish, a record that was overwritten. Its safety is also proved without bounds.
* `cache`: two publishes let one be torn into an entry and the next be missed or found out, two
  threads cross each other's calls, and the clock passes the window; the maximum age, which
  only makes a layer be pulled more often, is passed in `cache_stale`. Proved without bounds.
* `sessions`: three applies are the least where one finds a session that one left and another had
  cleaned; two faults are a failed step and a failed clean-up after it. Proved without bounds.
* `push`: two pushes share a key, a row and a gateway; two failures are one on each side. Its safety is also proved without bounds.
* `cleanup`: five days hold a disable, its rollback, a disable by a person and the deletion, with the day
  between that each threshold needs. More rules or gateways would only be classified side by side. Proved without bounds.
* `accounts`: two requests at once are what a stale reading needs, the third makes or deletes
  an account between them. Proved without bounds.
* `tickets`: two calls share the cache of a scope; a revoked key outlives it by the cache's window of
  one, with the clock going on past it; a body differs from a plain ticket in one or two fields, as
  each rule of the reading looks at one or two. Also proved without bounds.
* `servers`: the smallest that reuses a number.

### What the passing runs show

*Journal.* Outside doubt, a change all of whose verbs close it is worked on by one thread; an entry
says resolved exactly if its undo was committed, once; an added rule's entry matches the rule; no
verb deletes a rule that was there before PolicyPilot, provided the SMS names the rule it adds; and
every entry moves only along active / disabled / resolved, with resolved final.

*Engine.* Of a service of one kind or of a group of several, and but for the cases under
[Observations](#observations): a decision, once applied, opens no packet asked for that a possible deny on the way
denies; grants nothing that was not asked; where it notes nothing, grants all of it (with the settings
meant to make a request work); a block denies all of it; and the same request again writes nothing,
unless a cleanup is approximated.

*Removal.* When it says that nothing is granted, or was published, the gateway lets nothing of the
request through, of all the kinds of service it has; nobody else loses an access, but for what a narrowed second grant gave that source;
asked again it changes nothing.

*Objects.* A cell trusted as exact is exactly what the gateway matches, an approximated one is within
it. What an apply found or created stands for the request, was said by its preview, and is
recognised when the rule is read again, also a named service by its port or a group by its members, when these could
be asked for, with nobody in between; a name is never guessed among alike ones, and never refused when its class
is listed in full and the page of its lookup is not.

*Apply.* With pooled write sessions a change whose decision settles is published once, under
whatever keys, unless a publish was given up on; under a key no fault and no overlap has hit a
retry never publishes again, also where each decision would write; and every call let in ends.

*Cache.* A publish the token tells of is found out within the window; PolicyPilot's own
publishes are seen at once by calls that begin later, unless the cached pull was in flight
when the cache was dropped; and with the shared session a layer's rules never go back.

*Sessions.* Whatever fails, the kept session is clean; nobody commits what another staged or what a
dry run staged; who says published did commit, unless the shutdown went on without the lock; and
after all requests only the pools, sessions whose logout was lost, and at most one shared session that a read
logged in again while the shutdown closed it, remain on the server.

*Layers.* A push recorded as succeeded without a warning was taken whole, or the gateway had no error to show in its
first task-details; one shown as broken before
the gateway was asked left it alone; every push ends with an outcome unless the process restarts.

*Clean-up.* What is deleted was disabled by the tool, and that long ago; an enabled rule, also one
rolled back, has the time of its threshold again.

*Accounts.* The configured administrator is always an active administrator; only an administrator's
request makes an administrator or a manager; nobody becomes active by himself.

*Keys and tickets.* A revoked or expired key lets in no longer than the cache lags, also when the
revocation comes between reading and storing the rows; the request built from a body names the
verdict, the endpoints, the service and the columns that the ticket gives; an answer speaks of the
commit of its own ticket on its own server; a commit is pushed back once.

### What the violated run shows

`servers`: the journal keeps the number of a server, and SQLite gives the number of the last deleted
profile to the next one. A change made on a deleted server is then rolled back on another server. The
comment at `services/mcp_tools.py:735` says that looking up by number alone rules this out.

## Observations

Claims of a docstring, a comment or a document that the modules state and the code does not meet.
Each is a definition of its module with the sentence it quotes; they are kept out of the runs and
TLC finds each violated when it takes the place of the properties of the configuration named here.

| Claim | Configuration | What happens |
|---|---|---|
| `WideningLeapsNoDeny` | `access` | whether a widening is safe is read when the candidate is found; an unresolved deny that comes after it is leapt |
| `FlooredBelowDoubt` | `access` | any rule on Any/Any/Any at the bottom counts as the cleanup, also a conditional drop; the new rule goes above it although the note says below |
| `NoOpIsTrue` | `access` | the notes of an inline layer's walk are dropped when its implicit accept turns the answer into a NO_OP |
| `EveryMemberIsCovered` | `access` | one of a request's applications, categories or named services in a cell counts for all of the kind (`access_automation.py:349`, `:356`, `:361`): the group's other members are not granted, and nothing tells |
| `ProvedNotToMatch` | `access` | a cell of ports is stepped over by a service of any protocol (GRE, RPC), and one of an application by a category that holds it |
| `UnknownExtentIsReviewed` | `access` | a group with a member that cannot be read is decided by the members that can, and a service that could not be expanded by its name |
| `WidensNeverLoosely` | `access` | two opaque sets of several kinds read as equal also when the rule is opaque by a group that the request does not have (`access_automation.py:388`); the widening grants that too |
| `NeverOverRemoves` | `removal` | a second grant is narrowed by the whole source, which loses its other accesses by that rule |
| `ForeignRulesSurvive` | `rollback_nouid.cfg` (as it stands) | `add-access-rule` answers without a uid: the entry's only inverse names the administrator's rule, and disable and delete removes that |
| `SettledEntriesMatchPolicy` | `rollback_overlap.cfg` (as it stands) | `disable` leaves the entry claimable: a `reenable` may publish while it is still on its way, and the entry reads active over a rule that is off |
| `NeverCommitsTwice` | `apply_twice.cfg` (as it stands) | looking a key up and recording it are separate transactions around the publish; a retry that overlaps publishes again if the decision does not settle |
| `ChangeDetected` | `cache_torn.cfg` (as it stands) | a cold pull reads the rules first and the token after, so a publish between them is never noticed |
| `RefreshedInTime` | `cache_stale.cfg` (as it stands) | a confirmed entry gets a new age, so the maximum age is never reached by a layer that is read often |
| `ReachesTheServer` | `sessions` | a session pooled before the server's row was edited, or was deleted and its number given out again, is used for the new address |
| `NotPaintedGreen` | `push` | a task that ends "partially succeeded" with an empty list of errors, or with errors in task-details after the first, is recorded as succeeded without a warning (`apply_runner.py:274`, `:293`) |
| `NothingLingers` | `sessions` | the shutdown logs the shared reader out and closes its client without the lock of its calls; a read in between logs in again and leaves a session on the server (`mgmt_api.py:478`) |
| `RoundTripWipesNothing` | `push` | the agents' import drops a layer's referenced objects, and the push of the imported layer wipes them |
| `RestoreClearsTheStamp` | `cleanup` | a person's enabling leaves the tool's stamp on a rule, and the rollback of a later disable writes that old stamp back |
| `ReuseNeverOverGrants` | `objects` | a host of both families is taken for one of its addresses, and a wildcard for its base |
| `DomainNeverOverclaims` | `objects` | the leading dot of a domain object's name is read as its sub-domains, also of one for the exact domain |
| `NeverAFalseReject` | `objects` | a listing that fails at first is remembered as partly known, or a name is lost behind a full page of its lookup (`access_automation.py:3219`), and a name that exists is refused |
| `AlwaysReadBack` | `objects` | a service whose expansion failed is compared by its name, and not found in the ports of its own rule; one looked up by its port alone may match by more, and reads as unknown (`access_automation.py:3624`, `:2840`): asked again, it is written again or left to a person |

Seen while reading, and not stated as a claim of any module:

* the fingerprint of an agent's push is of the layer at the time of the request (`mcp_tools.py:1216`),
  and the push reads the layer later (`apply_runner.py:513`); two
  agents that add a rule to a layer at once may lose one (`mcp_tools.py:1123`);
* people between the re-check of a clean-up and its commit (`policy_cleanup.py:567`) are not seen;
* one of two queries of an application that fails reads as no answer (`applications.py:40`), and a listing
  that is cut is used as complete (`correlate_objects.py:104`);
* `users.py:197` uses the accounts read before the form was awaited (`Accounts` has that, and its
  properties hold all the same); failures at the log-in are counted by read, add and write, so that two
  at once may count as one (`login_guard.py:64`);
* a ticket reused for another request is replayed, since the webhook stores no fingerprint;
  a replayed ticket is not pushed back, also if the first push-back failed (`routers/access_automation.py:683`);
* retention by number deletes by a distance of ids, so more than wanted where ids have gaps (`retention.py:33`);
* a key that cannot be looked up counts as allowed to write (`mcp_server.py:174`); the key of the environment
  is back after a restart when it was revoked;
* an Any/Any/Any drop with a cell approximated by a main address is noted and passed while no enabled rule
  follows it (`access_automation.py:1829`), so that without a section of its own the new rule goes below it and
  is dead; asked again it is no longer the last one and counts as a proven deny, and another rule goes above it;
* with `app_carveout` or `override_blocking_deny` off each retry writes one more rule below the deny
  (`access_automation.py:1903`); a block steps over a Dynamic Layer that may accept (`:1436`); a cell approximated by a
  gateway's main address is trusted to be apart (`:1231`); `_decide_nonaccept`'s docstring says an empty
  path is a NO_OP where the code creates at the floor; a listing that changes between two pages may miss a layer (`:3202`);
* the rule editor of `routers/mgmt.py` publishes without a journal entry; a profile says that it has a secret
  also when the secret can no longer be decrypted.

## Fairness

`ApplyOnce` and `LayerPush` have liveness, under weak fairness of each call's or push's own thread: a
Python thread or coroutine that can run is run, and a poller asks again. For `EveryCallEnds` the lock is
a mutex, so weak fairness of a waiting thread alone would let others overtake it for ever, but
senders are bounded, as real ones are in any period. Arrivals, faults, late publishes and pruning
are not fair: nothing promises them. Of `EveryPushEnds`, the gateway is not fair either: it may never
answer a task, and the thread gives up by its own deadline, which is a step of the thread. A call is
never fair against `Crash`, which ends it, nor a push against `Restart`, which loses it.

## Proofs

For every value of the constants under the assumptions named in the modules. Most are typing of the parameters,
or that names for nobody and nothing are not values. The others say what a constant stands for:

* `RequestsAssumption` of `Decide` and `Removal` is the type of a request, with any number of kinds of service. `FlowsAssumption` of
  `Rulebase` says what a connection can be: one application or bounded service at most, an application on a web
  port, a bounded service without a port. The `LayersAssumption` of both has rules as `Rulebase` describes them: a cell trusted as exact
  is exact (`ReadBack`'s `CellIsHonest` checks that of the parser), an approximated one claims no more than there is,
  and a plain Accept or Drop does what it says.
* `RequestsAssumption` of `Objects` has an application correlated before it is looked up, as the code does, and its
  `ServerAssumption` has finitely many objects, in whose names of domains the domain can be read. That is the server's own
  rule for the names of domain objects, and without it `ReferenceIsTheRequest` would be false.
* `NetworksAssumption` of `Requests`: no network of a ticket is called Any.

`MatchesPolicy` and `ForeignSurvive` have one hypothesis more, that the
SMS names each rule it adds (`"nouid" \notin Events`). It is needed: without it both fail, as
`rollback_nouid.cfg` shows, and the run `rollback` has it.

| Theorem | States | Argument |
|---|---|---|
| `ServerProofs!TypeCorrect` | `[]TypeOK` | with `HandsFull`: a thread at work has a row in its hand |
| `ServerProofs!Invariant` | `[]IInv` | see below |
| `ServerProofs!Exclusion` | `[]OneThreadPerChange` | from `IInv` |
| `ServerProofs!TruthTold` | `[]LogTellsTruth` | `Accounted`: outside doubt a row in hand still has its inverse, a change that was never undone has no resolved entry, and one that was has nothing else |
| `ServerProofs!Refinement` | `LifecycleSpec` | each action moves `ViewOf` of at most one change, one step onward; `ViewFacts` says what the view is while the change is recorded, listed, held or gone |
| `ServerProofs!MatchesPolicy` | `[]LogMatchesPolicy`, if rules are named | `Agreed`: papers about a change are copies of one another and name its rule, at most one thread holds it, and the rule shows the state that the entry says or is about to say |
| `ServerProofs!ForeignSurvive` | `ForeignRulesSurvive`, if rules are named | with `Resting`: a verb that deletes does so to a rule of the change's own, or to one its own disable has switched off before |
| `DecideProofs!Invariant` | `[]IInv` | see below |
| `DecideProofs!TypeCorrect` | `[]TypeOK` | from `IInv`: every position remembered has been passed |
| `DecideProofs!LeapsNone` | `[]LeapsNoPossibleDeny` | `StaysBelow`: a rule is written below whatever the walk has passed that may deny what was asked, and a widening found without doubt leaps nothing of that kind; but for the cases the property names |
| `DecideProofs!AnswerHolds` | `[]UnnotedAnswerHolds` | `Grants`: with no doubt all rules passed let every packet asked for through, and the one written or named accepts them |
| `DecideProofs!BlockIsDeny` | `[]BlockDenies` | `Blocks`: all that a block passes is disabled or provably apart |
| `DecideProofs!AskedAgain` | `[]AskedAgainWritesNothing` | `AgainInv`: the walk of the changed layer is on its way to what was written, see below |
| `DecideProofs!NothingElse` | `GrantsNothingElse` | a rule added matches what was asked and nothing else; a cell is widened only where the two others equal the request |
| `RemovalProofs!Invariant`, `TypeCorrect` | `[]IInv`, `[]TypeOK` | see below |
| `RemovalProofs!Revoked` | `[]RevokedIsRevoked` | no-op or published, the walk has stopped at, or put in, a deny of the whole request with nothing above it that lets any of it through (`Answer`, `Removed`), also of a group with several kinds of service; but for what the engine cannot see (`Blind`) |
| `RemovalProofs!OthersKeep` | `[]OthersKeepTheirs` | `Disablable`: only a rule that grants the request and nothing else is switched off, and a deny that is added matches the request alone |
| `RemovalProofs!Once` | `[]RemovedOnce` | `Removed`: a walk of the changed layer stops at its own drop, or a deny of the whole request, before it meets a carrier |
| `LayersProofs!TypeCorrect` | `[]TypeOK` | includes that the call lock is held by the one busy reader |
| `LayersProofs!AnswersRecent` | `[]AnswersAreRecent` | `Recent`: an entry covers everything published before the start of the call that pulled or confirmed it, which is what its age counts from |
| `LayersProofs!NeverGoesBack` | `NeverOlder` | `Ahead`: with the session shared, rules in a reader's hand are not older than the entry they will replace |
| `LayersProofs!OwnPublishes` | `[]OwnPublishSeen` | `OwnSeen`: what is not marked as crossed by an invalidation holds every publish of PolicyPilot's that has returned, and the one that has dropped the cache |
| `LayersProofs!PushInvariant` | `[]PushInv` | see below |
| `LayersProofs!Taken`, `EarlyLeavesAlone` | `[]SucceededWasTaken`, `[]FailedEarlyLeftAlone` | `RecordsSound`, `JobSound`: parts of `PushInv`; a thread that has seen a success has a task that took all, or that ended with no error to show |
| `ServerProofs!ObjectsInvariant` | `[]ObjectsInv` | see below |
| `ServerProofs!Reference` | `[]ReferenceIsTheRequest` | `UseMeans`: what stands for the source was found by a lookup that tells its meaning (`FoundMeans`, `HostMeans`) or was made for it (`NewMeans`), whoever came in between |
| `ServerProofs!AsShown` | `[]ShownIsDone` | `ShownStands`: while nobody is in between, the preview is what a lookup still finds; a service is found by its port or its name, and what is made for the source is no service (`ServiceFound`, `NewIsNoPort`) |
| `ServerProofs!NoGuess` | `[]NeverAGuess` | `TakenIsOnly`, `ColumnIsOnly`: an answer that was not cut is the whole answer (`WholeAnswer`), so what is alone in it is alone |
| `ServerProofs!Missing` | `[]RefusedIsMissing` | `RefusedHasNone`: a class listed to its end without the name has no object of that name, and one that is looked up has none unless the page is full of others (`Crowded`) |
| `ApplyProofs!TypeCorrect` | `[]TypeOK` | includes that the lock is held exactly between decision and publish |
| `ApplyProofs!SettlesOnce` | `[]SettlingOnce` | `DecidedOnNothing`: the lock's holder has decided on a policy without its change, and no other can publish meanwhile |
| `ApplyProofs!RetriesReplay` | `[]RetryReplays` | `Alone`, `NothingYet`, `Remembered`: under an unshaken key one call is under way, it was let in while nothing was published, and what is published has a record or a thread about to store one |
| `SessionsProofs!Invariant`, `TypeCorrect` | `[]IInv`, `[]TypeOK` | see below |
| `SessionsProofs!OwnChanges` | `[]OwnChangesOnly` | `HoldsOwn`: what a session that is still logged in holds was staged by the apply that has it in hand |
| `SessionsProofs!KeptIsClean` | `[]KeptClean` | from `HoldsOwn`, `HandsFull` and `Alone`: what is kept while nobody has the lock is in nobody's hand |
| `SessionsProofs!Published` | `[]PublishedIsCommitted` | `ReadyToCommit`: what is about to be published is in the session, or the server refuses it |
| `SessionsProofs!NobodyLeft` | `[]NoneLeftBehind` | `OpenIsKnown`, `OnIsOpen`: a session that is open is kept, in a hand, or being torn down; one that is open on the server alone has lost its logout, or is the shared reader that the shutdown had in hand |
| `ApplyProofs!CleanupInvariant` | `[]CleanupInv` | see below |
| `ApplyProofs!DeletesOwn`, `EnabledTime` | `[]DeletesOnlyItsOwn`, `[]EnabledGetsItsTime` | parts of `CleanupInv` |
| `DoorsProofs!AccountsInvariant`, `AccountsTyped` | `[]AccountsInv`, `[]AccountsTypeOK` | `Sound`: what a request has read and is going to write |
| `DoorsProofs!ConfigStays` | `[]ConfigRemains` | `SparesConfig`: whatever was read of the configured administrator, what is written leaves him one, however old the reading is |
| `DoorsProofs!Ranks` | `RanksHold` | `RaisesByAdmin`, `WakesOnPurpose`: a request raises nobody above what it read unless an administrator asked; a row that was changed meanwhile loses a rank by it and gains none |
| `DoorsProofs!Invariant`, `TypeCorrect` | `[]IInv`, `[]TypeOK` | `KeysInv` and `TicketsInv` |
| `DoorsProofs!LetInByAKey` | `AcceptedWasLive` | `CacheKnown`, `Known`: rows that are cached or in a lookup's hand stood in the table when they were read, so no longer ago than the cache lags |
| `DoorsProofs!OwnAnswer`, `OneNote` | `[]AnswersItsServer`, `[]ToldOnce` | `KeptIsItsOwn`: what is remembered of a ticket and a server is a commit of both; `StillToTell`: a commit whose push-back is to come was not pushed back |
| `DoorsProofs!Meant` | `RequestMeansTicket` | a field that is read is one that was given, and a value given under no two names that differ is the one read (`OnlyIsFirst`); each part of the request is made of such fields alone |

**Why `Exclusion` needs an invariant.** The claim is an UPDATE by id guarded on the resolution
the thread read. That is not enough by itself: ids come back after a delete, and a release
writes by id whatever is there now. `IInv` says why it is enough outside doubt: every change has
one entry (`EntriesDistinct`) or is on its way to one (`RecordsFresh`); the id in a thread's hand
still names the entry it read, and an entry that took the id over is in doubt (`HandsCurrent`);
an entry that closes at once is never parked as disabled (`NothingParked`), so its claim leaves it
resolved for as long as it is held (`HeldIsResolved`), and the next claim looks at just that.

**The walk of the engine.** The loop of `_decide` remembers four positions and a doubt, and every answer is
made of them, often many rules later. `DecideProofs!IInv` says what each of them still means when
the rules between have been forgotten (`Remembers`): a candidate can be widened so that it matches the request
and no more; nothing below the floor is enabled, and the floor is a drop that counts as no possible deny or denies nothing asked; and as
long as there was no doubt, no rule passed denies a packet that was asked for (`Harmless`) and,
under the settings that are meant to make a request work, each lets all of them through
(`LetsThrough`). The same is said of the layer that an inline layer was entered from (`Entered`), and of the
answer (`AnswerSound`). Each step of the walk then has one rule to account for, and that is
where the lemmas on cells and columns come in: a rule out of the path matches no packet
that was asked for (`OutOfPathMisses`), a rule that covers the request within its columns matches
all of them (`WithinMatches`), and for each leg of a service the relation is what its name says, so that
it is for the meet of the legs (`ServiceMisses`, `ServiceCovers`, `ServiceEquals`). `UnnotedAnswerHolds` comes out a little
stronger than the run has it: what matters is the doubt, not whether the doubt was noted.

**The same request again.** `AskedAgainWritesNothing` is about two walks, the second over a layer that the first one
changed. `AgainInv` follows a walk by its *trail*, what it remembers at each rule, which depends on the layer, the
request and the settings alone (`SameTrail`): the first walk leaves a trail to where it answered (`Followed`), and
the answer follows from its end (`AnswerFrom`). What is written lies on that trail: a new rule goes no lower than the walk came
and below no floor, and a rule above keeps its branch when one is put below it, unless it was a rough cleanup
(`InsertedBranch`, `BottomOnly`); a widened cell is that of a rule the trail has passed. So the changed layer
has a trail to a rule that grants the request (`ChangedGrants`, `AppliedRepeats`), in the layer or in the inline
layer that the answer was about, and the second walk is on it (`MeetsItAgain`): it halts nowhere else (`PathEnds`).
`BottomOnly` does not hold of a rough cleanup, which is how the exception in the property was found.

**Sessions.** `OwnChangesOnly` is not inductive because a session is reused: that nothing foreign is in it
follows from who can have staged there. `Alone` (no two applies have the same session), `KindsKept` (reads
and applies use different ones) and `HoldsOwn` say so; `CloserKnows` keeps the shutdown, the one actor that goes
on without the lock, from what is handed out; `PooledInHand` and `NothingKept` keep a session that the
process still has open from being forgotten when the next one takes its place in the pool.

**Clean-up.** A verdict is about a rule as it was read and is carried out later. `CleanupInv` therefore keeps the
meaning of a stamp, wherever a copy of the rule is (live, read by an apply, in the journal): one that no person has
crossed is that of a disable by the tool which is still in force, with its date (`Stamped`); and
dates do not run ahead (`Dated`). What an apply has read was worth its verdict on the day of the
reading (`Judged`). The journal's copies must not bring a stamp back (`Undoes`).

**Removals.** The walk of `decide_removal` answers from two positions: where it is, and the first rule that grants the
request in a way it cannot just switch off. `IInv` says that all above the first of these lets nothing of the request
through (`Aside`), so that a deny put there is met first; what the answer was made of (`Answer`);
and, once it was applied, where the next walk will stop (`Removed`): at the drop that was written (`NewDrop`), at a deny of the whole request,
or the end, with only rules aside or denies of a part above (`StopsAt`). That the drop is met again needs that the request is compared by what
its object holds (`Repeated`): one compared by the name of a group does not find the group's ports. What a gateway does with a cell is told by the same lemmas as of the engine (`RulebaseProofs`).

**Layer pushes.** A push tells how it ended by what it has seen, and the gateway may go on after that. `JobSound`
bounds, for each place the thread can be at, what a gateway may have done by then: before the task exists it was
not asked, a task that is done took the payload the thread has in hand, and a failure named early is of a push without
a task. The records only copy what a thread has ended with (`RecordsSound`).

**Objects.** A request passes through a correlation, a preview and an apply, each with an answer of its own from the
server. `ObjectsInv` has what was found at each (`PartsKnown`, `Placed`, `UseMeans`), and what a preview still tells
while nobody is in between (`ShownStands`). The work is in the lookups: for each a lemma says what it may return. A page is within
what the server found (`PageWithin`), a host is found by either of its addresses (`HostMeans`), and an
answer is only as good as the listing it stands on (`WholeAnswer`, `WholeOfIndex`, `KnownIsAll`).

Where one module has the proofs of two components, one of these has its definitions named for it
(`CleanupSpec`, `PushInv`, `AccountsTypeOK`, `ObjectsInit`).

Only model-checked:

* `CellIsHonest` and `WrittenIsReadBack`: they are about the parser of cells, which recurses into groups;
* `EveryCallEnds` and `EveryPushEnds`: liveness, which is out of the prover's reach. Facts that need induction over the positions of a layer
  (its first match) are proved by the least counterexample, from the well-foundedness of the naturals.

## Not modelled

* *Login guard and rate limit*: counters per address; a failure lost or counted twice moves the
  lock-out by one step. The limiter's answer is left open in `Keys`.
* *Export, coverage, decision tree*: views and documents; they change no state.
* *REST and MCP adapters*: they call what is modelled; their doors are in `Keys`.
* *Web interface, settings*: single values, which the modules read as parameters.
* *Retention, activity, audit*: trimming of logs; the loss of an idempotency record, of a ticket's
  and of a journal entry is in `ApplyOnce`, `Tickets` and `ChangeLog`.
* Of modelled parts: the advice of the engine (near misses, redundancy), amendments' contents, type-ahead caches and
  suggestions, hit-count warnings and install reports of the clean-up, the pages of gateways and
  the Gaia export, profiles and permissions of users that no other permission depends on, the set-up
  of a ServiceNow instance, the encryption of secrets (a secret can be read with the key it was stored under, or not).
* *The SMS and gateways*: external; modelled by what a call may answer.

## Plan

Written, in this order: `ChangeLog` with `RevertLifecycle`; `Rulebase` and `Decide`; `ApplyOnce`;
`PolicyCache`; `Removal`, `Sessions`, `LayerPush`, `Cleanup`, `Addresses`, `Cells`, `Correlate`, `Objects` and
`ReadBack`, `Accounts`, `Keys`, `Requests`, `Tickets`, `Servers`. Proved: every safety property that a passing run checks, but
`CellIsHonest` and `WrittenIsReadBack`, and the refinement of `RevertLifecycle`.

Worth proving next: lemmas of `Cells` (`Merge`, `Subtract`, `Covers`), and from them `CellIsHonest`, which the assumption
on layers stands for. Its recursion into groups would have to be a recursive function first.
