-------------------------------- MODULE Keys --------------------------------
(***************************************************************************)
(* The API keys of one scope (services/api_keys.py): rows with an expiry    *)
(* and a capability, a cache of the rows that calls are checked against,    *)
(* and the calls that present a key at the door of the scope: the webhook,  *)
(* the REST interface, or the guard before the agents' tools.  Calls, and   *)
(* the handlers that make, change and revoke keys, run in threads of one    *)
(* process.                                                                *)
(***************************************************************************)
EXTENDS Naturals, FiniteSets

CONSTANTS
    Secrets,    \* the secrets that may be given out, each once
    Token,      \* the one of them that the environment gives for agents
    Calls,      \* calls that may be under way together
    TTL,        \* how long the cached rows are used
    MaxTime,    \* bound on the clock of any scope
    Time,       \* bound on the clock of each scope
    Expiries,   \* the expiries that administrators of each scope give
    Edits       \* bound on the changes of keys and the restarts, together, of each scope

SCOPES == {"mcp", "webhook", "api"}

Never == MaxTime + 1      \* an expiry that does not come

ASSUME KeysAssumption ==
    /\ Token \in Secrets
    /\ TTL \in Nat /\ MaxTime \in Nat
    /\ Time \in [SCOPES -> 1..MaxTime] /\ Expiries \in [SCOPES -> SUBSET (1..Never)] /\ Edits \in [SCOPES -> Nat]

NoRows == [k \in {} |-> [write |-> FALSE, expires |-> 0]]
NoCache == [at |-> 0, rows |-> NoRows]
Out == [at |-> "out", ask |-> "match", key |-> Token, began |-> 0, write |-> FALSE, rows |-> NoRows]

VARIABLES
    scope,      \* whose keys these are: it does not change
    now,
    row,        \* the table: secret -> its row, for those that are there
    made,       \* the secrets given out so far
    cache,      \* _cache for the scope
    call,       \* the calls, with what they read
    bust,       \* a handler has committed and has not emptied the cache yet
    edits,      \* how many changes there were
    held        \* history: until when each secret had each expiry, where it has no more

keyVars == <<scope, now, row, made, cache, call, bust, edits, held>>

\* What a lookup sees as live: there, and not expired at that time.
Live(rows, time) == {k \in DOMAIN rows : rows[k].expires > time}

Tick ==
    /\ now < Time[scope]
    /\ now' = now + 1
    /\ UNCHANGED <<scope, row, made, cache, call, bust, edits, held>>

---------------------------------------------------------------------------
\* What administrators do: the row is committed, then the cache is emptied.

Change(rows) ==
    /\ ~bust /\ edits < Edits[scope]
    /\ row' = rows
    /\ held' = [k \in Secrets |-> IF k \in DOMAIN row THEN [held[k] EXCEPT ![row[k].expires] = now] ELSE held[k]]
    /\ bust' = TRUE
    /\ edits' = edits + 1
    /\ UNCHANGED <<scope, now, cache, call>>

With(k, write, expires) ==
    [s \in DOMAIN row \cup {k} |-> IF s = k THEN [write |-> write, expires |-> expires] ELSE row[s]]

Generate(k, write, expires) ==
    /\ k \notin made \cup {Token}
    /\ expires > now
    /\ made' = made \cup {k}
    /\ Change(With(k, write, expires))

Revoke(k) ==
    /\ k \in DOMAIN row
    /\ Change([s \in DOMAIN row \ {k} |-> row[s]])
    /\ UNCHANGED made

\* A date that is past is taken too: the key stops at once.
SetExpiry(k, expires) ==
    /\ k \in DOMAIN row
    /\ expires # row[k].expires
    /\ Change([row EXCEPT ![k].expires = expires])
    /\ UNCHANGED made

Bust ==
    /\ bust
    /\ bust' = FALSE
    /\ cache' = NoCache
    /\ UNCHANGED <<scope, now, row, made, call, edits, held>>

---------------------------------------------------------------------------
\* A call that presents a secret: the cached rows while they are fresh, else those of
\* the table, which are then kept under the time the lookup began.

\* A mutant: rows are kept under the time they are stored at.
FromStore(c) == now
Stamp(c) == call[c].began

\* An empty cache is told from a full one by its time: nothing is cached at 0.
Fresh == cache.at > 0 /\ now - cache.at <= TTL

\* A lookup: whether the scope has a key at all, whether this is one, what it may do.
Asking(ask, k) ==
    [at |-> IF Fresh THEN "look" ELSE "read", ask |-> ask, key |-> k, began |-> now, write |-> FALSE,
     rows |-> IF Fresh THEN cache.rows ELSE NoRows]

To(c, state) ==
    /\ call' = [call EXCEPT ![c] = state]
    /\ UNCHANGED <<scope, now, row, made, cache, bust, edits, held>>

Present(c, k) ==
    /\ call[c].at = "out"
    /\ k \in made
    /\ To(c, Asking(IF scope = "api" THEN "match" ELSE "any", k))

ReadRows(c) ==
    /\ call[c].at = "read"
    /\ To(c, [call[c] EXCEPT !.at = "store", !.rows = row])

\* The database does not answer: no keys, and nothing is cached.
ReadFails(c) ==
    /\ call[c].at = "read"
    /\ To(c, [call[c] EXCEPT !.at = "look"])

Store(c) ==
    /\ call[c].at = "store"
    /\ cache' = [at |-> Stamp(c), rows |-> call[c].rows]
    /\ call' = [call EXCEPT ![c].at = "look"]
    /\ UNCHANGED <<scope, now, row, made, bust, edits, held>>

\* The rows are searched without those that had expired when the lookup began.
Found(c) == Live(call[c].rows, call[c].began)
Matches(c) == call[c].key \in Found(c)

\* The scope has a key, so the one that came is looked up.
Enabled(c) ==
    /\ call[c].at = "look" /\ call[c].ask = "any"
    /\ Found(c) # {}
    /\ To(c, Asking("match", call[c].key))

Entered(c, write) == [Out EXCEPT !.at = "in", !.key = call[c].key, !.write = write]

Accept(c) ==
    /\ call[c].at = "look" /\ call[c].ask = "match"
    /\ Matches(c)
    /\ To(c, IF scope = "mcp" THEN Asking("write", call[c].key)
             ELSE Entered(c, call[c].rows[call[c].key].write))

\* The guard of the tools looks a third time, and takes a key that is not there any more
\* for one that may write.
MayWrite(c) ==
    /\ call[c].at = "look" /\ call[c].ask = "write"
    /\ To(c, Entered(c, Matches(c) => call[c].rows[call[c].key].write))

\* No key, not this one, or over its rate: the limiter's count is left open.
Refuse(c) ==
    /\ call[c].at = "look" /\ call[c].ask # "write"
    /\ To(c, Out)

\* What a call of the tools or of the REST interface does is not part of this module.
Leave(c) ==
    /\ call[c].at = "in" /\ scope # "webhook"
    /\ To(c, Out)

---------------------------------------------------------------------------
\* The process starts again, and gives the agents' scope the key of the environment.
Restart ==
    /\ edits < Edits[scope]
    /\ edits' = edits + 1
    /\ cache' = NoCache
    /\ call' = [c \in Calls |-> Out]
    /\ bust' = FALSE
    /\ row' = IF scope = "mcp" /\ Token \notin DOMAIN row THEN With(Token, TRUE, Never) ELSE row
    /\ made' = IF scope = "mcp" THEN made \cup {Token} ELSE made
    /\ UNCHANGED <<scope, now, held>>

KeyInit ==
    /\ scope \in SCOPES
    /\ now = 1
    /\ row = NoRows
    /\ made = {}
    /\ cache = NoCache
    /\ call = [c \in Calls |-> Out]
    /\ bust = FALSE
    /\ edits = 0
    /\ held = [k \in Secrets |-> [e \in 1..Never |-> 0]]

Administer ==
    \/ \E k \in Secrets :
          \/ \E write \in BOOLEAN, expires \in Expiries[scope] : Generate(k, write, expires)
          \/ \E expires \in Expiries[scope] : SetExpiry(k, expires)
          \/ Revoke(k)
    \/ Bust

Door(c) ==
    \/ \E k \in Secrets : Present(c, k)
    \/ ReadRows(c) \/ ReadFails(c) \/ Store(c)
    \/ Enabled(c) \/ Accept(c) \/ MayWrite(c) \/ Refuse(c) \/ Leave(c)

---------------------------------------------------------------------------
\* A key was in force as the table had it, when rows as old as the cache's may be were read.
WasLive(k, began) ==
    \/ k \in Live(row, began)
    \/ \E e \in began + 1..Never : held[k][e] > 0 /\ held[k][e] + TTL >= began

\* A call that is let in presents a key that was in force when the lookup began, or that
\* was until no longer before than the cache may lag: rows read before a revocation and
\* stored after the cache was emptied do not keep a revoked key alive beyond that
\* (api_keys._active, revoke).
LetIn(c) == call[c].at = "look" /\ call[c].ask = "match" /\ call'[c] # call[c] /\ call'[c].at # "out"
AcceptedWasLive == [][\A c \in Calls : LetIn(c) => WasLive(call[c].key, call[c].began)]_keyVars
=============================================================================
