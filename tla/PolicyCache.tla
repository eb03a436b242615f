----------------------------- MODULE PolicyCache -----------------------------
(***************************************************************************)
(* The policy cache of services/mgmt_api.py for one management server:     *)
(* what cached_raw serves to previews and views while administrators       *)
(* publish, PolicyPilot publishes and invalidates, and time passes.  A     *)
(* layer's rules are the number of the revision they were read at; a pull  *)
(* of several pages is as old as its first page.                           *)
(***************************************************************************)
EXTENDS Naturals

CONSTANTS
    Layers,       \* the layers (with package and cap) that are read
    Readers,      \* the threads that read
    Sharing,      \* the settings of mgmt_session_reuse to consider
    Revalidate,   \* mgmt_cache_revalidate
    MaxAge,       \* mgmt_cache_max_age
    MaxRev,       \* bound: the last revision published
    MaxTime,      \* bound: when the clock stops
    NoEntry, Nobody

ASSUME CacheAssumption ==
    /\ Sharing \subseteq BOOLEAN
    /\ Revalidate \in Nat /\ MaxAge \in Nat
    /\ MaxRev \in Nat \ {0} /\ MaxTime \in Nat
    /\ Nobody \notin Readers

Revs == 1 .. MaxRev
Time == 0 .. MaxTime

\* _policy_token: the last revision, or the empty string when it cannot be told.
NoToken == 0
Tokens == Revs \cup {NoToken}

\* An entry of _RAW_CACHE.  pulled is the time its pull began, which at starts from and
\* which tells one entry from another; crossed is history: an invalidation came while
\* it was being pulled.
Entry == [rules : Revs, token : Tokens, at : Time, pulled : Time, crossed : BOOLEAN]

ASSUME EntryAssumption == NoEntry \notin Entry

IdleReader == [pc |-> "idle"]

\* A call of cached_raw.  known is history: what PolicyPilot had published when it began.
Reading == [pc : {"looked", "asked", "pulled", "stamped"}, layer : Layers, start : Time, known : Revs,
            seen : Entry \cup {NoEntry}, token : Tokens, rules : Revs, crossed : BOOLEAN]

VARIABLES
    rev,      \* the server's last published revision
    when,     \* history: the time each revision was published at
    now,      \* the clock
    cache,    \* the entry of each layer
    reader,   \* what each thread is at
    held,     \* who holds the call lock of the shared read session
    shared,   \* the setting, fixed
    write,    \* PolicyPilot's publish: idle, or the revision committed and whether it is dropped
    known,    \* history: the last revision whose publish PolicyPilot has returned from
    served    \* history: the answer the last step gave, if it gave one

vars == <<rev, when, now, cache, reader, held, shared, write, known, served>>

NoWrite == [pc |-> "idle"]
Writing == [pc : {"committed", "dropped"}, mine : Revs]

NoAnswer == [rules |-> 1, token |-> NoToken, start |-> 0, pulled |-> 0, known |-> 1, crossed |-> FALSE]
Answer == [rules : Revs, token : Tokens, start : Time, pulled : Time, known : Revs, crossed : BOOLEAN]

Busy(d) == reader[d].pc # "idle"

-----------------------------------------------------------------------------
(* cached_raw. *)

\* Mutant: reads of one server are not serialized.
FreeAnyway == TRUE

\* read_session: one call at a time on the shared session.
Free == shared => held = Nobody

Serve(rules, token, start, pulled, k, crossed) ==
    served' = [rules |-> rules, token |-> token, start |-> start, pulled |-> pulled,
               known |-> k, crossed |-> crossed]

Silent == served' = NoAnswer

\* The entry is younger than the revalidation window: nobody asks the server.
Young(e) == e # NoEntry /\ now - e.at < Revalidate

Hit(d, l) ==
    /\ ~Busy(d) /\ Free
    /\ Young(cache[l])
    /\ Serve(cache[l].rules, cache[l].token, now, cache[l].pulled, known, cache[l].crossed)
    /\ UNCHANGED <<rev, when, now, cache, reader, held, shared, write, known>>

Look(d, l) ==
    /\ ~Busy(d) /\ Free
    /\ ~Young(cache[l])
    /\ reader' = [reader EXCEPT ![d] = [pc |-> "looked", layer |-> l, start |-> now, known |-> known,
                                        seen |-> cache[l], token |-> NoToken, rules |-> 1, crossed |-> FALSE]]
    /\ held' = IF shared THEN d ELSE held
    /\ UNCHANGED <<rev, when, now, cache, shared, write, known>> /\ Silent

Freed(d) == held' = IF held = d THEN Nobody ELSE held

Finished(d) == reader' = [reader EXCEPT ![d] = IdleReader] /\ Freed(d)

Same(e, f) == e.rules = f.rules /\ e.token = f.token /\ e.pulled = f.pulled

\* Whether the entry a reader has seen is still the one in the cache.
InCache(d) ==
    LET r == reader[d]
    IN  cache[r.layer] # NoEntry /\ Same(cache[r.layer], r.seen)

\* Its age is read when it is compared: another reader may have confirmed it meanwhile.
At(d) == IF InCache(d) THEN cache[reader[d].layer].at ELSE reader[d].seen.at

\* Mutant: any token confirms the entry.
AnyToken(d, t) == t # NoToken /\ reader[d].start - At(d) < MaxAge

Unchanged(d, t) == t # NoToken /\ t = reader[d].seen.token /\ reader[d].start - At(d) < MaxAge

\* Nothing was published since: the entry is good for another window.
Confirm(d) ==
    /\ reader[d].pc = "looked" /\ reader[d].seen # NoEntry
    /\ Unchanged(d, rev)
    /\ cache' = IF InCache(d) THEN [cache EXCEPT ![reader[d].layer].at = reader[d].start] ELSE cache
    /\ LET r == reader[d]
       IN  Serve(r.seen.rules, r.seen.token, r.start, r.seen.pulled, r.known, r.seen.crossed)
    /\ Finished(d)
    /\ UNCHANGED <<rev, when, now, shared, write, known>>

Ask(d) ==
    /\ reader[d].pc = "looked" /\ reader[d].seen # NoEntry
    /\ \E t \in {rev, NoToken} :
          /\ ~Unchanged(d, t)
          /\ reader' = [reader EXCEPT ![d].pc = "asked", ![d].token = t]
    /\ UNCHANGED <<rev, when, now, cache, held, shared, write, known>> /\ Silent

\* _raw_pull.
Pull(d) ==
    /\ reader[d].pc = "asked" \/ (reader[d].pc = "looked" /\ reader[d].seen = NoEntry)
    /\ reader' = [reader EXCEPT ![d].pc = "pulled", ![d].rules = rev]
    /\ UNCHANGED <<rev, when, now, cache, held, shared, write, known>> /\ Silent

\* A cold pull asks for the token after its rules.
Stamp(d) ==
    /\ reader[d].pc = "pulled" /\ reader[d].seen = NoEntry
    /\ \E t \in {rev, NoToken} :
          reader' = [reader EXCEPT ![d].pc = "stamped", ![d].token = t]
    /\ UNCHANGED <<rev, when, now, cache, held, shared, write, known>> /\ Silent

Store(d) ==
    /\ Busy(d)
    /\ reader[d].pc = "stamped" \/ (reader[d].pc = "pulled" /\ reader[d].seen # NoEntry)
    /\ LET r == reader[d]
       IN  /\ cache' = [cache EXCEPT ![r.layer] =
                           [rules |-> r.rules, token |-> r.token, at |-> r.start,
                            pulled |-> r.start, crossed |-> r.crossed]]
           /\ Serve(r.rules, r.token, r.start, r.start, r.known, r.crossed)
    /\ Finished(d)
    /\ UNCHANGED <<rev, when, now, shared, write, known>>

\* A call to the server fails, or its rules are more than the cap: the caller is told.
Error(d) ==
    /\ Busy(d)
    /\ Silent /\ Finished(d)
    /\ UNCHANGED <<rev, when, now, cache, shared, write, known>>

-----------------------------------------------------------------------------
(* The server, PolicyPilot's publishes, and the clock. *)

Published ==
    /\ rev < MaxRev
    /\ rev' = rev + 1
    /\ when' = [when EXCEPT ![rev + 1] = now]

\* Another administrator publishes, or a publish of PolicyPilot's is carried out after
\* wait_for_task gave up on it: nothing is invalidated.
PublishElsewhere ==
    /\ Published
    /\ UNCHANGED <<now, cache, reader, held, shared, write, known>> /\ Silent

\* MgmtSession.publish, serialized by write_session: the task has succeeded ...
Publish ==
    /\ write.pc = "idle"
    /\ Published
    /\ write' = [pc |-> "committed", mine |-> rev + 1]
    /\ UNCHANGED <<now, cache, reader, held, shared, known>> /\ Silent

\* Mutant: an entry within its window is left.
OldDropped == cache' = [l \in Layers |-> IF Young(cache[l]) THEN cache[l] ELSE NoEntry]

\* invalidate_cache: every entry of the server is dropped; a pull on its way is not.
Dropped == cache' = [l \in Layers |-> NoEntry]

Crossed == reader' = [d \in Readers |-> IF Busy(d) THEN [reader[d] EXCEPT !.crossed = TRUE] ELSE reader[d]]

\* ... its cache is dropped ...
Invalidate ==
    /\ write.pc = "committed"
    /\ Dropped /\ Crossed
    /\ write' = [write EXCEPT !.pc = "dropped"]
    /\ UNCHANGED <<rev, when, now, held, shared, known>> /\ Silent

\* ... once more by execute, which is not by the policy editor; and it returns.
Return ==
    /\ write.pc = "dropped"
    /\ (Dropped /\ Crossed) \/ UNCHANGED <<cache, reader>>
    /\ known' = IF write.mine > known THEN write.mine ELSE known
    /\ write' = NoWrite
    /\ UNCHANGED <<rev, when, now, held, shared>> /\ Silent

Tick ==
    /\ now < MaxTime
    /\ now' = now + 1
    /\ UNCHANGED <<rev, when, cache, reader, held, shared, write, known>> /\ Silent

Init ==
    /\ rev = 1 /\ when = [r \in Revs |-> 0] /\ now = 0
    /\ cache = [l \in Layers |-> NoEntry]
    /\ reader = [d \in Readers |-> IdleReader]
    /\ held = Nobody /\ shared \in Sharing
    /\ write = NoWrite /\ known = 1
    /\ served = NoAnswer

Read(d) ==
    \/ \E l \in Layers : Hit(d, l) \/ Look(d, l)
    \/ Confirm(d) \/ Ask(d) \/ Pull(d) \/ Stamp(d) \/ Store(d) \/ Error(d)

Next ==
    \/ \E d \in Readers : Read(d)
    \/ PublishElsewhere \/ Publish \/ Invalidate \/ Return
    \/ Tick

Spec == Init /\ [][Next]_vars

-----------------------------------------------------------------------------
(* What must hold. *)

\* Every variable holds what its table, thread or counter may; the call lock is held by
\* the one thread that is reading, if the session is shared.
TypeOK ==
    /\ rev \in Revs /\ when \in [Revs -> Time] /\ now \in Time
    /\ cache \in [Layers -> Entry \cup {NoEntry}]
    /\ reader \in [Readers -> Reading \cup {IdleReader}]
    /\ held \in Readers \cup {Nobody} /\ shared \in Sharing
    /\ write \in Writing \cup {NoWrite} /\ known \in Revs
    /\ served \in Answer
    /\ shared => \A d \in Readers : Busy(d) <=> held = d

\* Revision r is in the rules, or their token claims that it is.
Reaches(e, r) == r <= e.rules \/ r <= e.token

\* Revision r was published before the read of the last answer began, and before its
\* revalidation window opened.
Due(r) == when[r] < served.start /\ when[r] + Revalidate <= served.start

\* No answer misses a revision, published before the revalidation window of the read
\* opened, that is newer than its entry's rules and its entry's token: a publish that
\* is not told to the cache is found out within the window.
AnswersAreRecent ==
    \A r \in Revs : r <= rev /\ Due(r) => Reaches(served, r)

\* A read that begins after a publish of PolicyPilot's has returned is answered with
\* that publish in it, unless the answer was being pulled when the cache was dropped.
OwnPublishSeen == served.crossed \/ served.known <= served.rules

\* With the read session shared, what the cache holds of a layer is never replaced by
\* something older.
NeverOlder ==
    [][shared => \A l \in Layers :
          cache[l] # NoEntry /\ cache'[l] # NoEntry => cache[l].rules <= cache'[l].rules]_vars

\* "Change is detected by the latest published revision" (services/app_settings.py:70),
\* asked for again after each window: no answer misses a revision that was published
\* before the revalidation window of the read opened, whatever its token claims.
ChangeDetected ==
    \A r \in Revs : r <= rev /\ Due(r) => r <= served.rules

\* "Re-pull the whole policy at least this often regardless of revision"
\* (services/app_settings.py:78): no answer is as old as mgmt_cache_max_age.
RefreshedInTime == served.start - served.pulled < MaxAge

=============================================================================
