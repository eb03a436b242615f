------------------------------ MODULE ApplyOnce ------------------------------
(***************************************************************************)
(* Publishing a change once although it is delivered more than once: the   *)
(* idempotency records of services/idempotency.py around execute() on the  *)
(* webhook, REST and MCP surfaces.  Requests are decided on the policy the *)
(* write session loads, so a request that finds its own rule writes        *)
(* nothing (module Decide, AskedAgainWritesNothing); a request that gates  *)
(* its rule, asks, or may not override a deny writes a rule every time.    *)
(***************************************************************************)
EXTENDS Naturals

CONSTANTS
    Deliveries,   \* the calls that arrive; a sender may repeat one
    Keys,         \* idempotency keys; a webhook's is its server and ticket
    Changes,      \* what a request asks for, as _apply_fingerprint tells them apart
    Settling,     \* the changes that a second decision finds settled
    Key, Asks, Surface,   \* of each delivery
    Pooling,      \* the settings of mgmt_write_session_reuse to consider
    MaxSends,     \* bound: how often one delivery is sent
    MaxFaults     \* bound: crashes, lost answers, storage errors and expiries

\* mcp and rest call the same apply_access.
Surfaces == {"webhook", "mcp", "rest"}

Nobody == "nobody"
NoPrint == "no fingerprint"
NoRecord == [kept |-> FALSE]

ASSUME DeliveriesAssumption ==
    /\ Key \in [Deliveries -> Keys]
    /\ Asks \in [Deliveries -> Changes]
    /\ Surface \in [Deliveries -> Surfaces]
    /\ Nobody \notin Deliveries /\ NoPrint \notin Changes
ASSUME SettingsAssumption ==
    Settling \subseteq Changes /\ Pooling \subseteq BOOLEAN /\ MaxSends \in Nat /\ MaxFaults \in Nat

\* A row of idempotency_records: within its time to live or not, and its fingerprint.
Record == [kept : {TRUE}, fresh : BOOLEAN, print : Changes \cup {NoPrint}]

VARIABLES
    commits,   \* how many rules were published for each key, of each change
    records,   \* the idempotency record of each key
    step,      \* where the thread of a delivery is
    answer,    \* what the sender was last told
    sends,     \* how often a delivery was sent
    lock,      \* who holds the server's write session
    pooled,    \* the setting, fixed
    faults,    \* faults so far
    late,      \* deliveries whose publish may be carried out though nobody waits for it
    shaken,    \* history: the keys a fault or an overlap has hit
    overdue    \* history: the changes a late publish was for

vars == <<commits, records, step, answer, sends, lock, pooled, faults, late, shaken, overdue>>

Steps == {"idle", "missed", "decided", "published"}

Answers == {"none", "replayed", "conflict", "published", "noop", "failed"}

\* Every rule the policy holds for a change, whatever key it was published under.
InPolicy(c) == \E k \in Keys : commits[k][c] > 0

Busy(d) == step[d] # "idle"

\* aa_webhook and the MCP tools run to their end on the event loop; a REST call is
\* given a thread of its own.
OnLoop(d) == Surface[d] # "rest"

\* The webhook stores and compares no fingerprint.
Fingerprint(d) == IF Surface[d] = "webhook" THEN NoPrint ELSE Asks[d]

\* Mutant: the age of a record is compared the wrong way round.
ExpiredOnly(k) == records[k].kept /\ ~records[k].fresh

Live(k) == records[k].kept /\ records[k].fresh

Conflicts(d) ==
    LET r == records[Key[d]]
    IN  Fingerprint(d) # NoPrint /\ r.print # NoPrint /\ r.print # Fingerprint(d)

Told(d, a) == answer' = [answer EXCEPT ![d] = a]
Goes(d, s) == step' = [step EXCEPT ![d] = s]

Shake(k) == shaken' = shaken \cup {k}

\* A fault, of which there are at most MaxFaults.
Fault == faults < MaxFaults /\ faults' = faults + 1

-----------------------------------------------------------------------------
(* One delivery. *)

Sent(d) ==
    /\ step[d] = "idle" /\ sends[d] < MaxSends
    /\ OnLoop(d) => \A e \in Deliveries : OnLoop(e) => ~Busy(e)
    /\ sends' = [sends EXCEPT ![d] = @ + 1]
    /\ UNCHANGED <<commits, records, lock, pooled, late, overdue>>

\* replay finds the key.
Replay(d) ==
    /\ Sent(d) /\ Live(Key[d])
    /\ Told(d, IF Conflicts(d) THEN "conflict" ELSE "replayed")
    /\ UNCHANGED <<step, faults, shaken>>

\* replay finds nothing, and the request goes on.
Miss(d) ==
    /\ Sent(d) /\ ~Live(Key[d])
    /\ Goes(d, "missed") /\ Told(d, "none")
    /\ IF \E e \in Deliveries : Key[e] = Key[d] /\ Busy(e) THEN Shake(Key[d]) ELSE UNCHANGED shaken
    /\ UNCHANGED faults

\* replay swallows a storage error, and the request goes on as if nothing were found.
MissUnread(d) ==
    /\ Sent(d) /\ Live(Key[d])
    /\ Fault
    /\ Goes(d, "missed") /\ Told(d, "none") /\ Shake(Key[d])

\* Mutant: applies are not serialized.
FreeAnyway == TRUE

\* The lock that write_session serializes a server's applies with.
Free == lock = Nobody \/ ~pooled

Taken(d) == lock' = IF pooled THEN d ELSE lock

\* Mutant: the write session is left locked when an apply fails.
ReleasedOnSuccess(d) == lock' = IF lock = d /\ step[d] = "published" THEN Nobody ELSE lock

Released(d) == lock' = IF lock = d THEN Nobody ELSE lock

Settled(c) == c \in Settling /\ InPolicy(c)

\* execute: the layer is loaded in the write session, and the request decided on it.
Decide(d) ==
    /\ step[d] = "missed" /\ Free
    /\ ~Settled(Asks[d])
    /\ Goes(d, "decided") /\ Taken(d)
    /\ UNCHANGED <<commits, records, answer, sends, pooled, faults, late, shaken, overdue>>

\* NO_OP: nothing is published, so nothing is remembered.
DecideNoOp(d) ==
    /\ step[d] = "missed" /\ Free
    /\ Settled(Asks[d])
    /\ Goes(d, "idle") /\ Told(d, "noop")
    /\ UNCHANGED <<commits, records, sends, lock, pooled, faults, late, shaken, overdue>>

Committed(d) == commits' = [commits EXCEPT ![Key[d]][Asks[d]] = @ + 1]

Publish(d) ==
    /\ step[d] = "decided"
    /\ Committed(d) /\ Goes(d, "published") /\ Released(d)
    /\ UNCHANGED <<records, answer, sends, pooled, faults, late, shaken, overdue>>

\* The publish fails: the session discards, and the caller is told.
Fail(d) ==
    /\ step[d] = "decided"
    /\ Fault
    /\ Goes(d, "idle") /\ Told(d, "failed") /\ Released(d)
    /\ UNCHANGED <<commits, records, sends, pooled, late, shaken, overdue>>

\* The publish is still going on when wait_for_task gives up on it.
TimeOut(d) ==
    /\ step[d] = "decided" /\ d \notin late
    /\ Fault
    /\ Goes(d, "idle") /\ Told(d, "failed") /\ Released(d)
    /\ late' = late \cup {d} /\ overdue' = overdue \cup {Asks[d]} /\ Shake(Key[d])
    /\ UNCHANGED <<commits, records, sends, pooled>>

\* remember: the published result is stored under the key, and returned.
Remember(d) ==
    /\ step[d] = "published"
    /\ records' = [records EXCEPT ![Key[d]] =
                      [kept |-> TRUE, fresh |-> TRUE,
                       print |-> IF Fingerprint(d) = NoPrint /\ @.kept THEN @.print ELSE Fingerprint(d)]]
    /\ Goes(d, "idle") /\ Told(d, "published")
    /\ UNCHANGED <<commits, sends, lock, pooled, faults, late, shaken, overdue>>

\* remember swallows a storage error.
Forget(d) ==
    /\ step[d] = "published"
    /\ Fault
    /\ Goes(d, "idle") /\ Told(d, "published") /\ Shake(Key[d])
    /\ UNCHANGED <<commits, records, sends, lock, pooled, late, overdue>>

-----------------------------------------------------------------------------
(* What happens around them. *)

\* The process stops: threads and locks are gone, tables stay.  A publish that was
\* sent may still be carried out.
Crash ==
    /\ \E d \in Deliveries : Busy(d)
    /\ Fault
    /\ LET sent == {d \in Deliveries : step[d] = "decided"}
       IN  late' = late \cup sent /\ overdue' = overdue \cup {Asks[d] : d \in sent}
    /\ step' = [d \in Deliveries |-> "idle"]
    /\ lock' = Nobody
    /\ shaken' = shaken \cup {Key[d] : d \in {e \in Deliveries : Busy(e)}}
    /\ UNCHANGED <<commits, records, answer, sends, pooled>>

\* A late publish is carried out, or is not.
Late(d) ==
    /\ d \in late
    /\ late' = late \ {d}
    /\ Committed(d) \/ UNCHANGED commits
    /\ UNCHANGED <<records, step, answer, sends, lock, pooled, faults, shaken, overdue>>

\* The record outlives its time to live, and is pruned at some time after.
Expire(k) ==
    /\ Live(k)
    /\ Fault
    /\ records' = [records EXCEPT ![k].fresh = FALSE]
    /\ Shake(k)
    /\ UNCHANGED <<commits, step, answer, sends, lock, pooled, late, overdue>>

Prune(k) ==
    /\ records[k].kept /\ ~records[k].fresh
    /\ records' = [records EXCEPT ![k] = NoRecord]
    /\ UNCHANGED <<commits, step, answer, sends, lock, pooled, faults, late, shaken, overdue>>

Init ==
    /\ commits = [k \in Keys |-> [c \in Changes |-> 0]]
    /\ records = [k \in Keys |-> NoRecord]
    /\ step = [d \in Deliveries |-> "idle"]
    /\ answer = [d \in Deliveries |-> "none"]
    /\ sends = [d \in Deliveries |-> 0]
    /\ lock = Nobody
    /\ pooled \in Pooling
    /\ faults = 0
    /\ late = {} /\ shaken = {} /\ overdue = {}

Thread(d) ==
    \/ Decide(d) \/ DecideNoOp(d)
    \/ Publish(d) \/ Fail(d) \/ TimeOut(d)
    \/ Remember(d) \/ Forget(d)

Next ==
    \/ \E d \in Deliveries : Replay(d) \/ Miss(d) \/ MissUnread(d) \/ Thread(d) \/ Late(d)
    \/ Crash
    \/ \E k \in Keys : Expire(k) \/ Prune(k)

\* A thread that can take a step takes it; senders, faults and pruning need not come.
Spec == Init /\ [][Next]_vars /\ \A d \in Deliveries : WF_vars(Thread(d))

-----------------------------------------------------------------------------
(* What must hold. *)

\* Every variable holds what its table, thread or counter may; with pooled sessions the
\* lock is held by the one thread between its decision and the end of its publish.
TypeOK ==
    /\ commits \in [Keys -> [Changes -> Nat]]
    /\ records \in [Keys -> Record \cup {NoRecord}]
    /\ step \in [Deliveries -> Steps]
    /\ answer \in [Deliveries -> Answers]
    /\ sends \in [Deliveries -> 0 .. MaxSends]
    /\ lock \in Deliveries \cup {Nobody} /\ pooled \in Pooling
    /\ IF pooled THEN \A d \in Deliveries : step[d] = "decided" <=> lock = d ELSE lock = Nobody
    /\ faults \in 0 .. MaxFaults
    /\ late \subseteq Deliveries /\ shaken \subseteq Keys /\ overdue \subseteq Changes

\* One of the counts n is not zero at most, and that one is one.
Single(n, S) == \A x, y \in S : n[x] > 0 /\ n[y] > 0 => x = y /\ n[x] = 1

\* With pooled write sessions a change that settles is published once, whatever keys
\* it comes under and however its deliveries overlap, crash or outlive their records:
\* each apply loads the layer after the one before it has published.  Left out is a
\* publish nobody waited for.
SettlingOnce ==
    pooled => \A c \in Settling \ overdue : Single([k \in Keys |-> commits[k][c]], Keys)

\* Under a key no fault and no overlap has hit, one rule is published at most, also of
\* a change that every decision writes again: a retry replays.
RetryReplays == \A k \in Keys \ shaken : Single(commits[k], Changes)

\* "a retry with the same key replays the first result instead of double-committing"
\* (README.md:186).
NeverCommitsTwice == \A k \in Keys : Single(commits[k], Changes)

\* A call that is let in comes to an end: the write session is always given back.
EveryCallEnds == \A d \in Deliveries : Busy(d) ~> ~Busy(d)

=============================================================================
