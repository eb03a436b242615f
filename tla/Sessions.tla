------------------------------- MODULE Sessions -------------------------------
(***************************************************************************)
(* The sessions PolicyPilot keeps on a management server: the shared       *)
(* read-only one of read_session(), the shared read-write one of           *)
(* write_session(), the private ones of apply_changes(), a take-over, the  *)
(* shutdown that closes the pools, and edits of the server's row.          *)
(* A session is what the process and the server each know of it.           *)
(***************************************************************************)
EXTENDS Naturals, Sequences, FiniteSets

CONSTANTS
    Calls,        \* applies, each under one request
    Private,      \* those that take a session of their own
    Publishing,   \* those that publish; the others discard what they staged
    Readers,      \* reads through the shared session
    Casts,        \* the sets of applies and reads a behaviour may have
    None,
    MaxSessions,  \* bounds the logins
    MaxFaults,    \* bounds the lost calls, refused logins and outside events
    MaxEdits      \* bounds the edits of the server's row

ASSUME SetsAssumption == Private \subseteq Calls /\ Publishing \subseteq Calls /\ Calls \cap Readers = {}
ASSUME NoneAssumption == None \notin Calls \cup Readers /\ "closer" \notin Calls \cup {None}
ASSUME CastsAssumption == Casts \subseteq SUBSET (Calls \cup Readers)
ASSUME BoundsAssumption == MaxSessions \in Nat /\ MaxFaults \in Nat /\ MaxEdits \in Nat

VARIABLES
    ses,        \* every session there was: what the process and the server know
    wpool,      \* _WRITE_POOL: the session kept, or 0
    wlock,      \* the per-server lock of the applies: an apply, "closer" or None
    rpool,      \* _POOL: the shared reader, or 0
    pc,         \* where each request is
    my,         \* the session it has in hand, or 0
    told,       \* what it answered
    asked,      \* the address of the server when the request loaded the row
    conf,       \* the address in the row
    closer,     \* where the shutdown is, and the session it took
    gaveUp,     \* history: the shutdown tore a session down without its lock
    committed,  \* history: who committed whose change, at which address
    unheard,    \* history: sessions whose logout was lost
    faults

vars == <<ses, wpool, wlock, rpool, pc, my, told, asked, conf, closer, gaveUp, committed, unheard, faults>>

Actors == Calls \cup Readers

Alive(i) == ses[i].in /\ ses[i].open /\ ses[i].on

\* MgmtSession(...) and login(): the address is fixed when the session is made.
NewSession(a, ro) ==
    [ro |-> ro, in |-> TRUE, open |-> TRUE, on |-> TRUE, holds |-> {}, user |-> None, host |-> asked[a]]

LoginOk == Len(ses) < MaxSessions

Fault == faults < MaxFaults /\ faults' = faults + 1

\* Mutant: a write session that expired is logged in again in the middle of an apply.
Relogged(i) == ses[i].in /\ ses[i].open /\ UNCHANGED faults

\* A call may be lost on its way to the server, or its answer on the way back.
Answered(i) == Alive(i) /\ UNCHANGED faults
Refused(i) == ~Alive(i) /\ UNCHANGED faults
Lost(i) == Alive(i) /\ Fault

Idle == UNCHANGED <<asked, conf, closer, gaveUp>>

Go(a, place) == pc' = [pc EXCEPT ![a] = place]

Say(a, what) == told' = [told EXCEPT ![a] = what]

-----------------------------------------------------------------------------
(* write_session(): the applies that share one session. *)

Acquire(c) ==
    /\ pc[c] = "start" /\ c \notin Private
    /\ wlock = None /\ wlock' = c
    /\ asked' = [asked EXCEPT ![c] = conf]
    /\ Go(c, "probe")
    /\ UNCHANGED <<ses, wpool, rpool, my, told, conf, closer, gaveUp, committed, unheard, faults>>

\* discard, logout and close, each on a best effort; out of the pool if it is there.
Dropped(i, discarded, out) ==
    [ses EXCEPT ![i].holds = IF discarded /\ Alive(i) THEN {} ELSE @,
                ![i].on = @ /\ ~out,
                ![i].in = FALSE, ![i].open = FALSE]

Drop(i) ==
    /\ \/ ses' = Dropped(i, TRUE, TRUE) /\ UNCHANGED <<faults, unheard>>
       \/ Fault /\ ses' = Dropped(i, FALSE, TRUE) /\ UNCHANGED unheard
       \/ Fault /\ ses' = Dropped(i, TRUE, FALSE) /\ unheard' = unheard \cup {i}
    /\ wpool' = IF wpool = i THEN 0 ELSE wpool

\* The keepalive that tells whether the session is still there.
Probe(c) ==
    /\ pc[c] = "probe"
    /\ \/ wpool = 0 /\ Go(c, "login") /\ UNCHANGED <<ses, wpool, my, faults, unheard>>
       \/ /\ wpool # 0 /\ Alive(wpool)
          /\ my' = [my EXCEPT ![c] = wpool] /\ ses' = [ses EXCEPT ![wpool].user = c]
          /\ Go(c, "stage") /\ UNCHANGED <<wpool, faults, unheard>>
       \/ wpool # 0 /\ (~Alive(wpool) \/ faults < MaxFaults) /\ Drop(wpool) /\ Go(c, "login") /\ UNCHANGED my
    /\ Idle /\ UNCHANGED <<wlock, rpool, told, committed>>

\* A throttled or failed login is the end of the apply, and nothing is kept.
Login(c) ==
    /\ pc[c] = "login"
    /\ \/ /\ LoginOk /\ UNCHANGED <<faults, told, wlock>>
          /\ ses' = Append(ses, [NewSession(c, FALSE) EXCEPT !.user = c])
          /\ wpool' = Len(ses) + 1 /\ my' = [my EXCEPT ![c] = Len(ses) + 1]
          /\ Go(c, "stage")
       \/ /\ Fault
          /\ Say(c, "failed") /\ Go(c, "done") /\ wlock' = None
          /\ UNCHANGED <<ses, wpool, my>>
    /\ Idle /\ UNCHANGED <<rpool, committed, unheard>>

\* What another session staged is locked for editing.
Locked(i) == \E j \in DOMAIN ses : j # i /\ ses[j].holds # {} /\ ses[j].host = ses[i].host

Staged(i, c) == [ses EXCEPT ![i].holds = @ \cup {c}]

Stage(c) ==
    LET i == my[c]
    IN  /\ pc[c] = "stage"
        /\ \/ Answered(i) /\ ~Locked(i) /\ ses' = Staged(i, c) /\ Go(c, "commit")
           \/ Lost(i) /\ ~Locked(i) /\ ses' = Staged(i, c) /\ Go(c, "undo")
           \/ Lost(i) /\ UNCHANGED ses /\ Go(c, "undo")
           \/ (Refused(i) \/ (Locked(i) /\ Answered(i))) /\ UNCHANGED ses /\ Go(c, "undo")
        /\ Idle /\ UNCHANGED <<wpool, wlock, rpool, my, told, committed, unheard>>

Emptied(i) == [ses EXCEPT ![i].holds = {}]

Commits(i, c) == {[by |-> c, of |-> x, host |-> ses[i].host] : x \in ses[i].holds}

\* publish() and the wait for its task, or the discard of a dry run.  A publish that is not
\* heard of may have been committed.
Commit(c) ==
    LET i == my[c] IN
    /\ pc[c] = "commit"
    /\ \/ /\ Answered(i) /\ ses' = Emptied(i)
          /\ committed' = IF c \in Publishing THEN committed \cup Commits(i, c) ELSE committed
          /\ Say(c, IF c \in Publishing THEN "published" ELSE "validated")
          /\ Go(c, "clean")
       \/ /\ Lost(i) /\ ses' = Emptied(i)
          /\ committed' = IF c \in Publishing THEN committed \cup Commits(i, c) ELSE committed
          /\ Go(c, "undo") /\ UNCHANGED told
       \/ /\ Lost(i) \/ Refused(i)
          /\ Go(c, "undo") /\ UNCHANGED <<ses, committed, told>>
    /\ Idle /\ UNCHANGED <<wpool, wlock, rpool, my, unheard>>

\* The discard after a failure.  A pooled apply leaves the block with an error, and the
\* session is dropped; or it answers that the change could not be discarded, and leaves it
\* normally, as it does after an error that is not the server's.
Undo(c) ==
    LET i == my[c] IN
    /\ pc[c] = "undo"
    /\ \/ Answered(i) /\ ses' = Emptied(i) /\ (Go(c, "drop") \/ Go(c, "clean"))
       \/ Lost(i) /\ ses' = Emptied(i) /\ Go(c, "clean")
       \/ (Lost(i) \/ Refused(i)) /\ UNCHANGED ses /\ Go(c, "clean")
    /\ Say(c, "failed")
    /\ Idle /\ UNCHANGED <<wpool, wlock, rpool, my, committed, unheard>>

Leave(c) ==
    /\ Go(c, "done") /\ wlock' = None
    /\ my' = [my EXCEPT ![c] = 0]
    /\ Idle /\ UNCHANGED <<rpool, told, committed>>

\* Mutant: the session is kept whatever the discard answered.
KeptAnyway(i) == ses' = [ses EXCEPT ![i].user = None] /\ UNCHANGED <<faults, unheard, wpool>>

\* The discard at the end failed.
NotClean(i) == Drop(i)

\* Mutant: nothing is discarded at the end of an apply.
NoDefence(i) == [ses EXCEPT ![i].user = None]

Cleaned(i) == [Emptied(i) EXCEPT ![i].user = None]

\* The defensive discard, after which the session is kept for the next apply.
Clean(c) ==
    LET i == my[c] IN
    /\ pc[c] = "clean" /\ c \notin Private
    /\ \/ Answered(i) /\ ses' = Cleaned(i) /\ UNCHANGED <<wpool, unheard>>
       \/ (~Alive(i) \/ faults < MaxFaults) /\ NotClean(i)
    /\ Leave(c)

Abandon(c) ==
    /\ pc[c] = "drop" /\ c \notin Private
    /\ Drop(my[c])
    /\ Leave(c)

-----------------------------------------------------------------------------
(* apply_changes(), and everything when sessions are not reused. *)

Enter(c) ==
    /\ pc[c] = "start" /\ c \in Private
    /\ asked' = [asked EXCEPT ![c] = conf]
    /\ \/ /\ LoginOk /\ UNCHANGED <<faults, told>>
          /\ ses' = Append(ses, [NewSession(c, FALSE) EXCEPT !.user = c, !.host = conf])
          /\ my' = [my EXCEPT ![c] = Len(ses) + 1] /\ Go(c, "stage")
       \/ /\ Fault
          /\ Say(c, "failed") /\ Go(c, "done") /\ UNCHANGED <<ses, my>>
    /\ UNCHANGED <<wpool, wlock, rpool, conf, closer, gaveUp, committed, unheard>>

\* __exit__: after an error a discard as a last resort; always a logout.
Exit(c) ==
    /\ pc[c] \in {"clean", "drop"} /\ c \in Private
    /\ Drop(my[c])
    /\ Go(c, "done") /\ my' = [my EXCEPT ![c] = 0]
    /\ Idle /\ UNCHANGED <<wlock, rpool, told, committed>>

-----------------------------------------------------------------------------
(* read_session(). *)

\* _POOL_LOCK: the shutdown has it while it closes the pool.
PoolFree == closer.at # "closing"

Look(r) ==
    /\ pc[r] = "start" /\ r \in Readers /\ PoolFree
    /\ asked' = [asked EXCEPT ![r] = conf]
    /\ my' = [my EXCEPT ![r] = rpool]
    /\ Go(r, IF rpool = 0 THEN "rlogin" ELSE "wait")
    /\ UNCHANGED <<ses, wpool, wlock, rpool, told, conf, closer, gaveUp, committed, unheard, faults>>

\* Outside the pool's lock: two reads may log in at once.
ReadLogin(r) ==
    /\ pc[r] = "rlogin"
    /\ \/ /\ LoginOk /\ UNCHANGED <<faults, told>>
          /\ ses' = Append(ses, NewSession(r, TRUE))
          /\ my' = [my EXCEPT ![r] = Len(ses) + 1] /\ Go(r, "insert")
       \/ /\ Fault
          /\ Say(r, "failed") /\ Go(r, "done") /\ UNCHANGED <<ses, my>>
    /\ Idle /\ UNCHANGED <<wpool, wlock, rpool, committed, unheard>>

\* Mutant: the session that came second is forgotten.
LoserForgotten(i) == UNCHANGED <<ses, faults, unheard>>

\* The session that came second is logged out and closed.
LoserClosed(i) ==
    \/ ses' = Dropped(i, FALSE, TRUE) /\ UNCHANGED <<faults, unheard>>
    \/ Fault /\ ses' = Dropped(i, FALSE, FALSE) /\ unheard' = unheard \cup {i}

Insert(r) ==
    /\ pc[r] = "insert" /\ PoolFree
    /\ IF rpool = 0
       THEN rpool' = my[r] /\ UNCHANGED <<ses, my, faults, unheard>>
       ELSE LoserClosed(my[r]) /\ my' = [my EXCEPT ![r] = rpool] /\ UNCHANGED rpool
    /\ Go(r, "wait")
    /\ Idle /\ UNCHANGED <<wpool, wlock, told, committed>>

\* The lock of the session; it is bound to this request's row and secret.
Take(r) ==
    /\ pc[r] = "wait" /\ ses[my[r]].user = None
    /\ ses' = [ses EXCEPT ![my[r]].user = r]
    /\ Go(r, "read")
    /\ Idle /\ UNCHANGED <<wpool, wlock, rpool, my, told, committed, unheard, faults>>

Free(i, in) == [ses EXCEPT ![i].user = None, ![i].on = in, ![i].in = in]

\* A session that expired, or that the shutdown logged out, is logged in again, once, at the same
\* address; a client that was closed cannot be.
Read(r) ==
    LET i == my[r] IN
    /\ pc[r] = "read"
    /\ \/ Answered(i) /\ ses' = Free(i, TRUE) /\ Say(r, "read")
       \/ Refused(i) /\ ses[i].open /\ ses' = Free(i, TRUE) /\ Say(r, "read")
       \/ Refused(i) /\ ~ses[i].open /\ ses' = [ses EXCEPT ![i].user = None] /\ Say(r, "failed")
       \/ Fault /\ ses' = [ses EXCEPT ![i].user = None] /\ Say(r, "failed")
    /\ Go(r, "done") /\ my' = [my EXCEPT ![r] = 0]
    /\ Idle /\ UNCHANGED <<wpool, wlock, rpool, committed, unheard>>

-----------------------------------------------------------------------------
(* Outside events: idle timeouts, a take-over, an edit or re-creation of the row. *)

\* The server drops a session and what it had staged.
Expire(i) ==
    /\ ses[i].on \/ ses[i].holds # {}
    /\ Fault
    /\ ses' = [ses EXCEPT ![i].on = FALSE, ![i].holds = {}]
    /\ UNCHANGED <<wpool, wlock, rpool, pc, my, told, asked, conf, closer, gaveUp, committed, unheard>>

\* take_over_session: the session is disconnected and what it staged discarded, unless the
\* discard fails.
TakeOver(i) ==
    /\ ses[i].holds # {} /\ Fault
    /\ \E left \in {{}, ses[i].holds} : ses' = [ses EXCEPT ![i].on = FALSE, ![i].holds = left]
    /\ UNCHANGED <<wpool, wlock, rpool, pc, my, told, asked, conf, closer, gaveUp, committed, unheard>>

\* The row gets another address; the sessions in the pools are left as they are.
Edit ==
    /\ conf < MaxEdits /\ conf' = conf + 1
    /\ UNCHANGED <<ses, wpool, wlock, rpool, pc, my, told, asked, closer, gaveUp, committed, unheard, faults>>

\* The row is deleted and its id given to a new one: the pools know servers by id.
Recreate == Edit

-----------------------------------------------------------------------------
(* close_pool() and close_write_pool(), at shutdown. *)

Closing(place, taken) == closer' = [at |-> place, took |-> taken]

\* logout(): nothing is heard of it when it is lost, and the process forgets the session in any case.
LoggedOut(i, heard) == [ses EXCEPT ![i].on = @ /\ ~heard, ![i].in = FALSE]

\* Every shared reader is logged out, whoever is using it: the lock of its calls is not taken.
ClosePool ==
    /\ closer.at = "up"
    /\ \/ rpool = 0 /\ UNCHANGED <<ses, unheard, faults>>
       \/ rpool # 0 /\ ses' = LoggedOut(rpool, TRUE) /\ UNCHANGED <<unheard, faults>>
       \/ rpool # 0 /\ Fault /\ ses' = LoggedOut(rpool, FALSE) /\ unheard' = unheard \cup {rpool}
    /\ Closing("closing", 0)
    /\ UNCHANGED <<wpool, wlock, rpool, pc, my, told, asked, conf, gaveUp, committed>>

\* Then its client is closed and the pool emptied; the write pool is looked at afterwards.
PoolClosed ==
    /\ closer.at = "closing"
    /\ ses' = IF rpool = 0 THEN ses ELSE [ses EXCEPT ![rpool].open = FALSE]
    /\ rpool' = 0
    /\ Closing(IF wpool = 0 THEN "down" ELSE "wait", wpool)
    /\ UNCHANGED <<wpool, wlock, pc, my, told, asked, conf, gaveUp, committed, unheard, faults>>

\* A racing apply may have dropped or replaced the session.
TakeOut ==
    IF wpool = closer.took
    THEN wpool' = 0 /\ Closing("discard", closer.took)
    ELSE UNCHANGED wpool /\ Closing("down", closer.took)

\* The lock is waited for, ten seconds at most; without it the shutdown goes on.
CloserTakes ==
    /\ closer.at = "wait"
    /\ IF wlock = None
       THEN wlock' = "closer" /\ UNCHANGED gaveUp
       ELSE UNCHANGED wlock /\ gaveUp' = TRUE
    /\ Closing("take", closer.took)
    /\ UNCHANGED <<ses, wpool, rpool, pc, my, told, asked, conf, committed, unheard, faults>>

CloserUnlocks == wlock' = IF wlock = "closer" THEN None ELSE wlock

CloserChecks ==
    /\ closer.at = "take" /\ TakeOut
    /\ IF closer'.at = "down" THEN CloserUnlocks ELSE UNCHANGED wlock
    /\ UNCHANGED <<ses, rpool, pc, my, told, asked, conf, gaveUp, committed, unheard, faults>>

CloserDiscards ==
    /\ closer.at = "discard"
    /\ \/ ses' = (IF Alive(closer.took) THEN Emptied(closer.took) ELSE ses) /\ UNCHANGED faults
       \/ Fault /\ UNCHANGED ses
    /\ Closing("logout", closer.took)
    /\ UNCHANGED <<wpool, wlock, rpool, pc, my, told, asked, conf, gaveUp, committed, unheard>>

CloserLogsOut ==
    /\ closer.at = "logout"
    /\ \/ ses' = Dropped(closer.took, FALSE, TRUE) /\ UNCHANGED <<unheard, faults>>
       \/ Fault /\ ses' = Dropped(closer.took, FALSE, FALSE) /\ unheard' = unheard \cup {closer.took}
    /\ CloserUnlocks
    /\ Closing("down", closer.took)
    /\ UNCHANGED <<wpool, rpool, pc, my, told, asked, conf, gaveUp, committed>>

-----------------------------------------------------------------------------
Init ==
    /\ ses = <<>> /\ wpool = 0 /\ rpool = 0 /\ wlock = None
    /\ \E cast \in Casts : pc = [a \in Actors |-> IF a \in cast THEN "start" ELSE "off"]
    /\ my = [a \in Actors |-> 0]
    /\ told = [a \in Actors |-> "nothing"]
    /\ asked = [a \in Actors |-> 0]
    /\ conf = 0
    /\ closer = [at |-> "up", took |-> 0] /\ gaveUp = FALSE
    /\ committed = {} /\ unheard = {} /\ faults = 0

Apply(c) ==
    \/ Acquire(c) \/ Probe(c) \/ Login(c) \/ Stage(c) \/ Commit(c) \/ Undo(c)
    \/ Clean(c) \/ Abandon(c) \/ Enter(c) \/ Exit(c)

Reading(r) == Look(r) \/ ReadLogin(r) \/ Insert(r) \/ Take(r) \/ Read(r)

Shutdown == ClosePool \/ PoolClosed \/ CloserTakes \/ CloserChecks \/ CloserDiscards \/ CloserLogsOut

AllAnswered == \A a \in Actors : pc[a] \in {"done", "off"}

AllDone == AllAnswered /\ UNCHANGED vars

Next ==
    \/ \E c \in Calls : Apply(c)
    \/ \E r \in Readers : Reading(r)
    \/ \E i \in DOMAIN ses : Expire(i) \/ TakeOver(i)
    \/ Shutdown \/ Edit \/ Recreate \/ AllDone

Spec == Init /\ [][Next]_vars

-----------------------------------------------------------------------------
(* What must hold. *)

\* The session kept for the next apply has nothing staged and no lock on the server, while
\* no apply has it: whatever failed in the applies before.
KeptClean == wpool # 0 /\ wlock = None => ses[wpool].holds = {}

\* What is committed was staged by the apply that published, which was asked to publish:
\* no apply commits what another left, and a dry run is never committed by anyone.
OwnChangesOnly == \A x \in committed : x.by = x.of /\ x.by \in Publishing

\* An apply that says it published did commit its change, unless the shutdown went on
\* without its lock and discarded the change under it.
PublishedIsCommitted ==
    \A c \in Calls : told[c] = "published" /\ ~gaveUp => \E x \in committed : x.by = c /\ x.of = c

\* Logged in again by a read before its client was closed.
Reopened(i) == ses[i].in /\ ~ses[i].open

\* What is open on the server and nobody will find again, though no logout was lost.
Stray ==
    {i \in DOMAIN ses : ses[i].on /\ i \notin {wpool, rpool} \cup unheard /\ closer.at \notin {"discard", "logout"}}

\* When every request is answered nothing counts towards the server's session limit but the pools,
\* the sessions whose logout was lost, and at most one shared session that a read logged in again
\* while the shutdown was closing it.
NoneLeftBehind == AllAnswered => \A i, j \in Stray : Reopened(i) /\ i = j

\* close_pool(): "so we don't leave sessions lingering toward the 100-session ceiling".
NothingLingers == AllAnswered => Stray = {}

\* "Yield a reusable READ-WRITE session for ``server``" (mgmt_api.py:542): what a request
\* commits for a server is committed at the address its row has.
ReachesTheServer == \A x \in committed : x.host = asked[x.by]

=============================================================================
