------------------------------ MODULE Tickets ------------------------------
(***************************************************************************)
(* The webhook that tickets come in by (routers/access_automation.py:       *)
(* aa_webhook): a call that the door of Keys let in sends its body, the     *)
(* request is read (Requests), checked against the allowlist and the        *)
(* server, answered from what was remembered of the ticket or carried out,  *)
(* recorded, remembered, and pushed back to the ticket's system.  From the  *)
(* body on the handler does not wait: one is carried out at a time, but the *)
(* process may stop at any step, and the ticket's system sends again what   *)
(* it got no answer to.                                                     *)
(***************************************************************************)
EXTENDS Keys, Requests

CONSTANTS
    Bodies,     \* the bodies that come
    Allowlists, \* the settings of the allowlist: a set of servers, or Unreadable
    Ready,      \* the servers that exist and have a credential
    Hosts,      \* hosts of call-back addresses, with the kinds of address each has
    MaxCommits  \* bound on the commits

VARIABLES
    job,        \* the call that is being carried out
    commits,    \* what was published: the server and the ticket of each
    kept,       \* what is remembered: <<server, ticket>> -> the number of its commit
    told        \* how often each commit was pushed back

ticketVars == <<job, commits, kept, told>>
vars == <<keyVars, ticketVars>>

Unreadable == {"prod-3"}
Idle == [at |-> "idle"]
Keyed(j) == j.applies /\ j.ticket # Absent

Goes(state) == job' = state /\ UNCHANGED <<keyVars, commits, kept, told>>

---------------------------------------------------------------------------
\* The token of the settings, where one is set, needs no key and may write.
Legacy(c) ==
    /\ scope = "webhook" /\ call[c].at = "out"
    /\ call' = [call EXCEPT ![c] = [Out EXCEPT !.at = "in", !.write = TRUE]]
    /\ UNCHANGED <<scope, now, row, made, cache, bust, edits, held, ticketVars>>

\* The body comes, and only then is anything read from it.
Come(c, body) ==
    /\ job = Idle
    /\ call[c].at = "in" /\ scope = "webhook"
    /\ job' = [at |-> "body", call |-> c, body |-> body]
    /\ UNCHANGED <<keyVars, commits, kept, told>>

\* An allowlist that is not set allows all; one that cannot be read allows none.
Allows(allowlist, server) == allowlist # Unreadable /\ (allowlist = {} \/ server \in allowlist)

\* The call is answered, and its thread is free again.
Answer ==
    /\ job' = Idle
    /\ call' = [call EXCEPT ![job.call] = Out]
    /\ UNCHANGED <<scope, now, row, made, cache, bust, edits, held, commits, kept, told>>

Acceptable(allowlist) ==
    LET body == job.body
    IN /\ ~Unusable(body)
       /\ Allows(allowlist, Server(body))
       /\ Server(body) \in Ready
       /\ Applies(body) => call[job.call].write

TurnedAway ==
    /\ job.at = "body"
    /\ \E allowlist \in Allowlists : ~Acceptable(allowlist)
    /\ Answer

CallbackUrl(body) ==
    First(body, <<"callback_url", "callbackUrl", "callback", "response_url", "u_callback_url">>, Absent)

Read ==
    /\ job.at = "body"
    /\ \E allowlist \in Allowlists : Acceptable(allowlist)
    /\ Goes([at |-> "asked", call |-> job.call, server |-> Server(job.body), ticket |-> Ticket(job.body),
            applies |-> Applies(job.body), host |-> CallbackUrl(job.body),
            request |-> Built(job.body)])

\* Mutant: what is remembered of a ticket, for whichever server.
OfTicket(j) == {k \in DOMAIN kept : k[2] = j.ticket}
Remembered(j) == {k \in DOMAIN kept : k = <<j.server, j.ticket>>}

\* Carried out, a result has the number of its commit, or 0 when nothing was committed.
Done(n, replayed) ==
    [at |-> "done", call |-> job.call, server |-> job.server, ticket |-> job.ticket, applies |-> job.applies,
     host |-> job.host, commit |-> n, replayed |-> replayed]

Replay ==
    /\ job.at = "asked" /\ Keyed(job)
    /\ \E k \in Remembered(job) : Goes(Done(kept[k], TRUE))

Unanswered == job.at = "asked" /\ ~(Keyed(job) /\ Remembered(job) # {})

\* A preview, or an application that finds nothing to do, is for review, or fails.
NothingDone == Unanswered /\ Goes(Done(0, FALSE))

Publish ==
    /\ Unanswered /\ job.applies
    /\ Len(commits) < MaxCommits
    /\ commits' = Append(commits, [server |-> job.server, ticket |-> job.ticket])
    /\ told' = Append(told, 0)
    /\ job' = Done(Len(commits) + 1, FALSE)
    /\ UNCHANGED <<keyVars, kept>>

\* The result of a commit is remembered, when the store takes it.
Remember ==
    /\ job.at = "done"
    /\ LET at == <<job.server, job.ticket>>
       IN \/ /\ Keyed(job) /\ job.commit > 0 /\ ~job.replayed
             /\ kept' = [k \in DOMAIN kept \cup {at} |-> IF k = at THEN job.commit ELSE kept[k]]
          \/ UNCHANGED kept
    /\ job' = [job EXCEPT !.at = "tell"]
    /\ UNCHANGED <<keyVars, commits, told>>

---------------------------------------------------------------------------
\* The call-back: to the address the ticket gives, when all it resolves to may be reached,
\* else to the ticket system that is configured.  It is not made for a replay.

\* Mutant: every answer is pushed back, a replayed one too.
Always(j) == TRUE
Tells(j) == ~j.replayed

Special == {"loopback", "link-local", "multicast", "unspecified", "reserved"}
Reachable(host, allowPrivate) ==
    /\ Hosts[host] # {}
    /\ Hosts[host] \cap Special = {}
    /\ "private" \in Hosts[host] => allowPrivate

Callback == job.host # Absent /\ \E allowPrivate \in BOOLEAN : Reachable(job.host, allowPrivate)
WorkNote == job.host = Absent /\ job.ticket # Absent

\* It arrives; or it is refused, is not configured, or fails: what came of it is only told
\* in the answer.
Notify ==
    /\ job.at = "tell"
    /\ \/ /\ Tells(job) /\ (Callback \/ WorkNote)
          /\ told' = IF job.commit = 0 THEN told ELSE [told EXCEPT ![job.commit] = @ + 1]
       \/ UNCHANGED told
    /\ job' = [job EXCEPT !.at = "answer"]
    /\ UNCHANGED <<keyVars, commits, kept>>

Answered == job.at = "answer" /\ Answer

\* What is remembered lapses in time, and is pruned.
Lapse ==
    /\ \E k \in DOMAIN kept : kept' = [j \in DOMAIN kept \ {k} |-> kept[j]]
    /\ UNCHANGED <<keyVars, job, commits, told>>

Stop == Restart /\ job' = Idle /\ UNCHANGED <<commits, kept, told>>

Init ==
    /\ KeyInit
    /\ job = Idle
    /\ commits = <<>>
    /\ kept = [k \in {} |-> 0]
    /\ told = <<>>

Webhook ==
    \/ \E c \in Calls : Legacy(c) \/ \E body \in Bodies : Come(c, body)
    \/ TurnedAway \/ Read \/ Replay \/ NothingDone \/ Publish \/ Remember \/ Notify \/ Answered \/ Lapse

Next ==
    \/ (Tick \/ Administer) /\ UNCHANGED ticketVars
    \/ (\E c \in Calls : Door(c)) /\ UNCHANGED ticketVars
    \/ Stop
    \/ Webhook

Spec == Init /\ [][Next]_vars

---------------------------------------------------------------------------
TypeOK ==
    /\ job.at \in {"idle", "body", "asked", "done", "tell", "answer"}
    /\ \A k \in DOMAIN kept : kept[k] \in 1..Len(commits)
    /\ DOMAIN told = DOMAIN commits

\* A request means what its ticket says (ticketing.parse_payload, build_request).
RequestMeansTicket == [][job.at = "body" /\ job'.at = "asked" => MeansWhatItSays(job.body, job'.request)]_vars

\* An answer that says published speaks of a commit on the server that was asked, for the
\* ticket that was sent, however often it is sent and whatever is sent besides (aa_webhook).
AnswersItsServer ==
    job.at \in {"done", "tell", "answer"} /\ job.commit > 0 =>
        commits[job.commit] = [server |-> job.server, ticket |-> job.ticket]

\* A commit is pushed back once at most: a ticket sent again gets its answer, and its
\* system no second note (aa_webhook).
ToldOnce == \A n \in DOMAIN told : told[n] <= 1
=============================================================================
