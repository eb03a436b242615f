------------------------------ MODULE Servers ------------------------------
(***************************************************************************)
(* The saved management servers: how a profile is made, edited, trusted and *)
(* deleted (routers/mgmt.py, services/mgmt_creds.py, services/               *)
(* gaia_client.py), how the portal and the agents' tools find the one they   *)
(* mean (routers/access_automation.py, services/mcp_tools.py), and which one *)
(* a recorded change is acted on again.                                     *)
(*                                                                         *)
(* The journal keeps the number of the server a change was made on and not   *)
(* a reference to it (models.py, AppliedChange).  What the verbs of a        *)
(* roll-back do to a rule is ChangeLog's; here they only choose a server.    *)
(***************************************************************************)
EXTENDS Naturals, FiniteSets, FiniteSetsExt, Sequences

CONSTANTS
    Ids,        \* the numbers a profile may get: a bound on profiles
    Users,
    Words,      \* names, hosts, domains and what an agent may call a server
    Within,     \* <<w, v>>: the word w is part of the word v
    NoWord,     \* an empty field
    Forms,      \* what the profile form may be sent with
    Keys,       \* the keys secrets may be encrypted under; NoKey: encryption is unavailable
    NoKey,
    Certs,      \* the certificates hosts present; NoCert: none, or the host does not answer
    NoCert,
    Public,     \* the certificates of a public authority
    Profiles,   \* bound: profiles ever made
    Changes     \* bound: entries of the journal

VARIABLES
    server,     \* the table of profiles
    made,       \* profiles made so far, to tell two with one number apart
    key,        \* what the running portal encrypts with
    host,       \* what a host presents now
    publishing, \* the setting that lets agents publish
    log,        \* the journal of published changes
    sent        \* the call that was sent last
vars == <<server, made, key, host, publishing, log, sent>>

NoServer == [made |-> 0]
Live == {i \in Ids : server[i] # NoServer}
NothingSent == [verb |-> "none", change |-> 0, made |-> 0, host |-> NoWord]

---------------------------------------------------------------------------
\* Secrets and certificates

Available == key # NoKey
\* Clearing wins over a new secret, which is dropped when nothing can be encrypted.
Stored(old, given, clear) ==
    CASE clear -> NoKey
      [] ~clear /\ given /\ Available -> key
      [] OTHER -> old
\* A secret that was encrypted under another key does not open.
Opens(secret) == Available /\ secret = key

\* Trust on first use: nothing is fetched once there is a certificate, and nothing is
\* pinned when the host does not answer.
EnsurePinned(s) == IF s.trusting /\ s.pin = NoCert THEN [s EXCEPT !.pin = host[s.host]] ELSE s
\* A pinned certificate is the only one trusted; without one a public authority decides.
Verifies(s) ==
    /\ host[s.host] # NoCert
    /\ IF s.pin = NoCert THEN host[s.host] \in Public ELSE host[s.host] = s.pin

Ready(s) == s.user /\ Opens(s.secret)

---------------------------------------------------------------------------
\* The profile form

\* SQLite hands out the number after the greatest one in the table.
NextId == Max({0} \cup Live) + 1

New(u, f) ==
    [made |-> made + 1, owner |-> u, name |-> f.name, host |-> f.host, domain |-> f.domain,
     user |-> f.user, gaiaUser |-> f.gaiaUser, pin |-> f.pin, trusting |-> f.trusting,
     secret |-> Stored(NoKey, f.secret, FALSE), gaia |-> Stored(NoKey, f.gaia, FALSE)]

Create(u, f) ==
    /\ made < Profiles
    /\ NextId \in Ids
    /\ ~f.clear
    /\ made' = made + 1
    /\ server' = [server EXCEPT ![NextId] = EnsurePinned(New(u, f))]
    /\ UNCHANGED <<key, host, publishing, log, sent>>

Owned(u, i) == i \in Live /\ server[i].owner = u

\* The certificate of the form replaces the pinned one, also when the host changes.
Edited(s, f) ==
    [s EXCEPT !.name = f.name, !.host = f.host, !.domain = f.domain, !.user = f.user,
              !.gaiaUser = f.gaiaUser, !.pin = f.pin, !.trusting = f.trusting,
              !.secret = Stored(@, f.secret, f.clear), !.gaia = Stored(@, f.gaia, f.clear)]

Update(u, i, f) ==
    /\ Owned(u, i)
    /\ server' = [server EXCEPT ![i] = EnsurePinned(Edited(@, f))]
    /\ UNCHANGED <<made, key, host, publishing, log, sent>>

\* The secrets go with the profile; the journal keeps its number.
Delete(u, i) ==
    /\ Owned(u, i)
    /\ server' = [server EXCEPT ![i] = NoServer]
    /\ UNCHANGED <<made, key, host, publishing, log, sent>>

---------------------------------------------------------------------------
\* Which server is meant

\* An agent gives a number or a word.
Refs == [by : {"number"}, id : Ids] \cup [by : {"word"}, word : Words \cup {NoWord}]

NameOf(i) == {server[i].name, server[i].host, server[i].domain}
Exact(w) == {i \in Live : w \in NameOf(i)}
Partly(w) == {i \in Live : \E v \in {server[i].name, server[i].host} : <<w, v>> \in Within}
OnlyOne(S) == IF Cardinality(S) = 1 THEN S ELSE {}

\* A number is the number of a profile or nothing.  A word is the first profile it
\* names, else the only one it is part of, else the only profile there is.
Resolve(ref) ==
    IF ref.by = "number" THEN Live \cap {ref.id}
    ELSE LET exact == IF ref.word = NoWord THEN {} ELSE Exact(ref.word)
             part == IF ref.word = NoWord THEN {} ELSE OnlyOne(Partly(ref.word)) IN
         CASE exact # {} -> {Min(exact)}
           [] exact = {} /\ part # {} -> part
           [] OTHER -> OnlyOne(Live)

\* The verbs on a recorded change take the number it was recorded with.
Recorded(c) == Live \cap {log[c].id}

---------------------------------------------------------------------------
\* Calls: the certificate is pinned, and the call reaches a host that verifies

\* The call, when it is sent, is the last one sent.
Call(i, verb, c) ==
    LET s == EnsurePinned(server[i]) IN
    /\ server' = [server EXCEPT ![i] = s]
    /\ sent' = IF Verifies(s) THEN [verb |-> verb, change |-> c, made |-> s.made, host |-> s.host]
               ELSE sent

Reaches(i) == Verifies(EnsurePinned(server[i]))

\* The entry of a change that was published, under the number the server had.
Record(i, verb) ==
    log' = IF Reaches(i)
           THEN Append(log, [id |-> i, made |-> server[i].made, host |-> server[i].host,
                             adds |-> verb = "create", open |-> TRUE])
           ELSE log

\* "Test connection": a password may be typed, and the certificate is pinned first.
Test(u, i, typed) ==
    /\ Owned(u, i)
    /\ IF server[i].user /\ (typed \/ Opens(server[i].secret)) THEN Call(i, "read", 0)
       ELSE /\ server' = [server EXCEPT ![i] = EnsurePinned(@)]
            /\ UNCHANGED sent
    /\ UNCHANGED <<made, key, host, publishing, log>>

\* The export of the appliance's own settings logs in with its own user and secret.
GaiaExport(u, i, typed) ==
    /\ Owned(u, i)
    /\ server[i].gaiaUser
    /\ IF typed \/ Opens(server[i].gaia) THEN Call(i, "read", 0)
       ELSE /\ server' = [server EXCEPT ![i] = EnsurePinned(@)]
            /\ UNCHANGED sent
    /\ UNCHANGED <<made, key, host, publishing, log>>

\* The pages that pull layers, rules and objects, and the previews.
PortalRead(u, i) ==
    /\ Owned(u, i)
    /\ Ready(server[i])
    /\ Call(i, "read", 0)
    /\ UNCHANGED <<made, key, host, publishing, log>>

AgentRead(ref) ==
    /\ \E i \in Resolve(ref) : Ready(server[i]) /\ Call(i, "read", 0)
    /\ UNCHANGED <<made, key, host, publishing, log>>

\* The rule editor of the policy viewer publishes what the journal does not know of.
PortalEdit(u, i) ==
    /\ Owned(u, i)
    /\ Ready(server[i])
    /\ Call(i, "edit", 0)
    /\ UNCHANGED <<made, key, host, publishing, log>>

\* A request that is published: it adds a rule or widens one.
PortalApply(u, i, verb) ==
    /\ Len(log) < Changes
    /\ Owned(u, i)
    /\ Ready(server[i])
    /\ Call(i, verb, 0)
    /\ Record(i, verb)
    /\ UNCHANGED <<made, key, host, publishing>>

\* An agent may also amend a rule it names by the rule's uid.
AgentApply(ref, verb) ==
    /\ Len(log) < Changes
    /\ publishing
    /\ \E i \in Resolve(ref) : Ready(server[i]) /\ Call(i, verb, 0) /\ Record(i, verb)
    /\ UNCHANGED <<made, key, host, publishing>>

---------------------------------------------------------------------------
\* Recorded changes

\* The claim is kept when the call was made, and given back when it was not.
Close(i, c) == log' = IF Reaches(i) THEN [log EXCEPT ![c].open = FALSE] ELSE log

\* The panel of a server shows the entries with its number.
PortalRevert(u, i, c, publish) ==
    /\ Owned(u, i)
    /\ Ready(server[i])
    /\ log[c].id = i
    /\ log[c].open
    /\ Call(i, "revert", c)
    /\ IF publish THEN Close(i, c) ELSE UNCHANGED log
    /\ UNCHANGED <<made, key, host, publishing>>

AgentRevert(c, publish) ==
    /\ publish => publishing
    /\ log[c].open
    /\ \E i \in Recorded(c) :
          /\ Ready(server[i])
          /\ Call(i, "revert", c)
          /\ IF publish THEN Close(i, c) ELSE UNCHANGED log
    /\ UNCHANGED <<made, key, host, publishing>>

\* Only the rule a change added may be amended by the change; a published edit is an
\* entry of its own.
AgentAmend(c, publish) ==
    /\ publish => publishing /\ Len(log) < Changes
    /\ log[c].open
    /\ log[c].adds
    /\ \E i \in Recorded(c) :
          /\ Ready(server[i])
          /\ Call(i, "amend", c)
          /\ IF publish THEN Record(i, "amend") ELSE UNCHANGED log
    /\ UNCHANGED <<made, key, host, publishing>>

---------------------------------------------------------------------------
\* The surroundings

\* A host gets another certificate, stops answering or answers again.
Presents(h, cert) ==
    /\ host' = [host EXCEPT ![h] = cert]
    /\ UNCHANGED <<server, made, key, publishing, log, sent>>

\* The portal starts again, perhaps under another secret.
Restart(k) ==
    /\ key' = k
    /\ UNCHANGED <<server, made, host, publishing, log, sent>>

LetAgentsPublish ==
    /\ publishing' = ~publishing
    /\ UNCHANGED <<server, made, key, host, log, sent>>

Init ==
    /\ server = [i \in Ids |-> NoServer]
    /\ made = 0
    /\ key \in Keys
    /\ host \in [{f.host : f \in Forms} -> Certs]
    /\ publishing = FALSE
    /\ log = <<>>
    /\ sent = NothingSent

Next ==
    \/ \E u \in Users : \E f \in Forms : Create(u, f) \/ \E i \in Ids : Update(u, i, f)
    \/ \E u \in Users, i \in Ids :
          \/ Delete(u, i) \/ PortalRead(u, i)
          \/ \E typed \in BOOLEAN : Test(u, i, typed) \/ GaiaExport(u, i, typed)
          \/ PortalEdit(u, i)
          \/ \E verb \in {"create", "widen"} : PortalApply(u, i, verb)
          \/ \E c \in DOMAIN log, publish \in BOOLEAN : PortalRevert(u, i, c, publish)
    \/ \E ref \in Refs : AgentRead(ref) \/ \E verb \in {"create", "widen", "amend"} : AgentApply(ref, verb)
    \/ \E c \in DOMAIN log, publish \in BOOLEAN : AgentRevert(c, publish) \/ AgentAmend(c, publish)
    \/ \E h \in DOMAIN host, cert \in Certs \cup {NoCert} : Presents(h, cert)
    \/ \E k \in Keys \cup {NoKey} : Restart(k)
    \/ LetAgentsPublish

Spec == Init /\ [][Next]_vars
---------------------------------------------------------------------------
(* Property *)

\* A recorded change is acted on at the server it was made on and nowhere else: the
\* call goes to the profile the change was recorded with, or at least to its host, and
\* when that profile was deleted there is no call ("so a deleted server's stale id
\* can't misroute this DESTRUCTIVE rollback onto a different live SMS", mcp_tools.py).
ChangesStayAtTheirServer ==
    sent.change # 0 => \/ sent.made = log[sent.change].made
                       \/ sent.host = log[sent.change].host
=============================================================================
