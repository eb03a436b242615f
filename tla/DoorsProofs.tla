----------------------------- MODULE DoorsProofs -----------------------------
(***************************************************************************)
(* Proofs about who gets in and what may be done there.  The portal's       *)
(* accounts (Accounts), for every set of accounts and of requests under way *)
(* together, and every number of edits: the configured administrator stays  *)
(* one, and nobody gets a rank but from an administrator.  The doors of the *)
(* keys and the webhook (Keys, Requests, Tickets): a call that is let in    *)
(* presents a key that was in force, a request means what its ticket says,  *)
(* an answer speaks of a commit of its own server and ticket, and a commit  *)
(* is pushed back once.                                                     *)
(***************************************************************************)
EXTENDS Accounts, Tickets, WellFoundedInduction, TLAPS

-----------------------------------------------------------------------------
(* Accounts. *)

---------------------------------------------------------------------------
(* The inductive invariant: what a request under way has read, and what it  *)
(* is going to write                                                        *)

\* A request is about an account that was there when it was read, or makes a new one.
ReadsItsTarget(q) ==
    q.at # "idle" =>
        /\ q.verb \in Verbs
        /\ IF q.verb = "create" THEN q.target = NoUser /\ q.seen = NoAccount
           ELSE q.target \in Users /\ q.seen \in Accounts

\* A request that is going to write q.new.
Writes(q) == q.at = "checked" /\ q.verb # "delete"

\* It raises nobody above what was read unless an administrator asked, and makes an
\* account active only where that is what was asked for.
RaisesByAdmin(q) ==
    Writes(q) /\ ((q.new.admin /\ ~q.seen.admin) \/ (q.new.manage /\ ~q.seen.manage)) => q.asAdmin
WakesOnPurpose(q) ==
    Writes(q) /\ IsActive(q.new) /\ ~IsActive(q.seen) => q.verb \in {"create", "update", "approve"}

\* Whatever is under way about the configured administrator read an active administrator,
\* leaves him one, and does not delete him.
SparesConfig(q) ==
    q.at # "idle" /\ q.target = Config =>
        /\ IsAdmin(q.seen)
        /\ q.at = "checked" => q.verb # "delete" /\ IsAdmin(q.new)

Sound(q) ==
    /\ ReadsItsTarget(q)
    /\ Writes(q) => q.new \in Accounts
    /\ RaisesByAdmin(q)
    /\ WakesOnPurpose(q)
    /\ SparesConfig(q)

AccountsInv ==
    /\ AccountsTypeOK
    /\ \A r \in Requests : Sound(request[r])
    /\ ConfigRemains

---------------------------------------------------------------------------
(* The columns of an account, and of a commit                              *)

Rows == Accounts \cup {NoAccount}
Queries == [at : {"idle", "read", "checked"}, verb : Verbs \cup {"none"},
            me : Users \cup {NoUser}, asAdmin : BOOLEAN, target : Users \cup {NoUser},
            seen : Rows, new : Rows]

\* A commit writes an account, each column from the form where the form changed what was
\* read, and from the row as it is now elsewhere.
LEMMA WrittenIs ==
    ASSUME NEW seen \in Accounts, NEW new \in Accounts, NEW there \in Accounts
    PROVE  /\ Written(seen, new, there) \in Accounts
           /\ Written(seen, new, there).admin = IF new.admin # seen.admin THEN new.admin ELSE there.admin
           /\ Written(seen, new, there).manage = IF new.manage # seen.manage THEN new.manage ELSE there.manage
           /\ Written(seen, new, there).status = IF new.status # seen.status THEN new.status ELSE there.status
<1> DEFINE w == Written(seen, new, there)
<1>1. DOMAIN there = {"status", "admin", "manage", "change", "link"}
  BY DEF Accounts
<1>2. w = [c \in {"status", "admin", "manage", "change", "link"} |->
              IF new[c] # seen[c] THEN new[c] ELSE there[c]]
  BY <1>1 DEF Written
<1>3. /\ w.status = IF new.status # seen.status THEN new.status ELSE there.status
      /\ w.admin = IF new.admin # seen.admin THEN new.admin ELSE there.admin
      /\ w.manage = IF new.manage # seen.manage THEN new.manage ELSE there.manage
      /\ w.change = IF new.change # seen.change THEN new.change ELSE there.change
      /\ w.link = IF new.link # seen.link THEN new.link ELSE there.link
  BY <1>2
<1>4. w = [status |-> w.status, admin |-> w.admin, manage |-> w.manage, change |-> w.change, link |-> w.link]
  BY <1>2
<1>5. w \in Accounts
  BY <1>3, <1>4 DEF Accounts
<1>6. QED
  BY <1>3, <1>5

\* NoAccount is nobody's account, and no administrator's.
LEMMA NoAccountIs == NoAccount \notin Accounts /\ NoAccount \in Rows /\ ~IsAdmin(NoAccount)
  BY DEF NoAccount, Accounts, Rows, IsAdmin, IsActive, Statuses

\* What the handlers make of what was read, column by column.
LEMMA CreatedIs ==
    ASSUME NEW q \in Queries, NEW form \in Forms
    PROVE  /\ Created(q, form) \in Accounts
           /\ Created(q, form).admin \/ Created(q, form).manage => q.asAdmin
  BY DEF Created, Queries, Forms, Accounts, Statuses

LEMMA UpdatedIs ==
    ASSUME NEW q \in Queries, q.seen \in Accounts, NEW form \in Forms
    PROVE  /\ Updated(q, form) \in Accounts
           /\ ~q.asAdmin => Updated(q, form).admin = q.seen.admin /\ Updated(q, form).manage = q.seen.manage
           /\ q.asAdmin => Updated(q, form).admin = form.admin /\ Updated(q, form).status = form.status
<1>1. CASE q.asAdmin
  BY <1>1 DEF Updated, Queries, Forms, Accounts
<1>2. CASE ~q.asAdmin
  BY <1>2 DEF Updated, Queries, Forms, Accounts
<1>3. QED
  BY <1>1, <1>2 DEF Queries

LEMMA ApprovedIs ==
    ASSUME NEW q \in Queries, q.seen \in Accounts
    PROVE  /\ Approved(q) \in Accounts
           /\ Approved(q).admin = q.seen.admin /\ Approved(q).manage = q.seen.manage
           /\ Approved(q).status = "active"
  BY DEF Approved, Accounts, Statuses

LEMMA TemporaryIs ==
    ASSUME NEW q \in Queries, q.seen \in Accounts
    PROVE  /\ Temporary(q) \in Accounts
           /\ Temporary(q).admin = q.seen.admin /\ Temporary(q).manage = q.seen.manage
           /\ Temporary(q).status = q.seen.status
  BY DEF Temporary, Accounts

LEMMA LinkSentIs ==
    ASSUME NEW q \in Queries, q.seen \in Accounts
    PROVE  /\ LinkSent(q) \in Accounts
           /\ LinkSent(q).admin = q.seen.admin /\ LinkSent(q).manage = q.seen.manage
           /\ LinkSent(q).status = q.seen.status
  BY DEF LinkSent, Accounts

---------------------------------------------------------------------------
(* Requests one at a time                                                  *)

\* A request that is not under way has nothing to answer for.
LEMMA NoRequestIs == NoRequest \in Queries /\ Sound(NoRequest) /\ NoRequest.at = "idle"
  BY NoAccountIs DEF NoRequest, Queries, Sound, ReadsItsTarget, Writes, RaisesByAdmin, WakesOnPurpose, SparesConfig

\* The configured administrator is not edited into anything else.
LEMMA SparedByAll ==
    ASSUME NEW q \in Queries, q.at = "read", Sound(q), q.target = Config,
           NEW form \in Forms, Allowed(q, form),
           form.status # "active" => q.verb = "update",
           form.admin \/ form.manage => q.verb \in {"create", "update"}
    PROVE  q.verb # "delete" /\ IsAdmin(Edited(q, form))
<1>1. /\ q.verb \in Verbs /\ q.verb # "create" /\ q.seen \in Accounts
      /\ IsAdmin(q.seen)
  BY AccountsAssumption DEF Sound, ReadsItsTarget, SparesConfig
<1>2. q.verb # "delete"
  BY DEF Allowed, DeleteAllowed, IsProtected
<1>3. CASE q.verb = "update"
  <2>1. UpdateAllowed(q, form) /\ Edited(q, form) = Updated(q, form)
    BY <1>3 DEF Allowed, Edited
  <2>2. q.asAdmin
    BY <1>1, <2>1 DEF UpdateAllowed, IsAdmin
  <2>3. form.admin /\ form.status = "active"
    BY <1>1, <2>1, <2>2 DEF UpdateAllowed, IsProtected, Removing, Disabling, IsAdmin, Forms
  <2>4. QED
    BY <1>1, <2>1, <2>2, <2>3, UpdatedIs DEF IsAdmin, IsActive
<1>4. CASE q.verb = "approve"
  BY <1>1, <1>4, ApprovedIs DEF Edited, IsAdmin, IsActive
<1>5. CASE q.verb = "reset"
  BY <1>1, <1>5, TemporaryIs DEF Edited, IsAdmin, IsActive
<1>6. CASE q.verb = "link"
  BY <1>1, <1>6, LinkSentIs DEF Edited, IsAdmin, IsActive
<1>7. QED
  BY <1>1, <1>2, <1>3, <1>4, <1>5, <1>6 DEF Verbs

\* What a check lets through is sound.
LEMMA CheckedIs ==
    ASSUME NEW q \in Queries, q.at = "read", Sound(q), NEW form \in Forms, Allowed(q, form),
           form.status # "active" => q.verb = "update",
           form.admin \/ form.manage => q.verb \in {"create", "update"}
    PROVE  /\ [q EXCEPT !.at = "checked", !.new = Edited(q, form)] \in Queries
           /\ Sound([q EXCEPT !.at = "checked", !.new = Edited(q, form)])
<1> DEFINE new == Edited(q, form)
           p == [q EXCEPT !.at = "checked", !.new = new]
<1>1. /\ q.verb \in Verbs
      /\ IF q.verb = "create" THEN q.target = NoUser /\ q.seen = NoAccount
         ELSE q.target \in Users /\ q.seen \in Accounts
  BY DEF Sound, ReadsItsTarget
<1>2. CASE q.verb = "create"
  <2>1. new = Created(q, form)
    BY <1>2 DEF Edited
  <2>2. new \in Accounts /\ (new.admin \/ new.manage => q.asAdmin)
    BY <2>1, CreatedIs
  <2>3. p \in Queries /\ p.at = "checked" /\ p.new = new /\ p.verb = q.verb /\ p.target = q.target
        /\ p.seen = q.seen /\ p.asAdmin = q.asAdmin
    BY <2>2 DEF Queries, Rows
  <2>4. QED
    BY <1>1, <1>2, <2>2, <2>3, AccountsAssumption
       DEF Sound, ReadsItsTarget, Writes, RaisesByAdmin, WakesOnPurpose, SparesConfig
<1>3. CASE q.verb = "delete"
  <2>1. new = NoAccount
    BY <1>3 DEF Edited
  <2>2. p \in Queries /\ p.at = "checked" /\ p.verb = q.verb /\ p.target = q.target /\ p.seen = q.seen
    BY <2>1, NoAccountIs DEF Queries
  <2>3. q.target # Config
    BY <1>3, SparedByAll
  <2>4. QED
    BY <1>1, <1>3, <2>2, <2>3 DEF Sound, ReadsItsTarget, Writes, RaisesByAdmin, WakesOnPurpose, SparesConfig
<1>4. CASE q.verb \in {"update", "approve", "reset", "link"}
  <2>1. /\ new \in Accounts
        /\ (new.admin /\ ~q.seen.admin) \/ (new.manage /\ ~q.seen.manage) => q.asAdmin
        /\ IsActive(new) /\ ~IsActive(q.seen) => q.verb \in {"update", "approve"}
    <3>1. CASE q.verb = "update"
      BY <1>1, <3>1, UpdatedIs DEF Edited
    <3>2. CASE q.verb = "approve"
      BY <1>1, <3>2, ApprovedIs DEF Edited
    <3>3. CASE q.verb = "reset"
      BY <1>1, <3>3, TemporaryIs DEF Edited, IsActive
    <3>4. CASE q.verb = "link"
      BY <1>1, <3>4, LinkSentIs DEF Edited, IsActive
    <3>5. QED
      BY <1>4, <3>1, <3>2, <3>3, <3>4
  <2>2. p \in Queries /\ p.at = "checked" /\ p.new = new /\ p.verb = q.verb /\ p.target = q.target
        /\ p.seen = q.seen /\ p.asAdmin = q.asAdmin
    BY <2>1 DEF Queries, Rows
  <2>3. q.target = Config => IsAdmin(q.seen) /\ IsAdmin(new)
    BY SparedByAll DEF Sound, SparesConfig
  <2>4. QED
    BY <1>1, <1>4, <2>1, <2>2, <2>3 DEF Sound, ReadsItsTarget, Writes, RaisesByAdmin, WakesOnPurpose, SparesConfig
<1>5. QED
  BY <1>1, <1>2, <1>3, <1>4 DEF Verbs

---------------------------------------------------------------------------
(* Steps                                                                   *)

LEMMA Types == AccountsTypeOK <=> /\ account \in [Users -> Rows]
                          /\ left \in 0 .. EditRequests
                          /\ request \in [Requests -> Queries]
  BY DEF AccountsTypeOK, Rows, Queries

\* One request changes, and the others are what they were.
LEMMA RequestChanges ==
    ASSUME AccountsTypeOK, \A s \in Requests : Sound(request[s]),
           NEW r \in Requests, NEW q \in Queries, Sound(q), request' = [request EXCEPT ![r] = q]
    PROVE  /\ request' \in [Requests -> Queries]
           /\ \A s \in Requests : Sound(request'[s])
<1>1. \A s \in Requests : request'[s] = IF s = r THEN q ELSE request[s]
  BY Types
<1>2. QED
  BY <1>1, Types

\* One account changes, and the others are what they were.
LEMMA AccountChanges ==
    ASSUME AccountsTypeOK, NEW u \in Users, NEW a \in Rows, account' = [account EXCEPT ![u] = a]
    PROVE  /\ account' \in [Users -> Rows]
           /\ \A v \in Users : account'[v] = IF v = u THEN a ELSE account[v]
  BY Types

\* What an account does for itself changes neither its role, nor what it manages.
LEMMA OwnStep ==
    ASSUME AccountsInv, NEW u \in Users,
           Register(u) \/ ForgotPassword(u) \/ LinkExpires(u) \/ ResetByLink(u) \/ ChangePassword(u)
    PROVE  /\ account' \in [Users -> Rows]
           /\ \A v \in Users : /\ account'[v].admin = account[v].admin
                               /\ account'[v].manage = account[v].manage
                               /\ IsActive(account'[v]) <=> IsActive(account[v])
           /\ UNCHANGED <<request, left>>
<1>1. PICK a \in Rows : /\ account' = [account EXCEPT ![u] = a]
                        /\ a.admin = account[u].admin /\ a.manage = account[u].manage
                        /\ IsActive(a) <=> IsActive(account[u])
  <2>1. account[u] \in Rows
    BY Types DEF AccountsInv
  <2>2. CASE Register(u)
    <3> DEFINE a == [NoAccount EXCEPT !.status = "pending"]
    <3>1. a \in Rows /\ a.admin = FALSE /\ a.manage = FALSE /\ a.status = "pending"
      BY DEF NoAccount, Rows, Accounts, Statuses
    <3>2. account[u] = NoAccount /\ account' = [account EXCEPT ![u] = a]
      BY <2>2 DEF Register, Exists
    <3>3. account[u].admin = FALSE /\ account[u].manage = FALSE /\ account[u].status = "none"
      BY <3>2 DEF NoAccount
    <3> HIDE DEF a
    <3>4. QED
      BY <3>1, <3>2, <3>3 DEF IsActive
  <2>3. CASE ForgotPassword(u)
    <3>1. account[u] \in Accounts
      BY <2>1, <2>3 DEF ForgotPassword, IsActive, Rows, NoAccount
    <3>2. account' = [account EXCEPT ![u] = [account[u] EXCEPT !.link = TRUE]]
      BY <2>3 DEF ForgotPassword
    <3>3. [account[u] EXCEPT !.link = TRUE] \in Rows
      BY <3>1 DEF Accounts, Rows
    <3>4. QED
      BY <3>1, <3>2, <3>3 DEF Accounts, IsActive
  <2>4. CASE LinkExpires(u)
    <3>1. account[u] \in Accounts
      BY <2>1, <2>4 DEF LinkExpires, Rows, NoAccount
    <3>2. account' = [account EXCEPT ![u] = [account[u] EXCEPT !.link = FALSE]]
      BY <2>4 DEF LinkExpires
    <3>3. [account[u] EXCEPT !.link = FALSE] \in Rows
      BY <3>1 DEF Accounts, Rows
    <3>4. QED
      BY <3>1, <3>2, <3>3 DEF Accounts, IsActive
  <2>5. CASE ResetByLink(u)
    <3>1. account[u] \in Accounts
      BY <2>1, <2>5 DEF ResetByLink, Rows, NoAccount
    <3>2. account' = [account EXCEPT ![u] = [account[u] EXCEPT !.link = FALSE, !.change = FALSE]]
      BY <2>1, <2>5, Types DEF ResetByLink, AccountsInv
    <3>3. [account[u] EXCEPT !.link = FALSE, !.change = FALSE] \in Rows
      BY <3>1 DEF Accounts, Rows
    <3>4. QED
      BY <3>1, <3>2, <3>3 DEF Accounts, IsActive
  <2>6. CASE ChangePassword(u)
    <3>1. account[u] \in Accounts
      BY <2>1, <2>6 DEF ChangePassword, Rows, NoAccount
    <3>2. account' = [account EXCEPT ![u] = [account[u] EXCEPT !.change = FALSE]]
      BY <2>6 DEF ChangePassword
    <3>3. [account[u] EXCEPT !.change = FALSE] \in Rows
      BY <3>1 DEF Accounts, Rows
    <3>4. QED
      BY <3>1, <3>2, <3>3 DEF Accounts, IsActive
  <2>7. QED
    BY <2>2, <2>3, <2>4, <2>5, <2>6
<1>2. UNCHANGED <<request, left>>
  BY DEF Register, ForgotPassword, LinkExpires, ResetByLink, ChangePassword
<1>3. QED
  BY <1>1, <1>2, AccountChanges DEF AccountsInv

\* What an edit writes, where the account is still there.
LEMMA EditWrites ==
    ASSUME AccountsInv, NEW r \in Requests, EditUser(r)
    PROVE  /\ account' \in [Users -> Rows]
           /\ \/ account' = account
              \/ /\ request[r].target \in Users
                 /\ request[r].seen \in Accounts /\ request[r].new \in Accounts
                 /\ account[request[r].target] \in Accounts
                 /\ \A v \in Users : account'[v] = IF v = request[r].target
                                                   THEN Written(request[r].seen, request[r].new, account[v])
                                                   ELSE account[v]
<1> DEFINE q == request[r]
           a == Written(q.seen, q.new, account[q.target])
<1>1. q.at = "checked" /\ q.verb \in {"update", "approve", "reset", "link"}
  BY DEF EditUser
<1>2. q.target \in Users /\ q.seen \in Accounts /\ q.new \in Accounts
  BY <1>1 DEF AccountsInv, Sound, ReadsItsTarget, Writes
<1>3. CASE account' = account
  BY <1>3, Types DEF AccountsInv
<1>4. CASE account' # account
  <2>1. Exists(q.target) /\ account' = [account EXCEPT ![q.target] = a]
    BY <1>4 DEF EditUser, CommitUnlessOrphans
  <2>2. account[q.target] \in Accounts
    BY <1>2, <2>1, Types DEF AccountsInv, Exists, Rows
  <2>3. a \in Rows
    BY <1>2, <2>2, WrittenIs DEF Rows
  <2>4. /\ account' \in [Users -> Rows]
        /\ \A v \in Users : account'[v] = IF v = q.target THEN a ELSE account[v]
    BY <1>2, <2>1, <2>3, AccountChanges DEF AccountsInv
  <2>5. QED
    BY <1>2, <2>2, <2>4
<1>5. QED
  BY <1>3, <1>4

\* A restart changes nothing about the accounts while the configured administrator is one.
LEMMA StartupKeeps == ASSUME AccountsInv, Startup PROVE account' = account
<1>1. account[Config] \in Rows /\ account[Config].status = "active" /\ account[Config].admin = TRUE
  BY Types, AccountsAssumption DEF AccountsInv, ConfigRemains, IsAdmin, IsActive, Rows, Accounts, NoAccount
<1>2. account[Config] # NoAccount
  BY <1>1 DEF NoAccount
<1>3. [account[Config] EXCEPT !.status = "active", !.admin = TRUE] = account[Config]
  BY <1>1, <1>2 DEF Rows, Accounts
<1>4. account' = [account EXCEPT ![Config] = [account[Config] EXCEPT !.status = "active", !.admin = TRUE]]
  BY <1>2 DEF Startup, SeedAdmin
<1>5. QED
  BY <1>3, <1>4, Types DEF AccountsInv

---------------------------------------------------------------------------
(* The invariant                                                           *)

LEMMA AccountsInvInit == AccountsInit => AccountsInv
<1> SUFFICES ASSUME AccountsInit PROVE AccountsInv
  OBVIOUS
<1>1. [NoAccount EXCEPT !.status = "active", !.admin = TRUE] \in Rows
      /\ IsAdmin([NoAccount EXCEPT !.status = "active", !.admin = TRUE])
  BY DEF NoAccount, Rows, Accounts, Statuses, IsAdmin, IsActive
<1>2. account = [[u \in Users |-> NoAccount] EXCEPT
                    ![Config] = [NoAccount EXCEPT !.status = "active", !.admin = TRUE]]
  BY AccountsAssumption DEF AccountsInit, SeedAdmin
<1>3. account \in [Users -> Rows] /\ IsAdmin(account[Config])
  BY <1>1, <1>2, NoAccountIs, AccountsAssumption
<1>4. request \in [Requests -> Queries] /\ \A r \in Requests : Sound(request[r])
  BY NoRequestIs DEF AccountsInit
<1>5. left \in 0 .. EditRequests
  BY AccountsAssumption DEF AccountsInit
<1>6. QED
  BY <1>3, <1>4, <1>5, Types DEF AccountsInv, ConfigRemains

LEMMA AccountsInvNext == AccountsInv /\ [AccountsNext]_accountVars => AccountsInv'
<1> SUFFICES ASSUME AccountsInv, [AccountsNext]_accountVars PROVE AccountsInv'
  OBVIOUS
<1> USE DEF ConfigRemains
<1>0. /\ account \in [Users -> Rows] /\ left \in 0 .. EditRequests /\ request \in [Requests -> Queries]
      /\ AccountsTypeOK /\ \A r \in Requests : Sound(request[r])
  BY Types DEF AccountsInv
<1>a. ASSUME account' \in [Users -> Rows], left' \in 0 .. EditRequests, request' \in [Requests -> Queries],
             \A r \in Requests : Sound(request'[r]), IsAdmin(account'[Config])
      PROVE  AccountsInv'
  BY <1>a, Types DEF AccountsInv, AccountsTypeOK, Sound, ReadsItsTarget, Writes, RaisesByAdmin, WakesOnPurpose, SparesConfig,
                     Rows, Queries, IsAdmin, IsActive
<1>i. ASSUME NEW r \in Requests, request' = [request EXCEPT ![r] = NoRequest]
      PROVE  request' \in [Requests -> Queries] /\ \A s \in Requests : Sound(request'[s])
  BY <1>0, <1>i, RequestChanges, NoRequestIs
<1>1. ASSUME NEW u \in Users,
             Register(u) \/ ForgotPassword(u) \/ LinkExpires(u) \/ ResetByLink(u) \/ ChangePassword(u)
      PROVE  AccountsInv'
  <2>1. account' \in [Users -> Rows] /\ IsAdmin(account'[Config])
    BY <1>1, OwnStep, AccountsAssumption DEF AccountsInv, IsAdmin
  <2>2. UNCHANGED <<request, left>>
    BY <1>1, OwnStep
  <2>3. QED
    BY <1>0, <1>a, <2>1, <2>2
<1>2. ASSUME NEW r \in Requests, NEW u \in Users, NEW verb \in Verbs, NEW target \in Users \cup {NoUser},
             Begin(r, u, verb, target)
      PROVE  AccountsInv'
  <2> DEFINE q == [at |-> "read", verb |-> verb, me |-> u, asAdmin |-> IsAdmin(account[u]),
                   target |-> target, seen |-> IF target = NoUser THEN NoAccount ELSE account[target],
                   new |-> NoAccount]
  <2>1. request' = [request EXCEPT ![r] = q] /\ account' = account /\ left' = left - 1 /\ left > 0
    BY <1>2 DEF Begin
  <2>2. /\ q.seen \in Rows
        /\ IF verb = "create" THEN target = NoUser /\ q.seen = NoAccount
           ELSE target \in Users /\ q.seen \in Accounts
        /\ target = Config => q.seen = account[Config]
    BY <1>0, <1>2, NoAccountIs, AccountsAssumption DEF Begin, Exists, Rows
  <2>3. IsAdmin(account[u]) \in BOOLEAN
    BY <1>0 DEF IsAdmin, IsActive, Rows, Accounts, NoAccount
  <2>4. q \in Queries
    BY <2>2, <2>3, NoAccountIs DEF Queries
  <2>5. Sound(q)
    BY <2>2 DEF Sound, ReadsItsTarget, Writes, RaisesByAdmin, WakesOnPurpose, SparesConfig, AccountsInv
  <2>6. request' \in [Requests -> Queries] /\ \A s \in Requests : Sound(request'[s])
    <3> HIDE DEF q
    <3>1. QED
      BY <1>0, <2>1, <2>4, <2>5, RequestChanges
  <2>7. left' \in 0 .. EditRequests
    BY <1>0, <2>1, AccountsAssumption
  <2>8. QED
    BY <1>0, <1>a, <2>1, <2>6, <2>7 DEF AccountsInv
<1>3. ASSUME NEW r \in Requests, NEW form \in Forms, Check(r, form) PROVE AccountsInv'
  <2> DEFINE q == request[r]
             p == [q EXCEPT !.at = "checked", !.new = Edited(q, form)]
  <2>1. /\ q \in Queries /\ Sound(q) /\ q.at = "read"
        /\ form.status # "active" => q.verb = "update"
        /\ form.admin \/ form.manage => q.verb \in {"create", "update"}
        /\ UNCHANGED <<account, left>>
    BY <1>0, <1>3 DEF Check
  <2>2. CASE Allowed(q, form)
    <3>1. p \in Queries /\ Sound(p)
      BY <2>1, <2>2, CheckedIs
    <3>2. request' = [request EXCEPT ![r] = p]
      BY <1>3, <2>2 DEF Check
    <3> HIDE DEF p
    <3>3. request' \in [Requests -> Queries] /\ \A s \in Requests : Sound(request'[s])
      BY <1>0, <3>1, <3>2, RequestChanges
    <3>4. QED
      BY <1>0, <1>a, <2>1, <3>3 DEF AccountsInv
  <2>3. CASE ~Allowed(q, form)
    <3>1. request' = [request EXCEPT ![r] = NoRequest]
      BY <1>3, <2>3 DEF Check
    <3>2. QED
      BY <1>0, <1>a, <1>i, <2>1, <3>1 DEF AccountsInv
  <2>4. QED
    BY <2>2, <2>3
<1>4. ASSUME NEW r \in Requests, CreateUser(r) PROVE AccountsInv'
  <2>1. PICK u \in Users : ~Exists(u) /\ account' = [account EXCEPT ![u] = request[r].new]
    BY <1>4 DEF CreateUser
  <2>2. request[r].new \in Rows
    BY <1>0 DEF Queries
  <2>3. /\ account' \in [Users -> Rows]
        /\ \A v \in Users : account'[v] = IF v = u THEN request[r].new ELSE account[v]
    BY <1>0, <2>1, <2>2, AccountChanges
  <2>4. u # Config
    BY <2>1, NoAccountIs DEF Exists, AccountsInv
  <2>5. IsAdmin(account'[Config])
    BY <2>3, <2>4, AccountsAssumption DEF AccountsInv
  <2>6. QED
    BY <1>0, <1>4, <1>a, <1>i, <2>3, <2>5 DEF CreateUser
<1>5. ASSUME NEW r \in Requests, EditUser(r) PROVE AccountsInv'
  <2> DEFINE q == request[r]
  <2>1. account' \in [Users -> Rows]
    BY <1>5, EditWrites
  <2>2. IsAdmin(account'[Config])
    <3>1. CASE account' = account
      BY <3>1 DEF AccountsInv
    <3>2. CASE account' # account /\ q.target # Config
      BY <1>5, <3>2, EditWrites, AccountsAssumption DEF AccountsInv
    <3>3. CASE account' # account /\ q.target = Config
      <4>1. /\ q.seen \in Accounts /\ q.new \in Accounts /\ account[Config] \in Accounts
            /\ account'[Config] = Written(q.seen, q.new, account[Config])
        BY <1>5, <3>3, EditWrites, AccountsAssumption
      <4>2. IsAdmin(q.seen) /\ IsAdmin(q.new) /\ IsAdmin(account[Config])
        BY <1>0, <1>5, <3>3 DEF EditUser, Sound, SparesConfig, AccountsInv
      <4>3. QED
        BY <4>1, <4>2, WrittenIs DEF IsAdmin, IsActive
    <3>4. QED
      BY <3>1, <3>2, <3>3
  <2>3. QED
    BY <1>0, <1>5, <1>a, <1>i, <2>1, <2>2 DEF EditUser
<1>6. ASSUME NEW r \in Requests, DeleteUser(r) PROVE AccountsInv'
  <2> DEFINE q == request[r]
  <2>1. q.target \in Users /\ q.target # Config
    BY <1>0, <1>6 DEF DeleteUser, Sound, ReadsItsTarget, SparesConfig
  <2>2. account' = account \/ account' = [account EXCEPT ![q.target] = NoAccount]
    BY <1>6 DEF DeleteUser, CommitUnlessOrphans
  <2>3. account' \in [Users -> Rows] /\ account'[Config] = account[Config]
    BY <1>0, <2>1, <2>2, AccountChanges, NoAccountIs, AccountsAssumption
  <2>4. QED
    BY <1>0, <1>6, <1>a, <1>i, <2>3 DEF DeleteUser, AccountsInv
<1>7. ASSUME Startup PROVE AccountsInv'
  <2>1. request' \in [Requests -> Queries] /\ \A s \in Requests : Sound(request'[s])
    BY <1>7, NoRequestIs DEF Startup
  <2>2. account' = account /\ left' = left
    BY <1>7, StartupKeeps DEF Startup
  <2>3. QED
    BY <1>0, <1>a, <2>1, <2>2 DEF AccountsInv
<1>8. CASE UNCHANGED accountVars
  BY <1>0, <1>8, <1>a DEF accountVars, AccountsInv
<1>9. QED
  BY <1>1, <1>2, <1>3, <1>4, <1>5, <1>6, <1>7, <1>8 DEF AccountsNext

---------------------------------------------------------------------------
(* The theorems                                                            *)

\* Accounts and the requests under way on them are as the tables and handlers hold them,
\* and what is under way is sound: what it read was there, it raises nobody unless an
\* administrator asked, and it spares the configured administrator.
THEOREM AccountsInvariant == AccountsSpec => []AccountsInv
<1>1. AccountsInit => AccountsInv
  BY AccountsInvInit
<1>2. AccountsInv /\ [AccountsNext]_accountVars => AccountsInv'
  BY AccountsInvNext
<1>3. QED
  BY <1>1, <1>2, PTL DEF AccountsSpec

\* The type invariant.
THEOREM AccountsTyped == AccountsSpec => []AccountsTypeOK
<1>1. AccountsInv => AccountsTypeOK
  BY DEF AccountsInv
<1>2. QED
  BY <1>1, AccountsInvariant, PTL

\* The configured administrator's account is always there, an administrator and active,
\* whatever any number of requests on accounts do together.
THEOREM ConfigStays == AccountsSpec => []ConfigRemains
<1>1. AccountsInv => ConfigRemains
  BY DEF AccountsInv
<1>2. QED
  BY <1>1, AccountsInvariant, PTL

\* One step gives nobody a rank but by an administrator's request, and makes nobody
\* active but by a request to create, update or approve.
LEMMA RanksStepHolds == AccountsInv /\ [AccountsNext]_accountVars => RanksStep \/ UNCHANGED accountVars
<1> SUFFICES ASSUME AccountsInv, AccountsNext PROVE RanksStep
  OBVIOUS
<1>0. /\ account \in [Users -> Rows] /\ request \in [Requests -> Queries]
      /\ AccountsTypeOK /\ \A r \in Requests : Sound(request[r])
  BY Types DEF AccountsInv
<1>a. ASSUME account' = account PROVE RanksStep
  BY <1>a DEF RanksStep
<1>1. ASSUME NEW u \in Users,
             Register(u) \/ ForgotPassword(u) \/ LinkExpires(u) \/ ResetByLink(u) \/ ChangePassword(u)
      PROVE  RanksStep
  BY <1>1, OwnStep DEF RanksStep
<1>2. ASSUME NEW r \in Requests, CreateUser(r) PROVE RanksStep
  <2> DEFINE q == request[r]
  <2>1. PICK u \in Users : ~Exists(u) /\ account' = [account EXCEPT ![u] = q.new]
    BY <1>2 DEF CreateUser
  <2>2. q.new \in Accounts /\ q.seen = NoAccount /\ q.verb = "create" /\ Commits(r)
    BY <1>0, <1>2 DEF CreateUser, Sound, Writes, ReadsItsTarget, Commits
  <2>3. \A v \in Users : account'[v] = IF v = u THEN q.new ELSE account[v]
    BY <1>0, <2>1, <2>2, AccountChanges DEF Rows
  <2>4. q.new.admin \/ q.new.manage => q.asAdmin
    BY <1>0, <2>2 DEF Commits, Sound, RaisesByAdmin, Writes, NoAccount
  <2>5. q.asAdmin => ByAdmin
    BY <2>2 DEF ByAdmin
  <2>6. \E s \in Requests : Commits(s) /\ request[s].verb \in {"create", "update", "approve"}
    BY <2>2
  <2>7. QED
    BY <2>3, <2>4, <2>5, <2>6 DEF RanksStep
<1>3. ASSUME NEW r \in Requests, EditUser(r), account' # account PROVE RanksStep
  <2> DEFINE q == request[r]
             there == account[q.target]
             w == Written(q.seen, q.new, there)
  <2>1. /\ q.seen \in Accounts /\ q.new \in Accounts /\ there \in Accounts
        /\ \A v \in Users : account'[v] = IF v = q.target THEN w ELSE account[v]
    BY <1>3, EditWrites
  <2>2. Writes(q) /\ Commits(r)
    BY <1>0, <1>3 DEF EditUser, Writes, Commits
  <2>3. (w.admin /\ ~there.admin) \/ (w.manage /\ ~there.manage) => q.asAdmin
    <3>1. (w.admin /\ ~there.admin) \/ (w.manage /\ ~there.manage) =>
             (q.new.admin /\ ~q.seen.admin) \/ (q.new.manage /\ ~q.seen.manage)
      BY <2>1, WrittenIs DEF Accounts
    <3>2. QED
      BY <1>0, <2>2, <3>1 DEF Sound, RaisesByAdmin
  <2>4. IsActive(w) /\ ~IsActive(there) => q.verb \in {"create", "update", "approve"}
    <3>1. IsActive(w) /\ ~IsActive(there) => IsActive(q.new) /\ ~IsActive(q.seen)
      BY <2>1, WrittenIs DEF IsActive
    <3>2. QED
      BY <1>0, <2>2, <3>1 DEF Sound, WakesOnPurpose
  <2>5. q.asAdmin => ByAdmin
    BY <2>2 DEF ByAdmin
  <2>6. ASSUME NEW v \in Users
        PROVE  /\ (account'[v].admin /\ ~account[v].admin) \/ (account'[v].manage /\ ~account[v].manage) => ByAdmin
               /\ IsActive(account'[v]) /\ ~IsActive(account[v]) =>
                     \E s \in Requests : Commits(s) /\ request[s].verb \in {"create", "update", "approve"}
    <3>1. CASE v = q.target
      BY <2>1, <2>2, <2>3, <2>4, <2>5, <3>1
    <3>2. CASE v # q.target
      BY <2>1, <3>2
    <3>3. QED
      BY <3>1, <3>2
  <2>7. QED
    BY <2>6 DEF RanksStep
<1>4. ASSUME NEW r \in Requests, DeleteUser(r) PROVE RanksStep
  <2> DEFINE q == request[r]
  <2>1. q.target \in Users
    BY <1>0, <1>4 DEF DeleteUser, Sound, ReadsItsTarget
  <2>2. account' = account \/ account' = [account EXCEPT ![q.target] = NoAccount]
    BY <1>4 DEF DeleteUser, CommitUnlessOrphans
  <2>3. \A v \in Users : account'[v] = account[v] \/ account'[v] = NoAccount
    BY <1>0, <2>1, <2>2
  <2>4. NoAccount.admin = FALSE /\ NoAccount.manage = FALSE /\ ~IsActive(NoAccount)
    BY DEF NoAccount, IsActive
  <2>5. QED
    BY <2>3, <2>4 DEF RanksStep
<1>5. QED
  BY <1>1, <1>2, <1>3, <1>4, <1>a, StartupKeeps DEF AccountsNext, Begin, Check

\* Nobody becomes an administrator, or gets to manage users, but by an administrator's
\* request, and nobody becomes active but by a request on accounts that says so, however
\* the requests interleave and whoever is given an account id again.
THEOREM Ranks == AccountsSpec => RanksHold
<1>1. AccountsInv /\ [AccountsNext]_accountVars => RanksStep \/ UNCHANGED accountVars
  BY RanksStepHolds
<1>2. QED
  BY <1>1, AccountsInvariant, PTL DEF AccountsSpec, RanksHold

-----------------------------------------------------------------------------
(* Keys, Requests and Tickets. *)

---------------------------------------------------------------------------
\* The keys.

Rights == [write : BOOLEAN, expires : 1..Never]
AllRows == UNION {[S -> Rights] : S \in SUBSET Secrets}
CallStates ==
    [at : {"out", "read", "store", "look", "in"}, ask : {"any", "match", "write"}, key : Secrets,
     began : 0..MaxTime, write : BOOLEAN, rows : AllRows]

KeysTyped ==
    /\ scope \in SCOPES
    /\ now \in 1..MaxTime
    /\ row \in AllRows
    /\ cache.at \in 0..MaxTime /\ cache.rows \in AllRows
    /\ call \in [Calls -> CallStates]
    /\ held \in [Secrets -> [1..Never -> 0..MaxTime]]

\* The table has the key with this expiry; or it had, at that time or later.
Stands(k, e) == k \in DOMAIN row /\ row[k].expires = e
StoodAt(k, e, time) == held[k][e] > 0 /\ held[k][e] >= time
StoodNear(k, e, time) == held[k][e] > 0 /\ held[k][e] + TTL >= time

\* What is cached was in the table when it was read, and may have gone since.
CacheKnown ==
    /\ cache.at <= now
    /\ \A k \in DOMAIN cache.rows :
          Stands(k, cache.rows[k].expires) \/ StoodAt(k, cache.rows[k].expires, cache.at)

\* The rows of a lookup may be older than the lookup, by the time that rows are cached for;
\* those that will be cached are not.
Known(state) ==
    /\ state.began <= now
    /\ \A k \in DOMAIN state.rows :
          Stands(k, state.rows[k].expires) \/ StoodNear(k, state.rows[k].expires, state.began)
    /\ state.at = "store" => \A k \in DOMAIN state.rows :
          Stands(k, state.rows[k].expires) \/ StoodAt(k, state.rows[k].expires, state.began)

KeysInv == KeysTyped /\ CacheKnown /\ \A c \in Calls : Known(call[c])

---------------------------------------------------------------------------
\* The tickets.

Servers == {Server(body) : body \in Bodies}
TicketIds == {Ticket(body) : body \in Bodies}
CommitRecords == [server : Servers, ticket : TicketIds]
Ended == {"done", "tell", "answer"}

\* A result is the record of its fields.
Result(j) ==
    [at |-> j.at, call |-> j.call, server |-> j.server, ticket |-> j.ticket, applies |-> j.applies,
     host |-> j.host, commit |-> j.commit, replayed |-> j.replayed]

TicketsTyped ==
    /\ job.at \in {"idle", "body", "asked"} \cup Ended
    /\ job.at = "body" => job.body \in Bodies
    /\ job.at = "asked" => job.server \in Servers /\ job.ticket \in TicketIds
    /\ job.at \in Ended => job = Result(job) /\ job.commit \in 0..Len(commits)
    /\ commits \in Seq(CommitRecords)
    /\ told \in Seq(Nat) /\ Len(told) = Len(commits)

\* What is remembered of a ticket is a commit of that ticket on that server.
KeptIsItsOwn ==
    \A k \in DOMAIN kept :
        kept[k] \in 1..Len(commits) /\ commits[kept[k]] = [server |-> k[1], ticket |-> k[2]]

\* A commit whose call-back is still to come has not been pushed back.
StillToTell == job.at \in {"done", "tell"} /\ ~job.replayed /\ job.commit > 0 => told[job.commit] = 0

TicketsInv == TicketsTyped /\ KeptIsItsOwn /\ AnswersItsServer /\ StillToTell /\ ToldOnce

IInv == KeysInv /\ TicketsInv

---------------------------------------------------------------------------
\* What the proofs use of the constants and of rows.

LEMMA Bounds == MaxTime \in Nat /\ TTL \in Nat /\ Never = MaxTime + 1 /\ Token \in Secrets
BY KeysAssumption DEF Never

LEMMA RowsAre ==
    ASSUME NEW r \in AllRows
    PROVE  DOMAIN r \subseteq Secrets /\ \A k \in DOMAIN r : r[k] \in Rights /\ r[k].expires \in 1..Never
<1>1. PICK S \in SUBSET Secrets : r \in [S -> Rights]
  BY DEF AllRows
<1>2. \A k \in DOMAIN r : r[k] \in Rights
  BY <1>1
<1>3. \A x \in Rights : x.expires \in 1..Never
  BY DEF Rights
<1> QED
  BY <1>1, <1>2, <1>3

LEMMA RowsMade ==
    ASSUME NEW S \in SUBSET Secrets, NEW r \in [S -> Rights]
    PROVE  r \in AllRows
BY DEF AllRows

LEMMA NoRowsAre == NoRows \in AllRows /\ DOMAIN NoRows = {}
<1>1. NoRows \in [{} -> Rights]
  BY DEF NoRows
<1> QED
  BY <1>1, RowsMade

LEMMA OutIs == Out \in CallStates /\ Out.at = "out" /\ Out.began = 0 /\ DOMAIN Out.rows = {}
BY NoRowsAre, Bounds DEF Out, CallStates

LEMMA WithIs ==
    ASSUME KeysTyped, NEW k \in Secrets, NEW write \in BOOLEAN, NEW expires \in 1..Never
    PROVE  With(k, write, expires) \in AllRows
<1>1. DOMAIN row \subseteq Secrets /\ \A s \in DOMAIN row : row[s] \in Rights
  BY RowsAre DEF KeysTyped
<1>2. DOMAIN row \cup {k} \in SUBSET Secrets
  BY <1>1
<1>3. [write |-> write, expires |-> expires] \in Rights
  BY DEF Rights
<1>4. With(k, write, expires) \in [DOMAIN row \cup {k} -> Rights]
  BY <1>1, <1>3 DEF With
<1> QED
  BY <1>2, <1>4, RowsMade

---------------------------------------------------------------------------
\* The steps of the keys.

\* A change of the table lets what stood there stand, or has it in the history as of now.
LEMMA ChangeKeeps ==
    ASSUME KeysInv, NEW rows \in AllRows, Change(rows)
    PROVE  KeysInv'
<1> USE Bounds
<1>1. now \in 1..MaxTime /\ row \in AllRows /\ held \in [Secrets -> [1..Never -> 0..MaxTime]]
  BY DEF KeysInv, KeysTyped
<1>2. \A k \in DOMAIN row : k \in Secrets /\ row[k].expires \in 1..Never
  BY <1>1, RowsAre
<1>3. /\ held' = [k \in Secrets |->
                    IF k \in DOMAIN row THEN [held[k] EXCEPT ![row[k].expires] = now] ELSE held[k]]
      /\ now' = now /\ scope' = scope /\ cache' = cache /\ call' = call /\ row' = rows
  BY DEF Change
<1>4. ASSUME NEW k \in Secrets PROVE held'[k] \in [1..Never -> 0..MaxTime]
  <2>1. held[k] \in [1..Never -> 0..MaxTime]
    BY <1>1
  <2> QED
    BY <1>1, <1>2, <1>3, <2>1
<1>5. held' \in [Secrets -> [1..Never -> 0..MaxTime]]
  BY <1>3, <1>4
<1>6. KeysTyped'
  BY <1>3, <1>5 DEF KeysInv, KeysTyped
<1>7. ASSUME NEW k \in Secrets, NEW e \in 1..Never
      PROVE  /\ held[k][e] \in 0..MaxTime
             /\ held'[k][e] = held[k][e] \/ held'[k][e] = now
             /\ Stands(k, e) => held'[k][e] = now
  <2>1. held[k] \in [1..Never -> 0..MaxTime]
    BY <1>1
  <2>2. CASE k \notin DOMAIN row
    BY <1>3, <2>1, <2>2 DEF Stands
  <2>3. CASE k \in DOMAIN row
    <3>1. held'[k] = [held[k] EXCEPT ![row[k].expires] = now]
      BY <1>3, <2>3
    <3> QED
      BY <1>1, <1>2, <2>1, <2>3, <3>1 DEF Stands
  <2> QED
    BY <2>2, <2>3
<1>8. ASSUME NEW k \in Secrets, NEW e \in 1..Never, NEW time \in 0..MaxTime, time <= now,
             Stands(k, e) \/ StoodAt(k, e, time)
      PROVE  held'[k][e] > 0 /\ held'[k][e] >= time
  <2>4. time <= now
    BY <1>8
  <2>1. held[k][e] \in 0..MaxTime /\ (held'[k][e] = held[k][e] \/ held'[k][e] = now)
    BY <1>7
  <2>2. CASE Stands(k, e)
    <3>1. held'[k][e] = now
      BY <1>7, <2>2
    <3> QED
      BY <1>1, <2>4, <3>1
  <2>3. CASE StoodAt(k, e, time)
    <3>1. held[k][e] > 0 /\ held[k][e] >= time
      BY <2>3 DEF StoodAt
    <3> QED
      BY <1>1, <2>1, <2>4, <3>1
  <2> QED
    BY <1>8, <2>2, <2>3
<1>9. ASSUME NEW k \in Secrets, NEW e \in 1..Never, NEW time \in 0..MaxTime, time <= now,
             Stands(k, e) \/ StoodNear(k, e, time)
      PROVE  held'[k][e] > 0 /\ held'[k][e] + TTL >= time
  <2>4. time <= now
    BY <1>9
  <2>1. held[k][e] \in 0..MaxTime /\ (held'[k][e] = held[k][e] \/ held'[k][e] = now)
    BY <1>7
  <2>2. CASE Stands(k, e)
    <3>1. held'[k][e] = now
      BY <1>7, <2>2
    <3> QED
      BY <1>1, <2>4, <3>1
  <2>3. CASE StoodNear(k, e, time)
    <3>1. held[k][e] > 0 /\ held[k][e] + TTL >= time
      BY <2>3 DEF StoodNear
    <3>2. held[k][e] \in Nat /\ time \in Nat /\ now \in Nat \ {0} /\ TTL \in Nat
      BY <1>1, <2>1
    <3>3. CASE held'[k][e] = held[k][e]
      BY <3>1, <3>3
    <3>4. CASE held'[k][e] = now
      BY <2>4, <3>2, <3>4
    <3> QED
      BY <2>1, <3>3, <3>4
  <2> QED
    BY <1>9, <2>2, <2>3
<1>10. CacheKnown'
  <2>1. cache.at \in 0..MaxTime /\ cache.at <= now
    BY DEF KeysInv, KeysTyped, CacheKnown
  <2>2. ASSUME NEW k \in DOMAIN cache.rows
        PROVE  /\ k \in Secrets /\ cache.rows[k].expires \in 1..Never
               /\ Stands(k, cache.rows[k].expires) \/ StoodAt(k, cache.rows[k].expires, cache.at)
    BY RowsAre DEF KeysInv, KeysTyped, CacheKnown
  <2>3. ASSUME NEW k \in DOMAIN cache.rows
        PROVE  StoodAt(k, cache.rows[k].expires, cache.at)'
    <3>1. held'[k][cache.rows[k].expires] > 0 /\ held'[k][cache.rows[k].expires] >= cache.at
      BY <1>8, <2>1, <2>2 DEF StoodAt
    <3> QED
      BY <1>3, <3>1 DEF StoodAt
  <2> QED
    BY <1>3, <2>1, <2>3 DEF CacheKnown
<1>11. ASSUME NEW c \in Calls PROVE Known(call[c])'
  <2> DEFINE s == call[c]
  <2>1. s \in CallStates /\ Known(s)
    BY DEF KeysInv, KeysTyped
  <2>2. s.began \in 0..MaxTime /\ s.rows \in AllRows
    BY <2>1 DEF CallStates
  <2>3. s' = s
    BY <1>3
  <2> HIDE DEF s
  <2>4. \A k \in DOMAIN s.rows : k \in Secrets /\ s.rows[k].expires \in 1..Never
    BY <2>2, RowsAre
  <2>5. s.began <= now
    BY <2>1 DEF Known
  <2>6. ASSUME NEW k \in DOMAIN s.rows
        PROVE  held'[k][s.rows[k].expires] > 0 /\ held'[k][s.rows[k].expires] + TTL >= s.began
    BY <1>9, <2>1, <2>2, <2>4, <2>5 DEF Known, StoodNear
  <2>7. ASSUME s.at = "store", NEW k \in DOMAIN s.rows
        PROVE  held'[k][s.rows[k].expires] > 0 /\ held'[k][s.rows[k].expires] >= s.began
    BY <1>8, <2>1, <2>2, <2>4, <2>5, <2>7 DEF Known, StoodAt
  <2>8. Known(s)'
    BY <1>3, <2>3, <2>5, <2>6, <2>7 DEF Known, StoodNear, StoodAt
  <2> QED
    BY <2>8 DEF s
<1> QED
  BY <1>6, <1>10, <1>11 DEF KeysInv

\* A call that moves to a state whose rows are known.
LEMMA CallMoves ==
    ASSUME KeysInv, NEW c, NEW state \in CallStates, Known(state),
           call' = [call EXCEPT ![c] = state], UNCHANGED <<scope, now, row, cache, held>>
    PROVE  KeysInv'
<1>1. call' \in [Calls -> CallStates]
  BY DEF KeysInv, KeysTyped
<1>2. KeysTyped'
  BY <1>1 DEF KeysInv, KeysTyped
<1>3. CacheKnown'
  BY DEF KeysInv, CacheKnown, Stands, StoodAt
<1>4. ASSUME NEW d \in Calls PROVE Known(call[d])'
  <2>1. Known(call'[d])
    BY DEF KeysInv, KeysTyped
  <2> QED
    BY <2>1 DEF Known, Stands, StoodAt, StoodNear
<1> QED
  BY <1>2, <1>3, <1>4 DEF KeysInv

\* A lookup that begins has no rows, or those of a cache that is fresh.
LEMMA AskingKnown ==
    ASSUME KeysInv, NEW ask \in {"any", "match", "write"}, NEW k \in Secrets
    PROVE  Asking(ask, k) \in CallStates /\ Known(Asking(ask, k))
<1> USE Bounds
<1> DEFINE rows == IF Fresh THEN cache.rows ELSE NoRows
<1> DEFINE at == IF Fresh THEN "look" ELSE "read"
<1>1. now \in 1..MaxTime /\ cache.at \in 0..MaxTime /\ cache.rows \in AllRows /\ cache.at <= now
  BY DEF KeysInv, KeysTyped, CacheKnown
<1>2. held \in [Secrets -> [1..Never -> 0..MaxTime]]
  BY DEF KeysInv, KeysTyped
<1>3. rows \in AllRows
  BY <1>1, NoRowsAre
<1>4. ASSUME NEW s \in DOMAIN rows
      PROVE  Stands(s, rows[s].expires) \/ StoodNear(s, rows[s].expires, now)
  <2>1. Fresh /\ rows = cache.rows
    BY NoRowsAre
  <2>2. now - cache.at <= TTL
    BY <2>1 DEF Fresh
  <2>3. s \in Secrets /\ rows[s].expires \in 1..Never
    BY <1>3, RowsAre
  <2>4. held[s][rows[s].expires] \in 0..MaxTime
    BY <1>2, <2>3
  <2>5. Stands(s, rows[s].expires) \/ StoodAt(s, rows[s].expires, cache.at)
    BY <2>1 DEF KeysInv, CacheKnown
  <2> HIDE DEF rows
  <2> QED
    BY <1>1, <2>2, <2>4, <2>5 DEF StoodAt, StoodNear
<1> HIDE DEF rows
<1>5. Asking(ask, k) = [at |-> at, ask |-> ask, key |-> k, began |-> now, write |-> FALSE, rows |-> rows]
  BY DEF Asking, rows
<1>6. at \in {"look", "read"}
  OBVIOUS
<1> HIDE DEF at
<1> QED
  BY <1>1, <1>3, <1>4, <1>5, <1>6 DEF CallStates, Known

\* A call as its fields.
LEMMA CallIs ==
    ASSUME KeysInv, NEW c \in Calls
    PROVE  /\ call[c] \in CallStates /\ Known(call[c])
           /\ call[c].key \in Secrets /\ call[c].began \in 0..MaxTime
           /\ call[c].rows \in AllRows /\ call[c].began <= now
           /\ \A k \in DOMAIN call[c].rows : k \in Secrets /\ call[c].rows[k].expires \in 1..Never
<1>1. call[c] \in CallStates /\ Known(call[c])
  BY DEF KeysInv, KeysTyped
<1>2. call[c].key \in Secrets /\ call[c].began \in 0..MaxTime /\ call[c].rows \in AllRows
  BY <1>1 DEF CallStates
<1>3. \A k \in DOMAIN call[c].rows : k \in Secrets /\ call[c].rows[k].expires \in 1..Never
  BY <1>2, RowsAre
<1> QED
  BY <1>1, <1>2, <1>3 DEF Known

LEMMA ToKeeps ==
    ASSUME KeysInv, NEW c \in Calls, NEW state \in CallStates, Known(state), To(c, state)
    PROVE  KeysInv'
<1>1. call' = [call EXCEPT ![c] = state] /\ UNCHANGED <<scope, now, row, cache, held>>
  BY DEF To
<1> QED
  BY <1>1, CallMoves

\* A call that is let in holds no rows.
LEMMA EnteredKnown ==
    ASSUME KeysInv, NEW c \in Calls, NEW write \in BOOLEAN
    PROVE  Entered(c, write) \in CallStates /\ Known(Entered(c, write))
<1> DEFINE s == Entered(c, write)
<1>1. now \in 1..MaxTime /\ call[c].key \in Secrets
  BY CallIs DEF KeysInv, KeysTyped
<1>2. s \in CallStates
  BY <1>1, OutIs DEF Entered, CallStates
<1>3. s.at = "in" /\ s.began = 0 /\ DOMAIN s.rows = {}
  BY OutIs DEF Entered, CallStates
<1> HIDE DEF s
<1>4. Known(s)
  BY <1>1, <1>3 DEF Known
<1> QED
  BY <1>2, <1>4 DEF s

LEMMA OutKnown == ASSUME KeysInv PROVE Known(Out)
<1>1. now \in 1..MaxTime
  BY DEF KeysInv, KeysTyped
<1> QED
  BY <1>1, OutIs DEF Known

LEMMA ReadRowsKeeps == ASSUME KeysInv, NEW c \in Calls, ReadRows(c) PROVE KeysInv'
<1> DEFINE s == [call[c] EXCEPT !.at = "store", !.rows = row]
<1>1. row \in AllRows /\ call[c] \in CallStates /\ call[c].began <= now
  BY CallIs DEF KeysInv, KeysTyped
<1>2. s \in CallStates /\ s.at = "store" /\ s.rows = row /\ s.began = call[c].began
  BY <1>1 DEF CallStates
<1>3. To(c, s)
  BY DEF ReadRows
<1> HIDE DEF s
<1>4. Known(s)
  BY <1>1, <1>2 DEF Known, Stands
<1> QED
  BY <1>2, <1>3, <1>4, ToKeeps

LEMMA ReadFailsKeeps == ASSUME KeysInv, NEW c \in Calls, ReadFails(c) PROVE KeysInv'
<1> DEFINE s == [call[c] EXCEPT !.at = "look"]
<1>1. call[c] \in CallStates /\ Known(call[c])
  BY CallIs
<1>2. s \in CallStates /\ s.at = "look" /\ s.rows = call[c].rows /\ s.began = call[c].began
  BY <1>1 DEF CallStates
<1>3. To(c, s)
  BY DEF ReadFails
<1> HIDE DEF s
<1>4. Known(s)
  BY <1>1, <1>2 DEF Known
<1> QED
  BY <1>2, <1>3, <1>4, ToKeeps

\* The rows that are cached are kept under the time their lookup began.
LEMMA StoreKeeps == ASSUME KeysInv, NEW c \in Calls, Store(c) PROVE KeysInv'
<1> DEFINE s == [call[c] EXCEPT !.at = "look"]
<1>1. call[c] \in CallStates /\ Known(call[c]) /\ call[c].at = "store"
  BY CallIs DEF Store
<1>2. s \in CallStates /\ s.at = "look" /\ s.rows = call[c].rows /\ s.began = call[c].began
  BY <1>1 DEF CallStates
<1>3. call' = [call EXCEPT ![c] = s]
  BY DEF Store
<1>4. cache'.at = call[c].began /\ cache'.rows = call[c].rows
      /\ scope' = scope /\ now' = now /\ row' = row /\ held' = held
  BY DEF Store, Stamp
<1> HIDE DEF s
<1>5. KeysTyped'
  <2>1. call' \in [Calls -> CallStates]
    BY <1>2, <1>3 DEF KeysInv, KeysTyped
  <2>2. cache'.at \in 0..MaxTime /\ cache'.rows \in AllRows
    BY <1>4, CallIs
  <2> QED
    BY <1>4, <2>1, <2>2 DEF KeysInv, KeysTyped
<1>6. CacheKnown'
  BY <1>1, <1>4 DEF CacheKnown, Known, Stands, StoodAt
<1>7. ASSUME NEW d \in Calls PROVE Known(call[d])'
  <2>1. Known(s)
    BY <1>1, <1>2 DEF Known
  <2>2. Known(call'[d])
    BY <1>3, <2>1, CallIs DEF KeysInv, KeysTyped
  <2> QED
    BY <1>4, <2>2 DEF Known, Stands, StoodAt, StoodNear
<1> QED
  BY <1>5, <1>6, <1>7 DEF KeysInv

LEMMA AcceptKeeps == ASSUME KeysInv, NEW c \in Calls, Accept(c) PROVE KeysInv'
<1>1. call[c].key \in Secrets
  BY CallIs
<1>2. CASE scope = "mcp"
  <2>1. To(c, Asking("write", call[c].key))
    BY <1>2 DEF Accept
  <2> QED
    BY <1>1, <2>1, AskingKnown, ToKeeps
<1>3. CASE scope # "mcp"
  <2> DEFINE write == call[c].rows[call[c].key].write
  <2>1. To(c, Entered(c, write))
    BY <1>3 DEF Accept
  <2>2. call[c].key \in DOMAIN call[c].rows
    BY DEF Accept, Matches, Found, Live
  <2>3. call[c].rows[call[c].key] \in Rights
    BY <2>2, CallIs, RowsAre
  <2>4. write \in BOOLEAN
    BY <2>3 DEF Rights
  <2> HIDE DEF write
  <2> QED
    BY <2>1, <2>4, EnteredKnown, ToKeeps
<1> QED
  BY <1>2, <1>3

LEMMA MayWriteKeeps == ASSUME KeysInv, NEW c \in Calls, MayWrite(c) PROVE KeysInv'
<1> DEFINE write == Matches(c) => call[c].rows[call[c].key].write
<1>1. To(c, Entered(c, write))
  BY DEF MayWrite
<1>2. write \in BOOLEAN
  OBVIOUS
<1> HIDE DEF write
<1> QED
  BY <1>1, <1>2, EnteredKnown, ToKeeps

LEMMA DoorKeeps == ASSUME KeysInv, NEW c \in Calls, Door(c) PROVE KeysInv'
<1>1. CASE \E k \in Secrets : Present(c, k)
  <2>1. PICK k \in Secrets : To(c, Asking(IF scope = "api" THEN "match" ELSE "any", k))
    BY <1>1 DEF Present
  <2>2. (IF scope = "api" THEN "match" ELSE "any") \in {"any", "match", "write"}
    OBVIOUS
  <2> QED
    BY <2>1, <2>2, AskingKnown, ToKeeps
<1>2. CASE ReadRows(c)
  BY <1>2, ReadRowsKeeps
<1>3. CASE ReadFails(c)
  BY <1>3, ReadFailsKeeps
<1>4. CASE Store(c)
  BY <1>4, StoreKeeps
<1>5. CASE Enabled(c)
  <2>1. To(c, Asking("match", call[c].key)) /\ call[c].key \in Secrets
    BY <1>5, CallIs DEF Enabled
  <2> QED
    BY <2>1, AskingKnown, ToKeeps
<1>6. CASE Accept(c)
  BY <1>6, AcceptKeeps
<1>7. CASE MayWrite(c)
  BY <1>7, MayWriteKeeps
<1>8. CASE Refuse(c)
  BY <1>8, OutIs, OutKnown, ToKeeps DEF Refuse
<1>9. CASE Leave(c)
  BY <1>9, OutIs, OutKnown, ToKeeps DEF Leave
<1> QED
  BY <1>1, <1>2, <1>3, <1>4, <1>5, <1>6, <1>7, <1>8, <1>9 DEF Door

LEMMA TickKeeps == ASSUME KeysInv, Tick PROVE KeysInv'
<1>1. now < Time[scope] /\ now' = now + 1 /\ UNCHANGED <<scope, row, cache, call, held>>
  BY DEF Tick
<1>2. now \in 1..MaxTime /\ Time[scope] \in 1..MaxTime
  BY KeysAssumption DEF KeysInv, KeysTyped
<1>3. now' \in 1..MaxTime /\ now <= now'
  BY <1>1, <1>2, Bounds
<1>4. KeysTyped'
  BY <1>1, <1>3 DEF KeysInv, KeysTyped
<1>5. cache.at \in 0..MaxTime
  BY DEF KeysInv, KeysTyped
<1>6. CacheKnown'
  BY <1>1, <1>2, <1>5, Bounds DEF KeysInv, CacheKnown, Stands, StoodAt
<1>7. ASSUME NEW c \in Calls PROVE Known(call[c])'
  <2>1. Known(call[c]) /\ call[c].began \in 0..MaxTime
    BY CallIs
  <2>2. call[c].began <= now'
    BY <1>1, <1>2, <2>1, Bounds DEF Known
  <2> QED
    BY <1>1, <2>1, <2>2 DEF Known, Stands, StoodAt, StoodNear
<1> QED
  BY <1>4, <1>6, <1>7 DEF KeysInv

LEMMA BustKeeps == ASSUME KeysInv, Bust PROVE KeysInv'
<1>1. cache'.at = 0 /\ cache'.rows = NoRows /\ UNCHANGED <<scope, now, row, call, held>>
  BY DEF Bust, NoCache
<1>2. now \in 1..MaxTime
  BY DEF KeysInv, KeysTyped
<1>3. KeysTyped'
  BY <1>1, Bounds, NoRowsAre DEF KeysInv, KeysTyped
<1>4. CacheKnown'
  BY <1>1, <1>2, NoRowsAre DEF CacheKnown
<1>5. ASSUME NEW c \in Calls PROVE Known(call[c])'
  BY <1>1 DEF KeysInv, Known, Stands, StoodAt, StoodNear
<1> QED
  BY <1>3, <1>4, <1>5 DEF KeysInv

LEMMA AdministerKeeps == ASSUME KeysInv, Administer PROVE KeysInv'
<1>1. KeysTyped /\ scope \in SCOPES /\ row \in AllRows
  BY DEF KeysInv, KeysTyped
<1>2. \A e \in Expiries[scope] : e \in 1..Never
  BY <1>1, KeysAssumption
<1>3. DOMAIN row \subseteq Secrets /\ \A s \in DOMAIN row : row[s] \in Rights
  BY <1>1, RowsAre
<1>4. ASSUME NEW k \in Secrets, NEW write \in BOOLEAN, NEW expires \in Expiries[scope],
             Generate(k, write, expires)
      PROVE  KeysInv'
  BY <1>1, <1>2, <1>4, WithIs, ChangeKeeps DEF Generate
<1>5. ASSUME NEW k \in Secrets, NEW expires \in Expiries[scope], SetExpiry(k, expires)
      PROVE  KeysInv'
  <2> DEFINE rows == [row EXCEPT ![k].expires = expires]
  <2>1. k \in DOMAIN row /\ Change(rows)
    BY <1>5 DEF SetExpiry
  <2>2. [row[k] EXCEPT !.expires = expires] \in Rights
    BY <1>2, <1>3, <2>1 DEF Rights
  <2>3. rows = [s \in DOMAIN row |-> IF s = k THEN [row[k] EXCEPT !.expires = expires] ELSE row[s]]
    BY <1>1, <1>3 DEF AllRows
  <2>4. rows \in [DOMAIN row -> Rights]
    BY <1>3, <2>2, <2>3
  <2>5. rows \in AllRows
    BY <1>3, <2>4, RowsMade
  <2> HIDE DEF rows
  <2> QED
    BY <2>1, <2>5, ChangeKeeps
<1>6. ASSUME NEW k \in Secrets, Revoke(k) PROVE KeysInv'
  <2> DEFINE rows == [s \in DOMAIN row \ {k} |-> row[s]]
  <2>1. Change(rows)
    BY <1>6 DEF Revoke
  <2>2. rows \in [DOMAIN row \ {k} -> Rights] /\ DOMAIN row \ {k} \in SUBSET Secrets
    BY <1>3
  <2>3. rows \in AllRows
    BY <2>2, RowsMade
  <2> HIDE DEF rows
  <2> QED
    BY <2>1, <2>3, ChangeKeeps
<1> QED
  BY <1>4, <1>5, <1>6, BustKeeps DEF Administer

LEMMA RestartKeeps == ASSUME KeysInv, Restart PROVE KeysInv'
<1>1. cache'.at = 0 /\ cache'.rows = NoRows /\ call' = [c \in Calls |-> Out]
      /\ UNCHANGED <<scope, now, held>>
  BY DEF Restart, NoCache
<1>2. now \in 1..MaxTime
  BY DEF KeysInv, KeysTyped
<1>3. row' \in AllRows
  <2>1. With(Token, TRUE, Never) \in AllRows
    <3>1. Never \in 1..Never
      BY Bounds
    <3> QED
      BY <3>1, Bounds, WithIs DEF KeysInv
  <2> QED
    BY <2>1 DEF Restart, KeysInv, KeysTyped
<1>4. call' \in [Calls -> CallStates]
  BY <1>1, OutIs
<1>5. KeysTyped'
  BY <1>1, <1>3, <1>4, Bounds, NoRowsAre DEF KeysInv, KeysTyped
<1>6. CacheKnown'
  BY <1>1, <1>2, NoRowsAre DEF CacheKnown
<1>7. ASSUME NEW c \in Calls PROVE Known(call[c])'
  <2>1. call'[c] = Out
    BY <1>1
  <2> QED
    BY <1>1, <1>2, <2>1, OutIs DEF Known
<1> QED
  BY <1>5, <1>6, <1>7 DEF KeysInv

---------------------------------------------------------------------------
\* The steps of the webhook.

LEMMA KeysStay == ASSUME KeysInv, UNCHANGED <<scope, now, row, cache, call, held>> PROVE KeysInv'
BY DEF KeysInv, KeysTyped, CacheKnown, Known, Stands, StoodAt, StoodNear

LEMMA AnswerKeys == ASSUME KeysInv, Answer PROVE KeysInv'
BY OutIs, OutKnown, CallMoves DEF Answer

LEMMA LegacyKeys == ASSUME KeysInv, NEW c \in Calls, Legacy(c) PROVE KeysInv'
<1> DEFINE s == [Out EXCEPT !.at = "in", !.write = TRUE]
<1>1. now \in 1..MaxTime
  BY DEF KeysInv, KeysTyped
<1>2. s \in CallStates /\ s.at = "in" /\ s.began = 0 /\ DOMAIN s.rows = {}
  BY OutIs DEF CallStates
<1>3. call' = [call EXCEPT ![c] = s] /\ UNCHANGED <<scope, now, row, cache, held>>
  BY DEF Legacy
<1> HIDE DEF s
<1>4. Known(s)
  BY <1>1, <1>2 DEF Known
<1> QED
  BY <1>2, <1>3, <1>4, CallMoves

LEMMA WebhookKeys == ASSUME KeysInv, Webhook PROVE KeysInv'
<1>1. CASE \E c \in Calls : Legacy(c)
  BY <1>1, LegacyKeys
<1>2. CASE TurnedAway \/ Answered
  BY <1>2, AnswerKeys DEF TurnedAway, Answered
<1>3. CASE (\E c \in Calls : \E body \in Bodies : Come(c, body)) \/ Read \/ Replay \/ NothingDone \/ Publish
           \/ Remember \/ Notify \/ Lapse
  <2>1. UNCHANGED keyVars
    BY <1>3 DEF Come, Read, Replay, NothingDone, Publish, Remember, Notify, Lapse, Goes
  <2> QED
    BY <2>1, KeysStay DEF keyVars
<1> QED
  BY <1>1, <1>2, <1>3 DEF Webhook

---------------------------------------------------------------------------
\* What the tickets leave behind.

LEMMA TicketsStay == ASSUME TicketsInv, UNCHANGED ticketVars PROVE TicketsInv'
BY DEF TicketsInv, TicketsTyped, KeptIsItsOwn, AnswersItsServer, StillToTell, ToldOnce, Result, ticketVars

\* A call that is over, or not read yet, promises nothing.
LEMMA NothingPromised ==
    ASSUME TicketsInv, UNCHANGED <<commits, kept, told>>,
           job' = Idle \/ (job'.at = "body" /\ job'.body \in Bodies)
                       \/ (job'.at = "asked" /\ job'.server \in Servers /\ job'.ticket \in TicketIds)
    PROVE  TicketsInv'
<1>1. job'.at \in {"idle", "body", "asked"}
  BY DEF Idle
<1>2. /\ job'.at = "body" => job'.body \in Bodies
      /\ job'.at = "asked" => job'.server \in Servers /\ job'.ticket \in TicketIds
  BY DEF Idle
<1>3. TicketsTyped'
  BY <1>1, <1>2 DEF TicketsInv, TicketsTyped, Ended
<1>4. KeptIsItsOwn' /\ ToldOnce'
  BY DEF TicketsInv, KeptIsItsOwn, ToldOnce
<1>5. AnswersItsServer' /\ StillToTell'
  BY <1>1 DEF AnswersItsServer, StillToTell
<1> QED
  BY <1>3, <1>4, <1>5 DEF TicketsInv

\* What was remembered is answered again: it is of this server and of this ticket.
LEMMA ReplayKeeps == ASSUME TicketsInv, Replay PROVE TicketsInv'
<1>1. PICK k \in Remembered(job) : job' = Done(kept[k], TRUE) /\ UNCHANGED <<commits, kept, told>>
  BY DEF Replay, Goes
<1>2. k \in DOMAIN kept /\ k = <<job.server, job.ticket>>
  BY DEF Remembered
<1>3. kept[k] \in 1..Len(commits) /\ commits[kept[k]] = [server |-> job.server, ticket |-> job.ticket]
  BY <1>2 DEF TicketsInv, KeptIsItsOwn
<1>4. /\ job'.at = "done" /\ job'.server = job.server /\ job'.ticket = job.ticket
      /\ job'.commit = kept[k] /\ job'.replayed = TRUE /\ job' = Result(job')
  BY <1>1 DEF Done, Result
<1>5. TicketsTyped'
  <2>1. commits' \in Seq(CommitRecords) /\ told' \in Seq(Nat) /\ Len(told') = Len(commits')
    BY <1>1 DEF TicketsInv, TicketsTyped
  <2>2. job'.commit \in 0..Len(commits')
    <3>1. kept[k] \in 1..Len(commits) /\ commits' = commits /\ job'.commit = kept[k]
      BY <1>1, <1>3, <1>4
    <3>2. Len(commits) \in Nat
      BY <2>1, <3>1
    <3> QED
      BY <3>1, <3>2
  <2> QED
    BY <1>4, <2>1, <2>2 DEF TicketsTyped, Ended, Result
<1>6. KeptIsItsOwn' /\ ToldOnce'
  BY <1>1 DEF TicketsInv, KeptIsItsOwn, ToldOnce
<1>7. AnswersItsServer' /\ StillToTell'
  BY <1>1, <1>3, <1>4 DEF AnswersItsServer, StillToTell
<1> QED
  BY <1>5, <1>6, <1>7 DEF TicketsInv

LEMMA NothingDoneKeeps == ASSUME TicketsInv, NothingDone PROVE TicketsInv'
<1>1. job' = Done(0, FALSE) /\ UNCHANGED <<commits, kept, told>>
  BY DEF NothingDone, Goes
<1>2. job'.at = "done" /\ job'.commit = 0 /\ job' = Result(job')
  BY <1>1 DEF Done, Result
<1>3. TicketsTyped'
  <2>1. commits' \in Seq(CommitRecords) /\ told' \in Seq(Nat) /\ Len(told') = Len(commits')
    BY <1>1 DEF TicketsInv, TicketsTyped
  <2>2. job'.commit \in 0..Len(commits')
    BY <1>2, <2>1
  <2> QED
    BY <1>2, <2>1, <2>2 DEF TicketsTyped, Ended, Result
<1>4. KeptIsItsOwn' /\ ToldOnce'
  BY <1>1 DEF TicketsInv, KeptIsItsOwn, ToldOnce
<1>5. AnswersItsServer' /\ StillToTell'
  BY <1>2 DEF AnswersItsServer, StillToTell
<1> QED
  BY <1>3, <1>4, <1>5 DEF TicketsInv

\* A commit is published for the server and the ticket of the call, and not told yet.
LEMMA PublishKeeps == ASSUME TicketsInv, Publish PROVE TicketsInv'
<1> DEFINE entry == [server |-> job.server, ticket |-> job.ticket]
<1>1. commits \in Seq(CommitRecords) /\ told \in Seq(Nat) /\ Len(told) = Len(commits)
  BY DEF TicketsInv, TicketsTyped
<1>2. entry \in CommitRecords
  BY DEF Publish, Unanswered, TicketsInv, TicketsTyped, CommitRecords
<1>3. commits' = Append(commits, entry) /\ told' = Append(told, 0) /\ kept' = kept
      /\ job' = Done(Len(commits) + 1, FALSE)
  BY DEF Publish
<1>4. /\ job'.at = "done" /\ job'.server = job.server /\ job'.ticket = job.ticket
      /\ job'.commit = Len(commits) + 1 /\ job'.replayed = FALSE /\ job' = Result(job')
  BY <1>3 DEF Done, Result
<1> DEFINE n == Len(commits)
<1>5. n \in Nat /\ commits' \in Seq(CommitRecords) /\ told' \in Seq(Nat) /\ Len(commits') = n + 1 /\ Len(told') = n + 1
  BY <1>1, <1>2, <1>3
<1>6. /\ \A i \in 1..n : commits'[i] = commits[i] /\ told'[i] = told[i]
      /\ commits'[n + 1] = entry /\ told'[n + 1] = 0
  BY <1>1, <1>2, <1>3
<1> HIDE DEF n
<1>7. TicketsTyped'
  <2>1. job'.commit \in 0..Len(commits')
    BY <1>4, <1>5 DEF n
  <2> QED
    BY <1>4, <1>5, <2>1 DEF TicketsTyped, Ended, Result
<1>8. KeptIsItsOwn'
  <2>1. ASSUME NEW k \in DOMAIN kept
        PROVE  kept[k] \in 1..n + 1 /\ commits'[kept[k]] = [server |-> k[1], ticket |-> k[2]]
    <3>1. kept[k] \in 1..n /\ commits[kept[k]] = [server |-> k[1], ticket |-> k[2]]
      BY DEF TicketsInv, KeptIsItsOwn, n
    <3> QED
      BY <1>5, <1>6, <3>1
  <2> QED
    BY <1>3, <1>5, <2>1 DEF KeptIsItsOwn
<1>9. ToldOnce'
  <2>1. DOMAIN told' = 1..n + 1 /\ DOMAIN told = 1..n
    BY <1>1, <1>5 DEF n
  <2>2. \A i \in 1..n : told[i] <= 1
    BY <2>1 DEF TicketsInv, ToldOnce
  <2>3. \A i \in 1..n + 1 : i \in 1..n \/ i = n + 1
    BY <1>5
  <2>4. \A i \in 1..n + 1 : told'[i] <= 1
    BY <1>6, <2>2, <2>3
  <2> QED
    BY <2>1, <2>4 DEF ToldOnce
<1>10. AnswersItsServer' /\ StillToTell'
  BY <1>4, <1>6 DEF AnswersItsServer, StillToTell, n
<1> QED
  BY <1>7, <1>8, <1>9, <1>10 DEF TicketsInv

\* What is remembered is the commit that the call made, of its own server and ticket.
LEMMA RememberKeeps == ASSUME TicketsInv, Remember PROVE TicketsInv'
<1>1. job.at = "done" /\ job = Result(job) /\ job.commit \in 0..Len(commits) /\ Len(commits) \in Nat
  BY DEF Remember, TicketsInv, TicketsTyped, Ended
<1>2. job' = [job EXCEPT !.at = "tell"] /\ UNCHANGED <<commits, told>>
  BY DEF Remember
<1>3. /\ job'.at = "tell" /\ job'.server = job.server /\ job'.ticket = job.ticket
      /\ job'.commit = job.commit /\ job'.replayed = job.replayed /\ job' = Result(job')
  <2>1. job' = [Result(job) EXCEPT !.at = "tell"]
    BY <1>1, <1>2
  <2>2. job' = [at |-> "tell", call |-> job.call, server |-> job.server, ticket |-> job.ticket,
                applies |-> job.applies, host |-> job.host, commit |-> job.commit, replayed |-> job.replayed]
    BY <2>1 DEF Result
  <2> QED
    BY <2>2 DEF Result
<1>4. TicketsTyped'
  BY <1>1, <1>2, <1>3 DEF TicketsInv, TicketsTyped, Ended, Result
<1>5. KeptIsItsOwn'
  <2>1. CASE kept' = kept
    BY <1>2, <2>1 DEF TicketsInv, KeptIsItsOwn
  <2>2. CASE kept' # kept
    <3> DEFINE at == <<job.server, job.ticket>>
    <3>1. job.commit > 0 /\ kept' = [k \in DOMAIN kept \cup {at} |-> IF k = at THEN job.commit ELSE kept[k]]
      BY <2>2 DEF Remember
    <3>2. job.commit \in 1..Len(commits) /\ commits[job.commit] = [server |-> job.server, ticket |-> job.ticket]
      BY <1>1, <3>1 DEF TicketsInv, AnswersItsServer
    <3>3. at[1] = job.server /\ at[2] = job.ticket
      OBVIOUS
    <3> HIDE DEF at
    <3>4. ASSUME NEW k \in DOMAIN kept'
          PROVE  kept'[k] \in 1..Len(commits) /\ commits[kept'[k]] = [server |-> k[1], ticket |-> k[2]]
      <4>1. CASE k = at
        BY <3>1, <3>2, <3>3, <4>1
      <4>2. CASE k # at
        BY <3>1, <4>2 DEF TicketsInv, KeptIsItsOwn
      <4> QED
        BY <4>1, <4>2
    <3> QED
      BY <1>2, <3>4 DEF KeptIsItsOwn
  <2> QED
    BY <2>1, <2>2
<1>6. ToldOnce'
  BY <1>2 DEF TicketsInv, ToldOnce
<1>7. AnswersItsServer' /\ StillToTell'
  BY <1>1, <1>2, <1>3 DEF TicketsInv, AnswersItsServer, StillToTell
<1> QED
  BY <1>4, <1>5, <1>6, <1>7 DEF TicketsInv

\* The note of a commit is sent when it was not yet, and never for a ticket sent again.
LEMMA NotifyKeeps == ASSUME TicketsInv, Notify PROVE TicketsInv'
<1>1. job.at = "tell" /\ job = Result(job) /\ job.commit \in 0..Len(commits) /\ Len(commits) \in Nat
  BY DEF Notify, TicketsInv, TicketsTyped, Ended
<1>2. job' = [job EXCEPT !.at = "answer"] /\ UNCHANGED <<commits, kept>>
  BY DEF Notify
<1>3. /\ job'.at = "answer" /\ job'.server = job.server /\ job'.ticket = job.ticket
      /\ job'.commit = job.commit /\ job' = Result(job')
  <2>1. job' = [Result(job) EXCEPT !.at = "answer"]
    BY <1>1, <1>2
  <2>2. job' = [at |-> "answer", call |-> job.call, server |-> job.server, ticket |-> job.ticket,
                applies |-> job.applies, host |-> job.host, commit |-> job.commit, replayed |-> job.replayed]
    BY <2>1 DEF Result
  <2> QED
    BY <2>2 DEF Result
<1>4. told \in Seq(Nat) /\ Len(told) = Len(commits) /\ DOMAIN told = 1..Len(commits)
  BY DEF TicketsInv, TicketsTyped
<1>5. told' \in Seq(Nat) /\ Len(told') = Len(commits) /\ ToldOnce'
  <2>1. CASE told' = told
    BY <1>4, <2>1 DEF TicketsInv, ToldOnce
  <2>2. CASE told' # told
    <3>1. ~job.replayed /\ job.commit # 0 /\ told' = [told EXCEPT ![job.commit] = @ + 1]
      BY <2>2 DEF Notify, Tells
    <3>2. job.commit \in 1..Len(commits) /\ told[job.commit] = 0
      BY <1>1, <3>1 DEF TicketsInv, StillToTell
    <3>3. told' = [told EXCEPT ![job.commit] = 1]
      BY <3>1, <3>2
    <3>4. told' \in Seq(Nat) /\ Len(told') = Len(commits) /\ DOMAIN told' = DOMAIN told
      BY <1>4, <3>2, <3>3
    <3>5. \A i \in DOMAIN told : told'[i] <= 1
      BY <1>4, <3>2, <3>3 DEF TicketsInv, ToldOnce
    <3> QED
      BY <3>4, <3>5 DEF ToldOnce
  <2> QED
    BY <2>1, <2>2
<1>6. TicketsTyped'
  BY <1>1, <1>2, <1>3, <1>5 DEF TicketsInv, TicketsTyped, Ended, Result
<1>7. KeptIsItsOwn'
  BY <1>2 DEF TicketsInv, KeptIsItsOwn
<1>8. AnswersItsServer' /\ StillToTell'
  BY <1>1, <1>2, <1>3 DEF TicketsInv, AnswersItsServer, StillToTell
<1> QED
  BY <1>5, <1>6, <1>7, <1>8 DEF TicketsInv

LEMMA LapseKeeps == ASSUME TicketsInv, Lapse PROVE TicketsInv'
<1>1. PICK k \in DOMAIN kept : kept' = [j \in DOMAIN kept \ {k} |-> kept[j]]
  BY DEF Lapse
<1>2. UNCHANGED <<job, commits, told>>
  BY DEF Lapse
<1>3. KeptIsItsOwn'
  BY <1>1, <1>2 DEF TicketsInv, KeptIsItsOwn
<1> QED
  BY <1>2, <1>3 DEF TicketsInv, TicketsTyped, AnswersItsServer, StillToTell, ToldOnce, Result

LEMMA WebhookKeeps == ASSUME TicketsInv, Webhook PROVE TicketsInv'
<1>1. CASE \E c \in Calls : Legacy(c)
  BY <1>1, TicketsStay DEF Legacy
<1>2. CASE \E c \in Calls : \E body \in Bodies : Come(c, body)
  <2>1. PICK c \in Calls : \E body \in Bodies : Come(c, body)
    BY <1>2
  <2>2. PICK body \in Bodies : Come(c, body)
    BY <2>1
  <2>3. job' = [at |-> "body", call |-> c, body |-> body] /\ UNCHANGED <<commits, kept, told>>
    BY <2>2 DEF Come
  <2>4. job'.at = "body" /\ job'.body \in Bodies
    BY <2>3
  <2> QED
    BY <2>3, <2>4, NothingPromised
<1>3. CASE TurnedAway \/ Answered
  BY <1>3, NothingPromised DEF TurnedAway, Answered, Answer
<1>4. CASE Read
  <2>1. job.at = "body" /\ job.body \in Bodies
    BY <1>4 DEF Read, TicketsInv, TicketsTyped
  <2>2. job'.at = "asked" /\ job'.server = Server(job.body) /\ job'.ticket = Ticket(job.body)
        /\ UNCHANGED <<commits, kept, told>>
    BY <1>4 DEF Read, Goes
  <2>3. job'.server \in Servers /\ job'.ticket \in TicketIds
    BY <2>1, <2>2 DEF Servers, TicketIds
  <2> QED
    BY <2>2, <2>3, NothingPromised
<1> QED
  BY <1>1, <1>2, <1>3, <1>4, ReplayKeeps, NothingDoneKeeps, PublishKeeps, RememberKeeps, NotifyKeeps, LapseKeeps
  DEF Webhook

---------------------------------------------------------------------------
\* The invariant is inductive.

LEMMA InitHolds == Init => IInv
<1> SUFFICES ASSUME Init PROVE IInv
  OBVIOUS
<1> USE Bounds
<1>1. scope \in SCOPES /\ now = 1 /\ row = NoRows /\ cache.at = 0 /\ cache.rows = NoRows
      /\ call = [c \in Calls |-> Out] /\ held = [k \in Secrets |-> [e \in 1..Never |-> 0]]
  BY DEF Init, KeyInit, NoCache
<1>2. 1 \in 1..MaxTime
  <2>1. Time[scope] \in 1..MaxTime
    BY <1>1, KeysAssumption
  <2> QED
    BY <2>1
<1>3. KeysTyped
  BY <1>1, <1>2, NoRowsAre, OutIs DEF KeysTyped
<1>4. CacheKnown
  BY <1>1, NoRowsAre DEF CacheKnown
<1>5. ASSUME NEW c \in Calls PROVE Known(call[c])
  <2>1. call[c] = Out
    BY <1>1
  <2> QED
    BY <1>1, <2>1, OutIs DEF Known
<1>6. job.at = "idle" /\ commits = <<>> /\ kept = [k \in {} |-> 0] /\ told = <<>>
  BY DEF Init, Idle
<1>7. TicketsTyped /\ KeptIsItsOwn
  BY <1>6 DEF TicketsTyped, KeptIsItsOwn, Ended
<1>8. AnswersItsServer /\ StillToTell /\ ToldOnce
  BY <1>6 DEF AnswersItsServer, StillToTell, ToldOnce
<1> QED
  BY <1>3, <1>4, <1>5, <1>7, <1>8 DEF IInv, KeysInv, TicketsInv

LEMMA NextKeeps == IInv /\ [Next]_vars => IInv'
<1> SUFFICES ASSUME IInv, [Next]_vars PROVE IInv'
  OBVIOUS
<1>1. KeysInv /\ TicketsInv
  BY DEF IInv
<1>2. CASE (Tick \/ Administer) /\ UNCHANGED ticketVars
  BY <1>1, <1>2, TickKeeps, AdministerKeeps, TicketsStay DEF IInv
<1>3. CASE (\E c \in Calls : Door(c)) /\ UNCHANGED ticketVars
  BY <1>1, <1>3, DoorKeeps, TicketsStay DEF IInv
<1>4. CASE Stop
  BY <1>1, <1>4, RestartKeeps, NothingPromised DEF IInv, Stop
<1>5. CASE Webhook
  BY <1>1, <1>5, WebhookKeys, WebhookKeeps DEF IInv
<1>6. CASE UNCHANGED vars
  BY <1>1, <1>6, KeysStay, TicketsStay DEF IInv, vars, keyVars
<1> QED
  BY <1>2, <1>3, <1>4, <1>5, <1>6 DEF Next

\* What the doors know of the keys, and the webhook of the tickets, holds in every reachable
\* state, for all keys, bodies, clocks and bounds.
THEOREM Invariant == Spec => []IInv
BY InitHolds, NextKeeps, PTL DEF Spec

\* A job is in one of its states, and what is remembered is the number of a commit (aa_webhook).
THEOREM TypeCorrect == Spec => []TypeOK
<1>1. IInv => TypeOK
  <2> SUFFICES ASSUME IInv PROVE TypeOK
    OBVIOUS
  <2>1. job.at \in {"idle", "body", "asked", "done", "tell", "answer"}
    BY DEF IInv, TicketsInv, TicketsTyped, Ended
  <2>2. \A k \in DOMAIN kept : kept[k] \in 1..Len(commits)
    BY DEF IInv, TicketsInv, KeptIsItsOwn
  <2>3. DOMAIN told = DOMAIN commits
    BY DEF IInv, TicketsInv, TicketsTyped
  <2> QED
    BY <2>1, <2>2, <2>3 DEF TypeOK
<1> QED
  BY <1>1, Invariant, PTL

\* An answer that says published speaks of a commit on the server that was asked, for the
\* ticket that was sent, though it be remembered, sent again, or crossed by a stop (aa_webhook).
THEOREM OwnAnswer == Spec => []AnswersItsServer
<1>1. IInv => AnswersItsServer
  BY DEF IInv, TicketsInv
<1> QED
  BY <1>1, Invariant, PTL

\* No commit is pushed back to the ticket's system twice (aa_webhook).
THEOREM OneNote == Spec => []ToldOnce
<1>1. IInv => ToldOnce
  BY DEF IInv, TicketsInv
<1> QED
  BY <1>1, Invariant, PTL

---------------------------------------------------------------------------
\* What is let in.

\* Only the lookup that finds the key lets a call in.
LEMMA LetInIsAccept ==
    ASSUME IInv, [Next]_vars, NEW c \in Calls, LetIn(c)
    PROVE  Accept(c)
<1>1. call[c].at = "look" /\ call[c].ask = "match" /\ call'[c] # call[c] /\ call'[c].at # "out"
  BY DEF LetIn
<1>2. call \in [Calls -> CallStates]
  BY DEF IInv, KeysInv, KeysTyped
<1>3. ~(Tick \/ Administer)
  BY <1>1 DEF Tick, Administer, Generate, SetExpiry, Revoke, Change, Bust
<1>4. ~Stop
  BY <1>1, OutIs DEF Stop, Restart
<1>5. ~Webhook
  <2>1. ASSUME NEW d \in Calls, Legacy(d) PROVE FALSE
    BY <1>1, <1>2, <2>1 DEF Legacy
  <2>2. ~Answer
    BY <1>1, <1>2, OutIs DEF Answer
  <2>3. call' # call
    BY <1>1
  <2> QED
    BY <2>1, <2>2, <2>3
    DEF Webhook, Come, TurnedAway, Read, Replay, NothingDone, Publish, Remember, Notify, Answered, Lapse, Goes, keyVars
<1>6. PICK d \in Calls : Door(d)
  BY <1>1, <1>3, <1>4, <1>5 DEF Next, vars, keyVars
<1>7. d = c
  <2>1. ASSUME NEW state, To(d, state), d # c PROVE call'[c] = call[c]
    BY <1>2, <2>1 DEF To
  <2>2. ASSUME Store(d), d # c PROVE call'[c] = call[c]
    BY <1>2, <2>2 DEF Store
  <2> QED
    BY <1>1, <1>6, <2>1, <2>2
    DEF Door, Present, ReadRows, ReadFails, Enabled, Accept, MayWrite, Refuse, Leave
<1>8. ~Refuse(c)
  <2>1. ASSUME Refuse(c) PROVE call'[c] = Out
    BY <1>2, <2>1 DEF Refuse, To
  <2> QED
    BY <1>1, <2>1, OutIs
<1> QED
  BY <1>1, <1>6, <1>7, <1>8 DEF Door, Present, ReadRows, ReadFails, Store, Enabled, MayWrite, Leave

\* A call that is let in presents a key that was in force when its lookup began, or was until
\* no longer before than the cached rows may lag, whatever revocation, change of date, restart
\* or other lookup came between (api_keys._active, revoke).
THEOREM LetInByAKey == Spec => AcceptedWasLive
<1>1. ASSUME IInv, [Next]_vars, NEW c \in Calls, LetIn(c)
      PROVE  WasLive(call[c].key, call[c].began)
  <2> DEFINE k == call[c].key
  <2> DEFINE time == call[c].began
  <2> DEFINE e == call[c].rows[k].expires
  <2>1. k \in DOMAIN call[c].rows /\ e > time
    BY <1>1, LetInIsAccept DEF Accept, Matches, Found, Live
  <2>2. k \in Secrets /\ e \in 1..Never /\ time \in 0..MaxTime
    BY <2>1, <1>1, CallIs DEF IInv
  <2>3. Stands(k, e) \/ StoodNear(k, e, time)
    BY <2>1, <1>1, CallIs DEF IInv, Known
  <2> HIDE DEF k, time, e
  <2>4. ASSUME Stands(k, e) PROVE WasLive(k, time)
    BY <2>1, <2>4 DEF Stands, WasLive, Live
  <2>5. ASSUME StoodNear(k, e, time) PROVE WasLive(k, time)
    <3>1. e \in time + 1..Never
      BY <2>1, <2>2, Bounds
    <3>2. held[k][e] > 0 /\ held[k][e] + TTL >= time
      BY <2>5 DEF StoodNear
    <3> QED
      BY <3>1, <3>2 DEF WasLive
  <2>6. WasLive(k, time)
    BY <2>3, <2>4, <2>5
  <2> QED
    BY <2>6 DEF k, time
<1>2. IInv /\ [Next]_vars => [\A c \in Calls : LetIn(c) => WasLive(call[c].key, call[c].began)]_keyVars
  BY <1>1
<1> QED
  BY <1>2, Invariant, PTL DEF Spec, AcceptedWasLive

---------------------------------------------------------------------------
\* How a body is read.

LEMMA FirstAmong ==
    ASSUME NEW T, T \subseteq Nat, T # {}
    PROVE  \E x \in T : \A y \in T : x <= y
<1> DEFINE Less == {ss \in Nat \X Nat : ss[1] < ss[2]}
<1>1. Less = OpToRel(<, Nat)
  BY Zenon DEF OpToRel
<1>2. IsWellFoundedOn(Less, Nat)
  BY Zenon, <1>1, NatLessThanWellFounded
<1> HIDE DEF Less
<1>3. PICK x \in T : \A y \in T : ~(<<y, x>> \in Less)
  BY <1>2, WFMin
<1>4. ASSUME NEW y \in T PROVE x <= y
  <2>1. ~(<<y, x>> \in Less)
    BY <1>3
  <2>2. x \in Nat /\ y \in Nat
    OBVIOUS
  <2>3. ~(y < x)
    BY <2>1, <2>2 DEF Less
  <2> QED
    BY <2>2, <2>3
<1> QED
  BY <1>4

\* What is read of a body in some fields is a value that it gives in one of them, or the
\* default when it gives none.
LEMMA FirstIs ==
    ASSUME NEW body, NEW fields, NEW default, DOMAIN fields \subseteq Nat
    PROVE  \/ \E i \in DOMAIN fields : fields[i] \in DOMAIN body /\ First(body, fields, default) = body[fields[i]]
           \/ First(body, fields, default) = default /\ \A i \in DOMAIN fields : fields[i] \notin DOMAIN body
<1> DEFINE given == {i \in DOMAIN fields : fields[i] \in DOMAIN body}
<1> DEFINE least == CHOOSE i \in given : \A j \in given : i <= j
<1>1. CASE given = {}
  BY <1>1 DEF First
<1>2. ASSUME given # {}
      PROVE  least \in given
  <2>1. \E i \in given : \A j \in given : i <= j
    BY <1>2, FirstAmong
  <2> QED
    BY <2>1
<1>3. ASSUME given # {}
      PROVE  First(body, fields, default) = body[fields[least]]
  BY <1>3 DEF First
<1> QED
  BY <1>1, <1>2, <1>3

LEMMA FirstIsSaid ==
    ASSUME NEW body, NEW fields, NEW default, NEW names,
           DOMAIN fields \subseteq Nat, \A i \in DOMAIN fields : fields[i] \in names
    PROVE  First(body, fields, default) \in Said(body, names) \cup {default}
BY FirstIs DEF Said

\* A value that is given under no two names that differ is the one that is read.
LEMMA OnlyIsFirst ==
    ASSUME NEW body, NEW fields, NEW default, NEW names, DOMAIN fields \subseteq Nat,
           \A i \in DOMAIN fields : fields[i] \in names,
           \A n \in names : \E i \in DOMAIN fields : fields[i] = n
    PROVE  Only(body, names) \subseteq {First(body, fields, default)}
<1> SUFFICES ASSUME NEW v \in Said(body, names), Said(body, names) = {v}
             PROVE  v = First(body, fields, default)
  BY DEF Only
<1>1. PICK n \in DOMAIN body \cap names : v = body[n]
  BY DEF Said
<1>2. PICK i \in DOMAIN fields : fields[i] = n
  BY <1>1
<1>3. PICK j \in DOMAIN fields : fields[j] \in DOMAIN body /\ First(body, fields, default) = body[fields[j]]
  BY <1>1, <1>2, FirstIs
<1>4. body[fields[j]] \in Said(body, names)
  BY <1>3 DEF Said
<1> QED
  BY <1>3, <1>4

LEMMA ListedIsFirst ==
    ASSUME NEW body, NEW fields, NEW names, DOMAIN fields \subseteq Nat,
           \A i \in DOMAIN fields : fields[i] \in names,
           \A n \in names : \E i \in DOMAIN fields : fields[i] = n
    PROVE  Listed(body, names) \subseteq Names(body, fields) \ AnyWords
BY OnlyIsFirst DEF Listed, Names

\* A body that says nothing of its service is of all services only when it blocks.
LEMMA ServiceMeant ==
    ASSUME NEW body, Built(body).service \in AnyWords \cup {Anything}
    PROVE  Action(body) \in Blocking \/ Built(body).service \in Said(body, ServiceNames)
<1>1. Absent \notin AnyWords \cup {Anything}
  BY DEF Absent, AnyWords, Anything
<1>2. Built(body).service = Named(body)
  BY <1>1 DEF Built
<1>3. CASE BlocksAll(body)
  BY <1>3 DEF BlocksAll
<1>4. CASE ~BlocksAll(body)
  <2>1. Service(body) \in Said(body, ServiceNames) \cup {Absent}
    BY FirstIsSaid DEF Service, ServiceNames
  <2> QED
    BY <1>1, <1>2, <1>4, <2>1 DEF Named
<1> QED
  BY <1>3, <1>4

\* A body that blocks says so in one of the fields of a verdict.
LEMMA BlockMeant ==
    ASSUME NEW body, Action(body) \in Blocking
    PROVE  \E word \in Said(body, VerdictNames) : Canonical(word) \in Blocking
<1>1. Canonical("accept") \notin Blocking /\ Canonical(Absent) = Absent
  BY DEF Canonical, Blocking, Absent
<1>2. Verdict(body) \in Said(body, VerdictNames) \cup {Absent}
  BY FirstIsSaid DEF Verdict, VerdictNames
<1>3. BareAction(body) \in Said(body, VerdictNames) \cup {Absent}
  BY FirstIsSaid DEF BareAction, VerdictNames
<1>4. Canonical(AskedAction(body)) \in Blocking
  BY DEF Action
<1> QED
  BY <1>1, <1>2, <1>3, <1>4 DEF AskedAction

\* An application that goes anywhere goes to the Internet, and no network is Any.
LEMMA DestinationMeant ==
    ASSUME NEW body, ~Malformed(body), Application(body) # Absent
    PROVE  Anything \notin Going(body).networks
<1> DEFINE kind == DestinationKind(body)
<1> DEFINE word == Destination(body)
<1>1. CASE ToInternet(body)
  BY <1>1 DEF Going, Internet, Endpoint
<1>2. CASE ~ToInternet(body) /\ kind = "ip"
  <2>1. word \notin AnyWords
    BY <1>2 DEF ToInternet
  <2>2. word \in DOMAIN Networks
    BY <1>2, <2>1 DEF Malformed, EndpointsWrong, EndpointWrong, AddressWrong
  <2>3. Networks[word] # Anything
    BY <2>2, NetworksAssumption DEF Anything
  <2>4. Going(body).networks = {Networks[word]}
    BY <1>2, <2>1 DEF Going, Resolved, Endpoint, Address
  <2> QED
    BY <2>3, <2>4
<1>3. CASE ~ToInternet(body) /\ kind # "ip"
  <2>1. Going(body).networks = {}
    BY <1>3 DEF Going, Resolved, Internet, Endpoint
  <2> QED
    BY <2>1
<1> QED
  BY <1>1, <1>2, <1>3

LEMMA RestrictionsMeant ==
    ASSUME NEW body, ~Malformed(body)
    PROVE  Restricts(body, Built(body))
<1>1. Only(body, InlineNames) \subseteq {Inline(body)}
  BY OnlyIsFirst DEF Inline, InlineNames
<1>2. Only(body, LimitNames) \subseteq {Limit(body)}
  BY OnlyIsFirst DEF Limit, LimitNames
<1>3. Listed(body, ContentNames) \subseteq Content(body)
  <2> DEFINE fields == <<"content", "data_type", "data_types", "content_type", "u_content">>
  <2>1. /\ DOMAIN fields \subseteq Nat
        /\ \A i \in DOMAIN fields : fields[i] \in ContentNames
        /\ \A n \in ContentNames : \E i \in DOMAIN fields : fields[i] = n
    BY DEF ContentNames
  <2>2. Content(body) = Names(body, fields) \ AnyWords
    BY DEF Content
  <2> HIDE DEF fields
  <2>3. Listed(body, ContentNames) \subseteq Names(body, fields) \ AnyWords
    BY <2>1, ListedIsFirst
  <2> QED
    BY <2>2, <2>3
<1>4. Listed(body, TimeNames) \subseteq Times(body)
  <2> DEFINE fields == <<"time", "time_objects", "time_object", "window", "u_time">>
  <2>1. /\ DOMAIN fields \subseteq Nat
        /\ \A i \in DOMAIN fields : fields[i] \in TimeNames
        /\ \A n \in TimeNames : \E i \in DOMAIN fields : fields[i] = n
    BY DEF TimeNames
  <2>2. Times(body) = Names(body, fields) \ AnyWords
    BY DEF Times
  <2> HIDE DEF fields
  <2>3. Listed(body, TimeNames) \subseteq Names(body, fields) \ AnyWords
    BY <2>1, ListedIsFirst
  <2> QED
    BY <2>2, <2>3
<1>5. Listed(body, TargetNames) \ {"policy targets"} \subseteq Targets(body)
  <2> DEFINE fields == <<"install_on", "install-on", "targets", "gateways", "gateway", "u_install_on", "u_targets">>
  <2>1. /\ DOMAIN fields \subseteq Nat
        /\ \A i \in DOMAIN fields : fields[i] \in TargetNames
        /\ \A n \in TargetNames : \E i \in DOMAIN fields : fields[i] = n
    BY DEF TargetNames
  <2>2. Targets(body) = Names(body, fields) \ (AnyWords \cup {"policy targets"})
    BY DEF Targets
  <2> HIDE DEF fields
  <2>3. Listed(body, TargetNames) \subseteq Names(body, fields) \ AnyWords
    BY <2>1, ListedIsFirst
  <2> QED
    BY <2>2, <2>3
<1>6. Listed(body, VPNNames) \subseteq Communities(body)
  <2> DEFINE fields == <<"vpn", "vpn_community", "vpn_communities", "u_vpn">>
  <2>1. /\ DOMAIN fields \subseteq Nat
        /\ \A i \in DOMAIN fields : fields[i] \in VPNNames
        /\ \A n \in VPNNames : \E i \in DOMAIN fields : fields[i] = n
    BY DEF VPNNames
  <2>2. Communities(body) = Names(body, fields) \ AnyWords
    BY DEF Communities
  <2> HIDE DEF fields
  <2>3. Listed(body, VPNNames) \subseteq Names(body, fields) \ AnyWords
    BY <2>1, ListedIsFirst
  <2> QED
    BY <2>2, <2>3
<1>7. Negated(body) => Content(body) # {}
  BY DEF Malformed, ColumnsWrong
<1> QED
  BY <1>1, <1>2, <1>3, <1>4, <1>5, <1>6, <1>7 DEF Restricts, Built

LEMMA WellFormedMeans ==
    ASSUME NEW body, ~Malformed(body)
    PROVE  MeansWhatItSays(body, Built(body))
<1>1. Built(body).action = Action(body) /\ Built(body).application = Application(body)
      /\ Built(body).destination = Going(body)
  BY DEF Built
<1> QED
  BY <1>1, ServiceMeant, BlockMeant, DestinationMeant, RestrictionsMeant DEF MeansWhatItSays

\* A request means what its ticket says, for every body: it is of all services, or a block,
\* only when the ticket says so, an application never reaches Any, and no restriction that
\* the ticket gives is lost (ticketing.parse_payload, build_request).
THEOREM Meant == Spec => RequestMeansTicket
<1>1. ASSUME [Next]_vars, vars' # vars, job.at = "body", job'.at = "asked" PROVE Read
  <2>1. job' # job /\ job' # Idle /\ job # Idle
    BY <1>1 DEF Idle
  <2>2. ~Stop /\ ~Answer
    BY <2>1 DEF Stop, Answer
  <2>3. Webhook
    BY <1>1, <2>1, <2>2 DEF Next, ticketVars, vars
  <2> QED
    BY <1>1, <2>1, <2>2, <2>3
    DEF Webhook, Legacy, Come, TurnedAway, Replay, Unanswered, NothingDone, Publish, Remember, Notify, Answered,
        Lapse, Goes, Done, ticketVars
<1>2. ASSUME Read PROVE MeansWhatItSays(job.body, job'.request)
  <2>1. ~Malformed(job.body)
    BY <1>2 DEF Read, Acceptable, Unusable
  <2>2. job'.request = Built(job.body)
    BY <1>2 DEF Read, Goes
  <2> QED
    BY <2>1, <2>2, WellFormedMeans
<1>3. [Next]_vars => [job.at = "body" /\ job'.at = "asked" => MeansWhatItSays(job.body, job'.request)]_vars
  BY <1>1, <1>2
<1> QED
  BY <1>3, PTL DEF Spec, RequestMeansTicket
=============================================================================
