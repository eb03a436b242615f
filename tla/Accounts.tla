------------------------------ MODULE Accounts ------------------------------
(***************************************************************************)
(* The portal's accounts: registration, passwords and reset links, and      *)
(* their administration by others (routers/users.py, routers/ui.py,         *)
(* services/permissions.py, security.py).                                   *)
(*                                                                         *)
(* A request that edits an account reads the one who asks and the one who   *)
(* is edited when it comes in, waits for the form, checks, and commits.     *)
(* Both accounts are the objects of the first reading until the end: a       *)
(* commit writes only the columns that differ from what was read.           *)
(***************************************************************************)
EXTENDS Naturals, FiniteSets

CONSTANTS
    Users,         \* account ids; the id of a deleted account is given out again
    Requests,      \* request handlers that may be under way together
    Config,        \* the account of the configured administrator's name
    NoUser,
    EditRequests   \* bound: requests that edit accounts

ASSUME AccountsAssumption == /\ Config \in Users
                             /\ NoUser \notin Users
                             /\ EditRequests \in Nat

VARIABLES account, request, left
accountVars == <<account, request, left>>

Statuses == {"active", "pending", "disabled"}
Verbs == {"create", "update", "approve", "reset", "link", "delete"}
NoAccount == [status |-> "none", admin |-> FALSE, manage |-> FALSE, change |-> FALSE, link |-> FALSE]
Accounts == [status : Statuses, admin : BOOLEAN, manage : BOOLEAN, change : BOOLEAN, link : BOOLEAN]
\* the role, the permission and the status a form asks for; change is asked for when
\* an account is made, a status when it is edited
Forms == [admin : BOOLEAN, manage : BOOLEAN, status : Statuses, change : BOOLEAN]
NoRequest == [at |-> "idle", verb |-> "none", me |-> NoUser, asAdmin |-> FALSE,
              target |-> NoUser, seen |-> NoAccount, new |-> NoAccount]

Exists(u) == account[u] # NoAccount
IsActive(a) == a.status = "active"
IsAdmin(a) == a.admin /\ IsActive(a)

\* A temporary password takes every permission away until it is changed.
CanManageUsers(a) == IsActive(a) /\ ~a.change /\ (a.admin \/ a.manage)

\* The account a session resolves to: whoever has the id now, while active.  A session
\* is a signed cookie that outlives the account: any id may have one.
Resolves(u) == IsActive(account[u])
RequireManager(u) == Resolves(u) /\ CanManageUsers(account[u])
\* A mutant: the configured name means nothing.
NoneProtected(u) == FALSE
IsProtected(u) == u = Config
ActiveAdmins(accounts, without) == {u \in Users \ without : IsAdmin(accounts[u])}

\* A mutant: the whole row is written.
WholeRow(seen, new, now) == new
\* Only the columns that differ from the reading are written, onto what is there.
Written(seen, new, now) ==
    [c \in DOMAIN now |-> IF new[c] # seen[c] THEN new[c] ELSE now[c]]

\* flush, count again in the same transaction, and commit or roll back
CommitUnlessOrphans(accounts) ==
    account' = IF ActiveAdmins(accounts, {}) = {} THEN account ELSE accounts

---------------------------------------------------------------------------
\* What an account does for itself

Register(u) ==
    /\ ~Exists(u)
    /\ account' = [account EXCEPT ![u] = [NoAccount EXCEPT !.status = "pending"]]
    /\ UNCHANGED <<request, left>>

ForgotPassword(u) ==
    /\ IsActive(account[u])
    /\ account' = [account EXCEPT ![u].link = TRUE]
    /\ UNCHANGED <<request, left>>

\* The link also works for an account that is not active any more.
ResetByLink(u) ==
    /\ account[u].link
    /\ account' = [account EXCEPT ![u].link = FALSE, ![u].change = FALSE]
    /\ UNCHANGED <<request, left>>

ChangePassword(u) ==
    /\ Resolves(u)
    /\ account[u].change
    /\ account' = [account EXCEPT ![u].change = FALSE]
    /\ UNCHANGED <<request, left>>

LinkExpires(u) ==
    /\ account[u].link
    /\ account' = [account EXCEPT ![u].link = FALSE]
    /\ UNCHANGED <<request, left>>

---------------------------------------------------------------------------
\* Administration

\* The first part of every handler: who asks, and whom it is about.
Begin(r, u, verb, target) ==
    /\ request[r].at = "idle"
    /\ left > 0
    /\ left' = left - 1
    /\ RequireManager(u)
    /\ (verb = "create") <=> (target = NoUser)
    /\ target # NoUser => Exists(target)
    /\ request' = [request EXCEPT ![r] =
          [at |-> "read", verb |-> verb, me |-> u, asAdmin |-> IsAdmin(account[u]),
           target |-> target, seen |-> IF target = NoUser THEN NoAccount ELSE account[target],
           new |-> NoAccount]]
    /\ UNCHANGED account

Removing(q, form) == q.seen.admin /\ ~form.admin
Disabling(form) == form.status # "active"

UpdateAllowed(q, form) ==
    IF q.asAdmin
    THEN /\ ~(IsProtected(q.target) /\ (Removing(q, form) \/ Disabling(form)))
         /\ q.seen.admin /\ (Removing(q, form) \/ Disabling(form)) => ActiveAdmins(account, {q.target}) # {}
         /\ ~(q.target = q.me /\ Disabling(form))
    ELSE ~q.seen.admin

DeleteAllowed(q) ==
    /\ q.target # q.me
    /\ ~IsProtected(q.target)
    /\ q.seen.admin => q.asAdmin /\ ActiveAdmins(account, {q.target}) # {}

Allowed(q, form) ==
    CASE q.verb = "create" -> TRUE
      [] q.verb = "update" -> UpdateAllowed(q, form)
      [] q.verb = "delete" -> DeleteAllowed(q)
      [] q.verb = "approve" -> (q.seen.admin => q.asAdmin) /\ q.seen.status = "pending"
      [] OTHER -> q.seen.admin => q.asAdmin

\* Only an administrator makes an administrator, or someone who manages users.
Created(q, form) ==
    LET admin == form.admin /\ q.asAdmin IN
    [status |-> "active", admin |-> admin, manage |-> form.manage /\ q.asAdmin /\ ~admin,
     change |-> form.change, link |-> FALSE]

\* What the form makes of the account that was read.
Updated(q, form) ==
    IF q.asAdmin
    THEN [q.seen EXCEPT !.admin = form.admin, !.status = form.status,
                        !.manage = IF form.admin THEN @ ELSE form.manage]
    ELSE [q.seen EXCEPT !.status = IF form.status # "pending" /\ q.target # q.me
                                   THEN form.status ELSE @]

\* Approving a registration, a temporary password shown once, and a link sent by mail.
Approved(q) == [q.seen EXCEPT !.status = "active"]
Temporary(q) == [q.seen EXCEPT !.change = TRUE, !.link = FALSE]
LinkSent(q) == [q.seen EXCEPT !.link = TRUE]

Edited(q, form) ==
    CASE q.verb = "create" -> Created(q, form)
      [] q.verb = "update" -> Updated(q, form)
      [] q.verb = "approve" -> Approved(q)
      [] q.verb = "reset" -> Temporary(q)
      [] q.verb = "link" -> LinkSent(q)
      [] OTHER -> NoAccount

\* The form has come, the checks before the commit are made, and the object is edited.
Check(r, form) ==
    LET q == request[r] IN
    /\ q.at = "read"
    /\ form.change => q.verb = "create"
    /\ form.status # "active" => q.verb = "update"
    /\ form.admin \/ form.manage => q.verb \in {"create", "update"}
    /\ request' = [request EXCEPT ![r] =
          IF Allowed(q, form) THEN [q EXCEPT !.at = "checked", !.new = Edited(q, form)] ELSE NoRequest]
    /\ UNCHANGED <<account, left>>

CreateUser(r) ==
    /\ request[r].at = "checked"
    /\ request[r].verb = "create"
    /\ \E u \in Users : ~Exists(u) /\ account' = [account EXCEPT ![u] = request[r].new]
    /\ request' = [request EXCEPT ![r] = NoRequest]
    /\ UNCHANGED left

\* An update of a row that is gone fails, and nothing is written.
EditUser(r) ==
    LET q == request[r] IN
    /\ q.at = "checked"
    /\ q.verb \in {"update", "approve", "reset", "link"}
    /\ IF ~Exists(q.target) THEN UNCHANGED account
       ELSE LET new == [account EXCEPT ![q.target] = Written(q.seen, q.new, @)] IN
            IF q.verb = "update" THEN CommitUnlessOrphans(new) ELSE account' = new
    /\ request' = [request EXCEPT ![r] = NoRequest]
    /\ UNCHANGED left

DeleteUser(r) ==
    /\ request[r].at = "checked"
    /\ request[r].verb = "delete"
    /\ CommitUnlessOrphans([account EXCEPT ![request[r].target] = NoAccount])
    /\ request' = [request EXCEPT ![r] = NoRequest]
    /\ UNCHANGED left

\* A start makes the configured administrator one, and active.
SeedAdmin(accounts) ==
    [accounts EXCEPT ![Config] =
        IF @ = NoAccount THEN [NoAccount EXCEPT !.status = "active", !.admin = TRUE]
        ELSE [@ EXCEPT !.status = "active", !.admin = TRUE]]

Startup ==
    /\ account' = SeedAdmin(account)
    /\ request' = [r \in Requests |-> NoRequest]
    /\ UNCHANGED left

---------------------------------------------------------------------------
AccountsInit ==
    /\ account = SeedAdmin([u \in Users |-> NoAccount])
    /\ left = EditRequests
    /\ request = [r \in Requests |-> NoRequest]

AccountsNext ==
    \/ \E u \in Users :
          \/ Register(u) \/ ForgotPassword(u) \/ LinkExpires(u)
          \/ ResetByLink(u) \/ ChangePassword(u)
    \/ \E r \in Requests :
          \/ \E u \in Users, verb \in Verbs, target \in Users \cup {NoUser} : Begin(r, u, verb, target)
          \/ \E form \in Forms : Check(r, form)
          \/ CreateUser(r) \/ EditUser(r) \/ DeleteUser(r)
    \/ Startup

AccountsSpec == AccountsInit /\ [][AccountsNext]_accountVars
---------------------------------------------------------------------------
(* Properties *)

\* Accounts and requests are as the tables and handlers hold them.
AccountsTypeOK ==
    /\ account \in [Users -> Accounts \cup {NoAccount}]
    /\ left \in 0..EditRequests
    /\ request \in [Requests -> [at : {"idle", "read", "checked"}, verb : Verbs \cup {"none"},
                                 me : Users \cup {NoUser}, asAdmin : BOOLEAN,
                                 target : Users \cup {NoUser}, seen : Accounts \cup {NoAccount},
                                 new : Accounts \cup {NoAccount}]]

\* The configured administrator's account is always there, an administrator and
\* active, whatever two requests on accounts do at once, so that the portal is never
\* locked out of its own administration (users.py, _is_protected_admin).
ConfigRemains == IsAdmin(account[Config])

\* The request that commits in a step, and whether it was an administrator's when
\* it came in.
Commits(r) == request[r].at = "checked" /\ request'[r] = NoRequest
ByAdmin == \E r \in Requests : Commits(r) /\ request[r].asAdmin

\* One step that gives a rank is an administrator's, and one that wakes an account asks for it.
RanksStep ==
    \A u \in Users :
        LET before == account[u]
            after == account'[u] IN
        /\ (after.admin /\ ~before.admin) \/ (after.manage /\ ~before.manage) => ByAdmin
        /\ IsActive(after) /\ ~IsActive(before) =>
              \E r \in Requests : Commits(r) /\ request[r].verb \in {"create", "update", "approve"}

\* Nobody becomes an administrator, or gets to manage users, but by the request of an
\* administrator, and nobody becomes active but by a request on that account: not by
\* registering, by a reset link, by a temporary password, by what a standard manager
\* creates, edits or approves, or by an id that is given out again.
RanksHold == [][RanksStep]_accountVars
=============================================================================
