------------------------------ MODULE ChangeLog ------------------------------
(***************************************************************************)
(* The rollback journal of services/change_log.py and the handlers that    *)
(* act on it: the portal's aa_revert, the MCP tool revert_change, the      *)
(* list-management endpoints, and the rails that publish and then record.  *)
(*                                                                         *)
(* Every actor is a request thread (a panel click, an MCP agent, a REST    *)
(* caller).  A revert runs in four steps that other threads interleave     *)
(* with: read the row and pick the verb, claim the row in the database,    *)
(* replay the inverse on the management server (SMS), and release the      *)
(* claim if the SMS refused.  The policy is abstracted to the status of    *)
(* each rule; an edit of a cell or of metadata names its rule only.        *)
(***************************************************************************)
EXTENDS Naturals, Sequences, FiniteSets

CONSTANTS
    Rules,       \* rule uids of one access layer
    Foreign,     \* the rules that were there before PolicyPilot wrote anything
    Actors,      \* request threads of the portal, the MCP server and the REST API
    MaxChanges,  \* bound: how many changes are published in a behaviour
    Events,      \* which events outside the protocol may happen
    MaxFaults,   \* bound: how many of them happen in a behaviour
    NoRow        \* an id of applied_changes with no row

EventKinds ==
    {"crash",      \* the process dies: every thread stops where it is
     "timeout",    \* wait_for_task gives up on a publish that commits all the same
     "nouid",      \* add-access-rule answers without the uid of the new rule
     "outofband",  \* an administrator deletes a rule in SmartConsole
     "dberror",    \* a best-effort write of the journal fails
     "forget"}     \* a journal entry is removed from the list

ASSUME RulesAssumption == Foreign \subseteq Rules
ASSUME BoundAssumption == MaxChanges \in Nat /\ MaxFaults \in Nat
ASSUME EventsAssumption == Events \subseteq EventKinds

Changes == 1 .. MaxChanges   \* the identity of a published change
Ids == 1 .. MaxChanges       \* primary keys of applied_changes

RuleStates == {"unused", "on", "off", "gone"}
\* "edit" is a widening or an amendment: nothing below tells them apart.
Outcomes == {"create", "edit", "deny", "disable", "delete"}
Verbs == {"rollback", "disable", "delete", "reenable"}
Resolutions == {"", "disabled", "reverted", "deleted"}

\* One whitelisted inverse op.  "edit" is a cell or metadata edit; "restore" is the
\* re-enable of a Policy Cleanup disable, which puts the custom fields back too.
Op == [op : {"delete", "enable", "restore", "disable", "edit", "recreate"}, uid : Rules]

\* The columns a claim moves: resolved is "reverted_at IS NOT NULL".
Stamp == [resolved : BOOLEAN, resolution : Resolutions]
Open == [resolved |-> FALSE, resolution |-> ""]

Row == [chg : Changes, outcome : Outcomes, inv : Seq(Op), stamp : Stamp]

ASSUME NoRowAssumption == NoRow \notin Row

VARIABLES
    rule,       \* the published policy: the status of every rule
    swept,      \* rules carrying the stamp of a Policy Cleanup disable
    log,        \* the applied_changes table
    act,        \* the program point of every thread, and what it holds
    born,       \* how many changes have been published
    faults,     \* how many events outside the protocol have happened
    undone,     \* history: how often a change's undo or finalize was committed
    doubt,      \* history: changes hit by a crash, a lost answer or an overlap
    disturbed   \* history: rules moved by something other than their own entry

vars == <<rule, swept, log, act, born, faults, undone, doubt, disturbed>>

-----------------------------------------------------------------------------
(* The state machine of one entry. *)

\* change_log.revert_state: the actionable state of a recorded change.
RevertState(r) ==
    IF r.stamp.resolved /\ r.stamp.resolution # "disabled" THEN "resolved"
    ELSE IF \/ r.stamp.resolution = "disabled"
            \/ r.outcome = "disable" /\ ~r.stamp.resolved
         THEN "disabled"
         ELSE "active"

\* Mutant: delete_rule no longer asks for a disabled rule.
VerbFitsAnyDelete(r, v) ==
    /\ r.inv # <<>>
    /\ RevertState(r) # "resolved"
    /\ v = "disable" => r.outcome \in {"create", "deny"}

\* Which verb the handlers accept on the row they read.
VerbFits(r, v) ==
    /\ r.inv # <<>>
    /\ \/ v \in {"delete", "reenable"} /\ RevertState(r) = "disabled"
       \/ /\ v = "disable"
          /\ r.outcome \in {"create", "deny"}
          /\ RevertState(r) = "active"
       \/ v = "rollback" /\ RevertState(r) = "active"

\* Mutant: disable_added_rules is ignored.
DisableAddedIgnored(ops) == ops

\* _effective_revert_ops: undo an added rule by disabling it.
DisableAdded(ops) ==
    [i \in DOMAIN ops |->
        IF ops[i].op = "delete" THEN [ops[i] EXCEPT !.op = "disable"] ELSE ops[i]]

\* The ops a verb replays.  delete and the fallback of reenable take the rule
\* of the FIRST inverse op.
OpsOf(r, v) ==
    CASE v = "delete"   -> <<[op |-> "delete", uid |-> r.inv[1].uid]>>
      [] v = "reenable" -> IF \A i \in DOMAIN r.inv : r.inv[i].op \in {"enable", "restore"}
                           THEN r.inv
                           ELSE <<[op |-> "enable", uid |-> r.inv[1].uid]>>
      [] v = "disable"  -> DisableAdded(r.inv)
      [] v = "rollback" -> r.inv

\* The columns the claim stamps before the SMS is touched.
StampOf(r, v) ==
    CASE v = "delete"   -> [resolved |-> TRUE, resolution |-> "deleted"]
      [] v = "reenable" -> IF r.outcome = "disable"
                           THEN [resolved |-> TRUE, resolution |-> "reverted"]
                           ELSE Open
      [] v = "disable"  -> [resolved |-> FALSE, resolution |-> "disabled"]
      [] v = "rollback" -> [resolved |-> TRUE, resolution |-> "reverted"]

\* Mutant: the claim filters on the id alone.
ClaimableById(r, seen) == r # NoRow

\* change_log.claim: UPDATE ... WHERE reverted_at IS NULL AND resolution = seen.
Claimable(r, seen) ==
    /\ r # NoRow
    /\ ~r.stamp.resolved
    /\ r.stamp.resolution = seen.resolution

\* Mutant: a failed revert does not release its claim.
NeverReleased(r, prior) == r

\* change_log.restore: UPDATE by id, whatever the row holds now.
Released(r, prior) == IF r = NoRow THEN NoRow ELSE [r EXCEPT !.stamp = prior]

-----------------------------------------------------------------------------
(* The policy. *)

Live(u) == rule[u] \in {"on", "off"}

Named(ops, kind) == {ops[i].uid : i \in {j \in DOMAIN ops : ops[j].op = kind}}

Uids(ops) == {ops[i].uid : i \in DOMAIN ops}

\* The rule a recreate op brings back gets a new uid; no other op needs one.
Fresh(ops) ==
    IF Named(ops, "recreate") = {} THEN {{}}
    ELSE {{u} : u \in {w \in Rules : rule[w] = "unused"}}

\* _apply_inverse_op over the op list, published at once.  An op on a rule that
\* is gone is a successful no-op; a recreated rule comes back disabled.
Replay(ops, fresh) ==
    [u \in Rules |->
        CASE u \in fresh -> "off"
          [] u \notin fresh /\ ~Live(u) -> rule[u]
          [] OTHER -> IF u \in Named(ops, "delete") THEN "gone"
                      ELSE IF u \in Named(ops, "enable") \cup Named(ops, "restore") THEN "on"
                      ELSE IF u \in Named(ops, "disable") THEN "off"
                      ELSE rule[u]]

ReplayStamps(ops) == swept \ {u \in Named(ops, "restore") : Live(u)}

-----------------------------------------------------------------------------
(* The threads. *)

Points == {"idle", "record", "claim", "sms", "restore"}

Idle == [pc |-> "idle", id |-> 0, verb |-> "rollback", row |-> NoRow]

\* The thread has stamped the entry and not yet settled it with the SMS.
Holding(a) == act[a].pc \in {"sms", "restore"}

\* The thread has read the entry and will act on its id.
InHand(a) == act[a].pc \in {"claim", "sms", "restore"}

\* One event outside the protocol.
Event(kind) ==
    /\ kind \in Events
    /\ faults < MaxFaults
    /\ faults' = faults + 1

TypeOK ==
    /\ rule \in [Rules -> RuleStates]
    /\ swept \subseteq Rules
    /\ log \in [Ids -> Row \cup {NoRow}]
    /\ act \in [Actors -> [pc : Points, id : Ids \cup {0}, verb : Verbs,
                           row : Row \cup {NoRow}]]
    /\ born \in Changes \cup {0}
    /\ faults \in 0 .. MaxFaults
    /\ undone \in [Changes -> 0 .. 2]
    /\ doubt \subseteq Changes
    /\ disturbed \subseteq Rules

Init ==
    /\ rule \in [Rules -> {"unused", "on"}]
    /\ \A u \in Rules : rule[u] = "on" <=> u \in Foreign
    /\ swept = {}
    /\ log = [i \in Ids |-> NoRow]
    /\ act = [a \in Actors |-> Idle]
    /\ born = 0
    /\ faults = 0
    /\ undone = [c \in Changes |-> 0]
    /\ doubt = {}
    /\ disturbed = {}

\* A publish has committed; the thread goes on to record it with its inverse.
Published(a, outcome, inv, stamp) ==
    /\ act[a].pc = "idle"
    /\ born < MaxChanges
    /\ born' = born + 1
    /\ act' = [act EXCEPT ![a] =
                 [pc |-> "record", id |-> 0, verb |-> "rollback",
                  row |-> [chg |-> born + 1, outcome |-> outcome, inv |-> inv,
                           stamp |-> stamp]]]
    /\ UNCHANGED <<log, faults, undone, doubt>>

\* The uid the SMS answers for an added rule, or nothing.
AddedInverse(u) ==
    {<<[op |-> "delete", uid |-> u]>>} \cup (IF "nouid" \in Events THEN {<<>>} ELSE {})

\* execute, CREATE: an Accept rule is added.
ApplyCreate(a) ==
    \E u \in Rules :
        /\ rule[u] = "unused"
        /\ rule' = [rule EXCEPT ![u] = "on"]
        /\ \E inv \in AddedInverse(u) : Published(a, "create", inv, Open)
        /\ UNCHANGED <<swept, disturbed>>

\* execute, WIDEN, and amend_execute: a cell or the metadata of a live rule.
ApplyEdit(a) ==
    \E u \in Rules :
        /\ Live(u)
        /\ Published(a, "edit", <<[op |-> "edit", uid |-> u]>>, Open)
        /\ UNCHANGED <<rule, swept, disturbed>>

\* remove_execute, DENY: a Drop is added above the grant, and the source of a
\* shadowed grant may be narrowed in the same publish.
RemoveDeny(a) ==
    \E u \in Rules :
        /\ rule[u] = "unused"
        /\ rule' = [rule EXCEPT ![u] = "on"]
        /\ \E inv \in AddedInverse(u),
              narrow \in {<<>>} \cup {<<[op |-> "edit", uid |-> w]>> :
                                        w \in {x \in Rules : Live(x)}} :
              Published(a, "deny", inv \o narrow, Open)
        /\ UNCHANGED <<swept, disturbed>>

\* remove_execute, DISABLE.
RemoveDisable(a) ==
    \E u \in Rules :
        /\ rule[u] = "on"
        /\ rule' = [rule EXCEPT ![u] = "off"]
        /\ Published(a, "disable", <<[op |-> "enable", uid |-> u]>>, Open)
        /\ disturbed' = disturbed \cup ({u} \ Foreign)
        /\ UNCHANGED swept

\* Policy Cleanup disables a rule and stamps it.
CleanupDisable(a) ==
    \E u \in Rules :
        /\ rule[u] = "on"
        /\ rule' = [rule EXCEPT ![u] = "off"]
        /\ swept' = swept \cup {u}
        /\ Published(a, "disable", <<[op |-> "restore", uid |-> u]>>, Open)
        /\ disturbed' = disturbed \cup ({u} \ Foreign)

\* Policy Cleanup deletes a rule it reads as disabled by itself; without a snapshot of it the entry
\* is recorded as already resolved.
CleanupDelete(a) ==
    \E u \in Rules :
        /\ rule[u] = "off" /\ u \in swept
        /\ rule' = [rule EXCEPT ![u] = "gone"]
        /\ UNCHANGED swept
        /\ \/ Published(a, "delete", <<[op |-> "recreate", uid |-> u]>>, Open)
           \/ Published(a, "delete", <<>>,
                        [resolved |-> TRUE, resolution |-> "deleted"])
        /\ disturbed' = disturbed \cup ({u} \ Foreign)

LiveIds == {i \in Ids : log[i] # NoRow}

\* SQLite hands out one more than the largest id in the table: the id of a
\* deleted last row comes back.
NextId(i) == (\A j \in LiveIds : j < i) /\ (i = 1 \/ i - 1 \in LiveIds)

\* change_log.record, after the publish and best-effort.
Record(a) ==
    /\ act[a].pc = "record"
    /\ act' = [act EXCEPT ![a] = Idle]
    /\ \/ \E i \in Ids :
            /\ NextId(i)
            /\ log' = [log EXCEPT ![i] = act[a].row]
            /\ IF \E b \in Actors : InHand(b) /\ act[b].id = i
               THEN /\ doubt' = doubt \cup {act[a].row.chg}
                    /\ disturbed' = disturbed \cup Uids(act[a].row.inv)
               ELSE UNCHANGED <<doubt, disturbed>>
            /\ UNCHANGED faults
       \/ /\ Event("dberror")
          /\ UNCHANGED <<log, doubt, disturbed>>
    /\ UNCHANGED <<rule, swept, born, undone>>

\* aa_revert and revert_change up to the claim: read the row, check the verb.
Look(a) ==
    /\ act[a].pc = "idle"
    /\ \E i \in Ids, v \in Verbs :
        /\ log[i] # NoRow
        /\ VerbFits(log[i], v)
        /\ act' = [act EXCEPT ![a] =
                     [pc |-> "claim", id |-> i, verb |-> v, row |-> log[i]]]
    /\ UNCHANGED <<rule, swept, log, born, faults, undone, doubt, disturbed>>

\* The outcomes every verb of which closes the entry: an edit, a disable or a
\* cleanup delete is never taken back to an open state.
ClosesAtOnce(r) == r.outcome \notin {"create", "deny"}

\* An added rule may be claimed while another thread still holds a claim on it:
\* disable and reenable leave the entry open.
Overlaps(a) ==
    /\ ~ClosesAtOnce(act[a].row)
    /\ \E b \in Actors \ {a} : Holding(b) /\ act[b].row.chg = act[a].row.chg

\* The claim is one UPDATE by id; a thread whose UPDATE matches nothing gives up.
Claim(a) ==
    LET me == act[a]  i == act[a].id
    IN  /\ me.pc = "claim"
        /\ IF Claimable(log[i], me.row.stamp)
           THEN /\ log' = [log EXCEPT ![i].stamp = StampOf(me.row, me.verb)]
                /\ act' = [act EXCEPT ![a].pc = "sms"]
                /\ IF Overlaps(a)
                   THEN /\ doubt' = doubt \cup {me.row.chg}
                        /\ disturbed' = disturbed \cup Uids(me.row.inv)
                   ELSE UNCHANGED <<doubt, disturbed>>
           ELSE /\ act' = [act EXCEPT ![a] = Idle]
                /\ UNCHANGED <<log, doubt, disturbed>>
        /\ UNCHANGED <<rule, swept, born, faults, undone>>

\* Whether the step the thread commits closes the change for good.
Closes(a) == StampOf(act[a].row, act[a].verb).resolved

\* The tally stops at 2, "more than once".
Tally(a) ==
    undone' = IF Closes(a) /\ undone[act[a].row.chg] < 2
              THEN [undone EXCEPT ![act[a].row.chg] = @ + 1]
              ELSE undone

\* revert_execute publishes the inverse.
SmsCommit(a) ==
    LET ops == OpsOf(act[a].row, act[a].verb)
    IN  /\ act[a].pc = "sms"
        /\ \E fresh \in Fresh(ops) : rule' = Replay(ops, fresh)
        /\ swept' = ReplayStamps(ops)
        /\ Tally(a)
        /\ act' = [act EXCEPT ![a] = Idle]
        /\ UNCHANGED <<log, born, faults, doubt, disturbed>>

\* revert_execute fails and has discarded the session.
SmsFail(a) ==
    /\ act[a].pc = "sms"
    /\ act' = [act EXCEPT ![a].pc = "restore"]
    /\ UNCHANGED <<rule, swept, log, born, faults, undone, doubt, disturbed>>

\* publish times out in wait_for_task: reported as failed, committed all the same.
SmsTimeout(a) ==
    LET ops == OpsOf(act[a].row, act[a].verb)
    IN  /\ Event("timeout")
        /\ act[a].pc = "sms"
        /\ \E fresh \in Fresh(ops) : rule' = Replay(ops, fresh)
        /\ swept' = ReplayStamps(ops)
        /\ Tally(a)
        /\ act' = [act EXCEPT ![a].pc = "restore"]
        /\ doubt' = doubt \cup {act[a].row.chg}
        /\ disturbed' = disturbed \cup Uids(act[a].row.inv)
        /\ UNCHANGED <<log, born>>

\* The claim is released by putting the captured columns back, best-effort.
Restore(a) ==
    /\ act[a].pc = "restore"
    /\ act' = [act EXCEPT ![a] = Idle]
    /\ \/ /\ log' = [log EXCEPT ![act[a].id] = Released(@, act[a].row.stamp)]
          /\ UNCHANGED <<faults, doubt, disturbed>>
       \/ /\ Event("dberror")
          /\ doubt' = doubt \cup {act[a].row.chg}
          /\ disturbed' = disturbed \cup Uids(act[a].row.inv)
          /\ UNCHANGED log
    /\ UNCHANGED <<rule, swept, born, undone>>

\* Rows leave the list; those a thread has in hand are in doubt from then on.
Forgotten(ids) ==
    LET held == {b \in Actors : InHand(b) /\ act[b].id \in ids}
    IN  /\ log' = [i \in Ids |-> IF i \in ids THEN NoRow ELSE log[i]]
        /\ doubt' = doubt \cup {log[i].chg : i \in {act[b].id : b \in held}}
        /\ disturbed' = disturbed \cup UNION {Uids(log[i].inv) : i \in {act[b].id : b \in held}}
        /\ UNCHANGED <<rule, swept, act, born, undone>>

\* change_log.delete_entry, whatever the state of the entry.
DeleteEntry ==
    /\ Event("forget")
    /\ \E i \in LiveIds : Forgotten({i})

\* change_log.clear_resolved.
ClearResolved ==
    /\ Event("forget")
    /\ \E i \in LiveIds : log[i].stamp.resolved
    /\ Forgotten({i \in LiveIds : log[i].stamp.resolved})

\* The process stops: claims stay stamped, published changes stay unrecorded.
Crash ==
    LET held == {b \in Actors : Holding(b)}
    IN  /\ Event("crash")
        /\ \E b \in Actors : act[b].pc # "idle"
        /\ act' = [a \in Actors |-> Idle]
        /\ doubt' = doubt \cup {act[b].row.chg : b \in held}
        /\ disturbed' = disturbed \cup UNION {Uids(act[b].row.inv) : b \in held}
        /\ UNCHANGED <<rule, swept, log, born, undone>>

\* A rule is deleted in SmartConsole.
OutOfBand ==
    /\ Event("outofband")
    /\ \E u \in Rules :
        /\ Live(u)
        /\ rule' = [rule EXCEPT ![u] = "gone"]
        /\ disturbed' = disturbed \cup {u}
    /\ UNCHANGED <<swept, log, act, born, undone, doubt>>

Next ==
    \/ \E a \in Actors :
        \/ ApplyCreate(a) \/ ApplyEdit(a) \/ RemoveDeny(a)
        \/ RemoveDisable(a) \/ CleanupDisable(a) \/ CleanupDelete(a) \/ Record(a)
        \/ Look(a) \/ Claim(a)
        \/ SmsCommit(a) \/ SmsFail(a) \/ SmsTimeout(a) \/ Restore(a)
    \/ DeleteEntry \/ ClearResolved \/ Crash \/ OutOfBand

Spec == Init /\ [][Next]_vars

-----------------------------------------------------------------------------
(* Properties. *)

\* At most one thread works on a change whose verbs all close it: the claim of
\* change_log.claim lets one of several clicks, agents or callers through, and
\* a failed one releases it before the next may win.
OneThreadPerChange ==
    \A a, b \in Actors :
        /\ Holding(a) /\ Holding(b)
        /\ act[a].row.chg = act[b].row.chg
        /\ ClosesAtOnce(act[a].row)
        /\ act[a].row.chg \notin doubt
        => a = b

\* An entry nobody is working on says "resolved" exactly when the SMS has
\* committed its undo: a failed revert leaves it open, a committed one never does.
\* (An entry recorded as already resolved has nothing to undo.)
LogTellsTruth ==
    \A i \in LiveIds :
        LET r == log[i]
        IN  /\ ClosesAtOnce(r) /\ r.inv # <<>>
            /\ r.chg \notin doubt
            /\ \A a \in Actors : Holding(a) => act[a].row.chg # r.chg
            => (r.stamp.resolved <=> undone[r.chg] = 1)

\* An entry of an added rule nobody is working on shows the rule's real status:
\* active is on, disabled is off, resolved is gone.
AddedRuleShown(r) ==
    LET u == r.inv[1].uid
    IN  CASE RevertState(r) = "active"   -> rule[u] = "on"
          [] RevertState(r) = "disabled" -> rule[u] = "off"
          [] RevertState(r) = "resolved" -> rule[u] = "gone"

AddsRule(r) == r.outcome \in {"create", "deny"} /\ r.inv # <<>> /\ r.inv[1].op = "delete"

\* A journal entry and the policy agree on an added rule between reverts, when no
\* crash, lost answer, foreign edit or overlap has come between them.
LogMatchesPolicy ==
    \A i \in LiveIds :
        /\ AddsRule(log[i])
        /\ log[i].chg \notin doubt
        /\ log[i].inv[1].uid \notin disturbed
        /\ \A a \in Actors : Holding(a) => act[a].row.chg # log[i].chg
        => AddedRuleShown(log[i])

\* The same for the only change ever published, with overlapping reverts of it not
\* excused: what the claim is for ("only ONE actor acts on it").
SettledEntriesMatchPolicy ==
    \A i \in LiveIds :
        /\ AddsRule(log[i])
        /\ \A a \in Actors : InHand(a) => act[a].row.chg # log[i].chg
        /\ born = 1
        => AddedRuleShown(log[i])

\* A rollback undoes what PolicyPilot did: it never deletes a rule in force that
\* PolicyPilot did not add.
ForeignRulesSurvive ==
    [][\A u \in Foreign \ disturbed' : rule[u] = "on" => rule'[u] # "gone"]_vars

\* What a reader of the journal may rely on while a thread is between its claim
\* and the SMS: the state the change had before the claim.
ViewOf(c) ==
    LET rows == {i \in LiveIds : log[i].chg = c}
        holders == {a \in Actors : Holding(a) /\ act[a].row.chg = c}
    IN  IF c > born \/ \E a \in Actors : act[a].pc = "record" /\ act[a].row.chg = c
        THEN "none"
        ELSE IF rows = {} THEN "lost"
        ELSE IF c \in doubt THEN "doubtful"
        ELSE IF holders # {} THEN RevertState(act[CHOOSE a \in holders : TRUE].row)
        ELSE RevertState(log[CHOOSE i \in rows : TRUE])

Lifecycle == INSTANCE RevertLifecycle WITH view <- [c \in Changes |-> ViewOf(c)]

\* Every entry follows the documented lifecycle; resolved is final.
LifecycleSpec == Lifecycle!Spec

=============================================================================
