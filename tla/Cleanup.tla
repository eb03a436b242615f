------------------------------- MODULE Cleanup -------------------------------
(***************************************************************************)
(* Policy clean-up: a plan of rules to disable or to delete by their hits, *)
(* its apply on rules that are read again, the journal of what it did and  *)
(* the rollback of it, while people edit the rules, traffic hits them and  *)
(* the policy is installed.  Time is in days.                              *)
(***************************************************************************)
EXTENDS Integers, FiniteSets, FiniteSetsExt

CONSTANTS
    Uids,          \* rules of the layer, and those a rollback may add
    Targets,       \* the gateways that run the layer's package
    Jobs,          \* requests to apply the plan
    Pins,          \* overrides a person may write on a rule: None, Never, Invalid, or days
    DisableAfter,  \* the thresholds of the request
    DeleteAfter,
    None,
    MaxTime,       \* bounds the days
    MaxEdits       \* bounds what people do to the rules

Never == -1
Invalid == 0

ASSUME ThresholdsAssumption == DisableAfter \in Nat \ {0} /\ DeleteAfter \in Nat \ {0}
ASSUME PinsAssumption == Pins \subseteq {None} \cup {Never, Invalid} \cup Nat
ASSUME BoundsAssumption == MaxTime \in Nat /\ MaxEdits \in Nat

VARIABLES
    rule,      \* the live rules: what the server says of each, and who did what to it
    inst,      \* when each target got the package
    now,
    plan,      \* what the last scan proposed
    job,       \* where each apply is, and the rules it read
    journal,   \* what was recorded: an operation and its inverse
    cut,       \* history: what the last apply did to rules
    edits

cleanupVars == <<rule, inst, now, plan, job, journal, cut, edits>>

LiveRules == {u \in Uids : rule[u] # None}

-----------------------------------------------------------------------------
(* Classification of one rule. *)

\* Mutant: only the last hit counts.
HitOnly(r) == r.hit

\* _last_hit_time(): a rule that was changed after its last hit counts from the change.
LastHitTime(r) == IF r.hit > r.modified THEN r.hit ELSE r.modified

\* _final_threshold(): a rule's own override goes before the threshold of the request.
Threshold(local, global) == IF local = None THEN global ELSE local

\* install_context(): the oldest install, unless some target has none.
InstalledAt == IF \E t \in Targets : inst[t] = None THEN None ELSE Min({inst[t] : t \in Targets})

\* What was changed after the last install is not enforced, so its hits say nothing.
NotEnforced(r) == InstalledAt # None /\ r.modified > InstalledAt

\* classify_rule() for an enabled rule ...
VerdictEnabled(r) ==
    LET days == Threshold(r.pin1, DisableAfter)
    IN  IF NotEnforced(r) \/ days = Invalid THEN "skip"
        ELSE IF days # Never /\ LastHitTime(r) + days < now THEN "disable" ELSE "keep"

\* ... and for a disabled one, which only goes when this tool disabled it long ago.
VerdictDisabled(r) ==
    LET days == Threshold(r.pin2, DeleteAfter)
    IN  IF days = Invalid THEN "skip"
        ELSE IF days # Never /\ r.stamp # None /\ r.stamp + days < now THEN "delete" ELSE "keep"

Verdict(r) == IF r.on THEN VerdictEnabled(r) ELSE VerdictDisabled(r)

-----------------------------------------------------------------------------
(* The plan and its apply. *)

\* scan_layer(): the rules with something to do.
Scan ==
    /\ plan' = {[uid |-> u, want |-> Verdict(rule[u])] : u \in {v \in LiveRules : Verdict(rule[v]) \in {"disable", "delete"}}}
    /\ plan' # plan
    /\ UNCHANGED <<rule, inst, now, job, journal, cut, edits>>

\* _reclassify(): the rules a person kept from the plan are read again; what vanished or
\* would be judged otherwise now is skipped.
Fresh(rows) == {x \in rows : x.uid \in LiveRules /\ Verdict(rule[x.uid]) = x.want}

Reclassify(j) ==
    /\ job[j].at = "idle"
    /\ \E rows \in SUBSET plan, publish \in BOOLEAN :
         /\ Fresh(rows) # {}
         /\ job' = [job EXCEPT ![j] = [at |-> "read", publish |-> publish, day |-> now,
                fresh |-> {[uid |-> x.uid, want |-> x.want, was |-> rule[x.uid]] : x \in Fresh(rows)}]]
    /\ UNCHANGED <<rule, inst, now, plan, journal, cut, edits>>

\* build_ops(): a disable writes the stamp, and the overrides as they were read.
Disabled(x, day) ==
    [rule[x.uid] EXCEPT !.on = FALSE, !.modified = now, !.stamp = day,
                        !.pin1 = x.was.pin1, !.pin2 = x.was.pin2,
                        !.who = "tool", !.since = day, !.stale = FALSE]

Operated(fresh, day) ==
    [u \in Uids |->
        IF \E x \in fresh : x.uid = u /\ x.want = "delete" THEN None
        ELSE IF \E x \in fresh : x.uid = u
        THEN Disabled(CHOOSE x \in fresh : x.uid = u, day)
        ELSE rule[u]]

Cut(j) ==
    {[op |-> x.want, rule |-> rule[x.uid], undisturbed |-> rule[x.uid] = x.was, day |-> job[j].day] :
        x \in job[j].fresh}

Stop(j) == job' = [job EXCEPT ![j].at = "idle", ![j].fresh = {}]

\* apply_changes(): all operations are published together, or none is: a dry run, a rule that
\* is gone, a lock or an error discards them.  An answer that is lost after the publish reads
\* as an error.
Commit(j) ==
    /\ job[j].at = "read"
    /\ \/ Stop(j) /\ UNCHANGED <<rule, cut>>
       \/ /\ job[j].publish /\ \A x \in job[j].fresh : x.uid \in LiveRules
          /\ rule' = Operated(job[j].fresh, job[j].day)
          /\ cut' = Cut(j)
          /\ Stop(j) \/ job' = [job EXCEPT ![j].at = "record"]
    /\ UNCHANGED <<inst, now, plan, journal, edits>>

\* Mutant: the restore puts back the overrides and leaves the new stamp.
StampLeft(x, day) ==
    [pin1 |-> x.was.pin1, pin2 |-> x.was.pin2, stamp |-> day, stale |-> x.was.stale]

\* _disable_inverse(): enabled again, with what the rule had before.  The stamp is blanked, but
\* setdefault() keeps one that an earlier disable left on the rule.
DisableInverse(x, day) ==
    [pin1 |-> x.was.pin1, pin2 |-> x.was.pin2, stamp |-> x.was.stamp, stale |-> x.was.stale]

\* _recreate_inverse(): the rule as it was, disabled and without a stamp.
RecreateInverse(x) == [x.was EXCEPT !.on = FALSE, !.stamp = None, !.who = "revert", !.stale = FALSE]

InverseOf(x, day) ==
    IF x.want = "disable" THEN [op |-> "enable", uid |-> x.uid, back |-> DisableInverse(x, day)]
                          ELSE [op |-> "recreate", uid |-> x.uid, back |-> RecreateInverse(x)]

\* _record_batch(): one entry for each rule, committed one by one until the journal fails.
RecordBatch(j) ==
    /\ job[j].at = "record" /\ Stop(j)
    /\ \E done \in SUBSET job[j].fresh : journal' = journal \cup {InverseOf(x, job[j].day) : x \in done}
    /\ UNCHANGED <<rule, inst, now, plan, cut, edits>>

\* The rollback of an entry, once: on a rule that is gone it does nothing.
RevertDisable(e) ==
    /\ e.op = "enable"
    /\ rule' = IF e.uid \notin LiveRules THEN rule
               ELSE [rule EXCEPT ![e.uid] = [@ EXCEPT !.on = TRUE, !.modified = now,
                        !.pin1 = e.back.pin1, !.pin2 = e.back.pin2,
                        !.stamp = e.back.stamp, !.stale = e.back.stale,
                        !.who = "revert", !.since = now]]
    /\ journal' = journal \ {e}
    /\ UNCHANGED <<inst, now, plan, job, cut, edits>>

\* _apply_inverse_op() of a recreate: the server gives the rule a new uid, and starts its hits
\* and its dates anew.
RevertDelete(e) ==
    /\ e.op = "recreate"
    /\ \E u \in Uids \ LiveRules :
         rule' = [rule EXCEPT ![u] = [e.back EXCEPT !.modified = now, !.since = now, !.hit = 0]]
    /\ journal' = journal \ {e}
    /\ UNCHANGED <<inst, now, plan, job, cut, edits>>

-----------------------------------------------------------------------------
(* People, traffic and time. *)

Edit == edits > 0 /\ edits' = edits - 1

PersonOnly == UNCHANGED <<inst, now, plan, job, journal, cut>>

\* Enabled or disabled in SmartConsole, which knows nothing of the stamp.
Toggle(u) ==
    /\ Edit
    /\ rule' = [rule EXCEPT ![u].on = ~@, ![u].modified = now, ![u].who = "person", ![u].since = now,
                            ![u].stale = @ \/ (~rule[u].on /\ rule[u].stamp # None)]
    /\ PersonOnly

Pin(u) ==
    /\ Edit
    /\ \E p \in Pins : \/ rule' = [rule EXCEPT ![u].modified = now, ![u].pin1 = p]
                      \/ rule' = [rule EXCEPT ![u].modified = now, ![u].pin2 = p]
    /\ PersonOnly

Remove(u) ==
    /\ Edit
    /\ rule' = [rule EXCEPT ![u] = None]
    /\ PersonOnly

Hit(u) ==
    /\ rule[u].on /\ rule[u].hit < now /\ Edit
    /\ rule' = [rule EXCEPT ![u].hit = now]
    /\ PersonOnly

Install(t) ==
    /\ inst[t] # now /\ inst' = [inst EXCEPT ![t] = now]
    /\ UNCHANGED <<rule, now, plan, job, journal, cut, edits>>

Tick ==
    /\ now < MaxTime /\ now' = now + 1
    /\ UNCHANGED <<rule, inst, plan, job, journal, cut, edits>>

-----------------------------------------------------------------------------
FirstRule ==
    [on |-> TRUE, hit |-> 0, modified |-> 0, stamp |-> None, pin1 |-> None, pin2 |-> None,
     who |-> "person", since |-> 0, stale |-> FALSE]

CleanupInit ==
    /\ \E there \in (SUBSET Uids) \ {{}} : rule = [u \in Uids |-> IF u \in there THEN FirstRule ELSE None]
    /\ inst \in [Targets -> {None, 0}]
    /\ now = 0 /\ plan = {} /\ journal = {} /\ cut = {} /\ edits = MaxEdits
    /\ job = [j \in Jobs |-> [at |-> "idle", publish |-> FALSE, day |-> 0, fresh |-> {}]]

CleanupNext ==
    \/ Scan \/ Tick
    \/ \E j \in Jobs : Reclassify(j) \/ Commit(j) \/ RecordBatch(j)
    \/ \E e \in journal : RevertDisable(e) \/ RevertDelete(e)
    \/ \E u \in LiveRules : Toggle(u) \/ Pin(u) \/ Remove(u) \/ Hit(u)
    \/ \E t \in Targets : Install(t)

CleanupSpec == CleanupInit /\ [][CleanupNext]_cleanupVars

-----------------------------------------------------------------------------
(* What must hold. *)

\* A rule that is deleted was disabled by this tool and not by a person or a rollback, and
\* since then the time of its threshold went by: whatever was rolled back and toggled before.
\* Left out: a rule that changed while the apply was under way, and one with a stamp that a
\* person enabled, since nothing takes that stamp away.
DeletesOnlyItsOwn ==
    \A x \in cut : x.op = "delete" /\ x.undisturbed /\ ~x.rule.stale =>
        x.rule.who = "tool" /\ x.rule.since + Threshold(x.rule.pin2, DeleteAfter) < x.day

\* A rule that was enabled, by a person or by a rollback, is left alone for the time of its
\* threshold: a rollback is not undone by the next plan.
EnabledGetsItsTime ==
    \A x \in cut : x.op = "disable" /\ x.undisturbed =>
        x.rule.since + Threshold(x.rule.pin1, DisableAfter) < x.day

\* The comment of _disable_inverse(): a restore clears the stamp of the rule, because "a
\* lingering stale stamp would make a later HUMAN disable of the restored rule read as
\* tool-disabled and eligible for deletion".
RestoreClearsTheStamp == \A u \in LiveRules : rule[u].who = "revert" => rule[u].stamp = None

=============================================================================
