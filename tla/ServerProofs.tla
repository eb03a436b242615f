----------------------------- MODULE ServerProofs -----------------------------
(***************************************************************************)
(* Proofs about what the portal writes to the management server, and says  *)
(* of it: the journal of its rules (ChangeLog) and the objects its rules   *)
(* refer to (Objects).                                                     *)
(*                                                                         *)
(* ChangeLog, for every number of rules, threads and changes               *)
(* and every set of events: the type invariant; that a change whose verbs  *)
(* all close it is worked on by one thread at a time; that an entry tells  *)
(* whether its undo was committed; that the journal implements its         *)
(* lifecycle; and, where the SMS names every rule it adds, that an added   *)
(* rule's entry shows that rule's status and that no rule of the           *)
(* administrator's is taken away.                                          *)
(*                                                                         *)
(* The claim alone does not give exclusion: it is an UPDATE by id, ids     *)
(* come back after a delete, and a release writes by id too.  The          *)
(* inductive invariant says why it is enough outside doubt: a thread with  *)
(* a change in hand still finds that change at its id, and the entry of a  *)
(* held change is resolved, which is what the next claim looks at.  What   *)
(* rows say of rules holds because a change is written down once and       *)
(* copied from then on, and a verb replays ops on its own change's rules.  *)
(*                                                                         *)
(* Objects, for every server, layers, requests and room for addresses: a   *)
(* rule refers to the object the request means, the apply does what the    *)
(* preview showed, no name is guessed, and none that is there is refused.  *)
(* An answer is as good as the listing it stands on, so each lookup has a  *)
(* lemma that says what it finds, and when what it finds is the only one.  *)
(***************************************************************************)
EXTENDS ChangeLog, Objects, FiniteSetTheorems, TLAPS

-----------------------------------------------------------------------------
(* The journal. *)

Busy(a) == act[a].pc # "idle"

\* A thread at work has a row in its hand, and past the read an id to act on.
HandsFull ==
    /\ \A a \in Actors : Busy(a) => act[a].row \in Row
    /\ \A a \in Actors : InHand(a) => act[a].id \in Ids

\* Changes are numbered in the order they are published.
ChangesKnown ==
    /\ \A i \in Ids : log[i] # NoRow => log[i].chg <= born
    /\ \A a \in Actors : Busy(a) => act[a].row.chg <= born

\* A change on its way to the journal is nowhere else.
RecordsFresh ==
    \A a \in Actors : act[a].pc = "record" =>
        /\ \A i \in Ids : log[i] # NoRow => log[i].chg # act[a].row.chg
        /\ \A b \in Actors \ {a} : Busy(b) => act[b].row.chg # act[a].row.chg

\* No change has two entries.
EntriesDistinct ==
    \A i, j \in Ids :
        log[i] # NoRow /\ log[j] # NoRow /\ log[i].chg = log[j].chg => i = j

\* Outside doubt the id a thread acts on still names the entry it read; an entry
\* that took the id over since is in doubt.
HandsCurrent ==
    \A a \in Actors : InHand(a) =>
        /\ act[a].row.chg \notin doubt =>
            /\ log[act[a].id] # NoRow
            /\ log[act[a].id].chg = act[a].row.chg
            /\ log[act[a].id].outcome = act[a].row.outcome
        /\ log[act[a].id] # NoRow /\ log[act[a].id].chg # act[a].row.chg
           => log[act[a].id].chg \in doubt

\* An entry that closes at once is never left disabled by a rollback.
NeverParked(r) == ClosesAtOnce(r) /\ r.chg \notin doubt => r.stamp.resolution # "disabled"

NothingParked ==
    /\ \A i \in Ids : log[i] # NoRow => NeverParked(log[i])
    /\ \A a \in Actors : Busy(a) => NeverParked(act[a].row)

\* A thread holds its change only after its verb was checked on the row it read.
VerbsChecked ==
    \A a \in Actors : InHand(a) => VerbFits(act[a].row, act[a].verb)

\* The entry of a held change shows as resolved.
HeldIsResolved ==
    \A a \in Actors :
        Holding(a) /\ ClosesAtOnce(act[a].row) /\ act[a].row.chg \notin doubt
        => log[act[a].id].stamp.resolved

IInv ==
    /\ TypeOK
    /\ HandsFull
    /\ ChangesKnown
    /\ RecordsFresh
    /\ EntriesDistinct
    /\ HandsCurrent
    /\ NothingParked
    /\ VerbsChecked
    /\ HeldIsResolved
    /\ OneThreadPerChange

-----------------------------------------------------------------------------
(* Typing. *)

\* The ops of a well-formed inverse name rules only.
LEMMA UidsAreRules ==
    ASSUME NEW ops \in Seq(Op)
    PROVE  Uids(ops) \subseteq Rules
<1>1. \A i \in DOMAIN ops : ops[i] \in Op
  OBVIOUS
<1>2. QED
  BY <1>1 DEF Uids, Op

\* A claim stamps well-formed columns, whatever the verb.
LEMMA StampOfType ==
    ASSUME NEW r, NEW v \in Verbs
    PROVE  StampOf(r, v) \in Stamp
  BY DEF StampOf, Stamp, Open, Verbs, Resolutions

\* The rows the rails write down are well-formed.
LEMMA PublishedRow ==
    ASSUME NEW c \in Changes, NEW outcome \in Outcomes, NEW inv \in Seq(Op),
           NEW stamp \in Stamp
    PROVE  [chg |-> c, outcome |-> outcome, inv |-> inv, stamp |-> stamp] \in Row
  BY DEF Row

\* A rail that publishes a well-formed change keeps the types.
LEMMA PublishedTyped ==
    ASSUME TypeOK, HandsFull, NEW a \in Actors,
           NEW outcome \in Outcomes, NEW inv \in Seq(Op), NEW stamp \in Stamp,
           Published(a, outcome, inv, stamp),
           rule' \in [Rules -> RuleStates], swept' \subseteq Rules,
           disturbed' \subseteq Rules
    PROVE  TypeOK' /\ HandsFull'
<1>1. born + 1 \in Changes
  BY BoundAssumption DEF Published, TypeOK, Changes
<1> DEFINE new == [chg |-> born + 1, outcome |-> outcome, inv |-> inv, stamp |-> stamp]
<1>2. new \in Row
  BY <1>1, PublishedRow
<1>3. act' = [act EXCEPT ![a] = [pc |-> "record", id |-> 0, verb |-> "rollback", row |-> new]]
  BY DEF Published
<1> HIDE DEF new
<1>4. TypeOK'
  BY <1>1, <1>2, <1>3 DEF TypeOK, Published, Points, Verbs
<1>5. HandsFull'
  BY <1>2, <1>3 DEF TypeOK, HandsFull, Busy, InHand
<1>6. QED
  BY <1>4, <1>5

\* A rule that is replayed on keeps a status, and the changed rules are rules.
LEMMA ReplayType ==
    ASSUME TypeOK, NEW ops, NEW fresh
    PROVE  /\ Replay(ops, fresh) \in [Rules -> RuleStates]
           /\ ReplayStamps(ops) \subseteq Rules
<1>1. \A u \in Rules : rule[u] \in RuleStates
  BY DEF TypeOK
<1>2. Replay(ops, fresh) \in [Rules -> RuleStates]
  BY <1>1, Zenon DEF Replay, RuleStates
<1>3. QED
  BY <1>2 DEF ReplayStamps, TypeOK

\* The tally of undos stays within its bound.
LEMMA TallyType ==
    ASSUME TypeOK, NEW a \in Actors, Tally(a)
    PROVE  undone' \in [Changes -> 0 .. 2]
<1> DEFINE c == act[a].row.chg
<1>1. undone \in [Changes -> 0 .. 2]
  BY DEF TypeOK
<1>2. \/ undone' = [undone EXCEPT ![c] = undone[c] + 1] /\ undone[c] < 2
     \/ undone' = undone
  BY Zenon DEF Tally
<1> HIDE DEF c
<1>3. CASE undone' = [undone EXCEPT ![c] = undone[c] + 1] /\ undone[c] < 2
  <2>1. ASSUME c \in Changes PROVE undone[c] + 1 \in 0 .. 2
    BY <1>1, <1>3, <2>1
  <2>2. QED
    BY <1>1, <1>3, <2>1
<1>4. QED
  BY <1>1, <1>2, <1>3

\* Whatever well-formed inverse the SMS's answer allows for an added rule.
LEMMA AddedInverseType ==
    ASSUME NEW u \in Rules, NEW inv \in AddedInverse(u)
    PROVE  inv \in Seq(Op)
<1>1. <<[op |-> "delete", uid |-> u]>> \in Seq(Op)
  BY DEF Op
<1>2. <<>> \in Seq(Op)
  OBVIOUS
<1>3. QED
  BY <1>1, <1>2 DEF AddedInverse

\* Every kind of publish writes down a well-formed change that is not parked.
LEMMA RailsPublish ==
    ASSUME TypeOK, NEW a \in Actors,
           \/ ApplyCreate(a) \/ ApplyEdit(a) \/ RemoveDeny(a)
           \/ RemoveDisable(a) \/ CleanupDisable(a) \/ CleanupDelete(a)
    PROVE  /\ \E outcome \in Outcomes, inv \in Seq(Op), stamp \in Stamp :
                 /\ Published(a, outcome, inv, stamp)
                 /\ stamp.resolution # "disabled"
                 /\ stamp.resolved => inv = <<>>
           /\ rule' \in [Rules -> RuleStates]
           /\ swept' \subseteq Rules
           /\ disturbed' \subseteq Rules
<1>1. /\ Open \in Stamp /\ Open.resolution # "disabled" /\ ~Open.resolved
      /\ [resolved |-> TRUE, resolution |-> "deleted"] \in Stamp
  BY DEF Open, Stamp, Resolutions
<1>2. Outcomes = {"create", "edit", "deny", "disable", "delete"}
  BY DEF Outcomes
<1>3. \A u \in Rules, k \in {"edit", "enable", "restore", "recreate"} :
         <<[op |-> k, uid |-> u]>> \in Seq(Op)
  BY DEF Op
<1>4. <<>> \in Seq(Op)
  OBVIOUS
<1>5. CASE ApplyCreate(a)
  BY <1>1, <1>2, <1>5, AddedInverseType DEF ApplyCreate, TypeOK, RuleStates
<1>6. CASE ApplyEdit(a)
  BY <1>1, <1>2, <1>3, <1>6 DEF ApplyEdit, TypeOK
<1>7. CASE RemoveDeny(a)
  <2>1. PICK u \in Rules :
          /\ rule' = [rule EXCEPT ![u] = "on"]
          /\ \E inv \in AddedInverse(u),
                narrow \in {<<>>} \cup {<<[op |-> "edit", uid |-> w]>> :
                                          w \in {x \in Rules : Live(x)}} :
                Published(a, "deny", inv \o narrow, Open)
          /\ UNCHANGED <<swept, disturbed>>
    BY <1>7 DEF RemoveDeny
  <2>2. PICK inv \in AddedInverse(u),
             narrow \in {<<>>} \cup {<<[op |-> "edit", uid |-> w]>> :
                                       w \in {x \in Rules : Live(x)}} :
          Published(a, "deny", inv \o narrow, Open)
    BY <2>1
  <2>3. inv \in Seq(Op) /\ narrow \in Seq(Op)
    BY <1>3, <1>4, AddedInverseType
  <2>4. inv \o narrow \in Seq(Op)
    BY <2>3
  <2>5. QED
    BY <1>1, <1>2, <2>1, <2>2, <2>4 DEF TypeOK, RuleStates
<1>8. CASE RemoveDisable(a)
  BY <1>1, <1>2, <1>3, <1>8 DEF RemoveDisable, TypeOK, RuleStates
<1>9. CASE CleanupDisable(a)
  BY <1>1, <1>2, <1>3, <1>9 DEF CleanupDisable, TypeOK, RuleStates
<1>10. CASE CleanupDelete(a)
  <2>1. PICK u \in Rules :
          /\ rule' = [rule EXCEPT ![u] = "gone"]
          /\ swept' = swept
          /\ \/ Published(a, "delete", <<[op |-> "recreate", uid |-> u]>>, Open)
             \/ Published(a, "delete", <<>>, [resolved |-> TRUE, resolution |-> "deleted"])
          /\ disturbed' = disturbed \cup ({u} \ Foreign)
    BY <1>10 DEF CleanupDelete
  <2>2. \E inv \in Seq(Op), stamp \in Stamp :
          Published(a, "delete", inv, stamp) /\ stamp.resolution # "disabled" /\ (stamp.resolved => inv = <<>>)
    <3>1. [resolved |-> TRUE, resolution |-> "deleted"].resolution # "disabled"
      OBVIOUS
    <3>2. QED
      BY <1>1, <1>3, <1>4, <2>1, <3>1
  <2>3. /\ rule' \in [Rules -> RuleStates]
        /\ swept' \subseteq Rules
        /\ disturbed' \subseteq Rules
    BY <2>1 DEF TypeOK, RuleStates
  <2>4. QED
    BY <1>2, <2>2, <2>3
<1>11. QED
  BY <1>5, <1>6, <1>7, <1>8, <1>9, <1>10

\* Every step keeps the state well-typed and every busy thread's hand full.
LEMMA TypedNext ==
    ASSUME TypeOK, HandsFull, [Next]_vars
    PROVE  TypeOK' /\ HandsFull'
<1> USE DEF Busy, InHand, Holding
<1>idle. [pc |-> "idle", id |-> 0, verb |-> "rollback", row |-> NoRow]
           \in [pc : Points, id : Ids \cup {0}, verb : Verbs, row : Row \cup {NoRow}]
  BY DEF Points, Verbs
<1>uids. \A r \in Row : Uids(r.inv) \subseteq Rules /\ r.chg \in Changes
  BY UidsAreRules DEF Row
<1>1. ASSUME NEW a \in Actors,
             \/ ApplyCreate(a) \/ ApplyEdit(a) \/ RemoveDeny(a)
             \/ RemoveDisable(a) \/ CleanupDisable(a) \/ CleanupDelete(a)
      PROVE  TypeOK' /\ HandsFull'
  BY <1>1, RailsPublish, PublishedTyped
<1>2. ASSUME NEW a \in Actors, Record(a) PROVE TypeOK' /\ HandsFull'
  <2>2. act[a].row \in Row
    BY <1>2 DEF Record, HandsFull
  <2>3. log' \in [Ids -> Row \cup {NoRow}]
    BY <1>2, <2>2 DEF Record, TypeOK
  <2>4. doubt' \subseteq Changes /\ disturbed' \subseteq Rules
    BY <1>2, <2>2, <1>uids DEF Record, TypeOK
  <2>5. faults' \in 0 .. MaxFaults
    BY <1>2, BoundAssumption DEF Record, Event, TypeOK
  <2>6. act' = [act EXCEPT ![a] = Idle]
    BY <1>2 DEF Record
  <2>7. QED
    BY <1>2, <1>idle, <2>3, <2>4, <2>5, <2>6 DEF Record, TypeOK, HandsFull, Idle
<1>3. ASSUME NEW a \in Actors, Look(a) PROVE TypeOK' /\ HandsFull'
  <2>1. PICK i \in Ids, v \in Verbs :
          /\ log[i] # NoRow
          /\ act' = [act EXCEPT ![a] =
                       [pc |-> "claim", id |-> i, verb |-> v, row |-> log[i]]]
    BY <1>3 DEF Look
  <2>2. log[i] \in Row
    BY <2>1 DEF TypeOK
  <2>3. QED
    BY <1>3, <2>1, <2>2 DEF Look, TypeOK, HandsFull, Points
<1>4. ASSUME NEW a \in Actors, Claim(a) PROVE TypeOK' /\ HandsFull'
  <2>1. act[a].row \in Row /\ act[a].id \in Ids /\ act[a].verb \in Verbs /\ act[a].pc = "claim"
    BY <1>4 DEF Claim, TypeOK, HandsFull
  <2> DEFINE st == StampOf(act[a].row, act[a].verb)
  <2>2. st \in Stamp
    BY <2>1, StampOfType
  <2>3. \/ /\ log[act[a].id] # NoRow
           /\ log' = [log EXCEPT ![act[a].id].stamp = st]
           /\ act' = [act EXCEPT ![a].pc = "sms"]
        \/ log' = log /\ act' = [act EXCEPT ![a] = Idle]
    BY <1>4 DEF Claim, Claimable
  <2> HIDE DEF st
  <2>4. log' \in [Ids -> Row \cup {NoRow}]
    <3>1. \A r \in Row : [r EXCEPT !.stamp = st] \in Row
      BY <2>2 DEF Row
    <3>2. QED
      BY <2>1, <2>3, <3>1 DEF TypeOK
  <2>5. doubt' \subseteq Changes /\ disturbed' \subseteq Rules
    BY <1>4, <2>1, <1>uids DEF Claim, TypeOK
  <2>6. /\ act' \in [Actors -> [pc : Points, id : Ids \cup {0}, verb : Verbs,
                                row : Row \cup {NoRow}]]
        /\ HandsFull'
    BY <2>1, <2>3, <1>idle DEF TypeOK, HandsFull, Idle, Points
  <2>7. QED
    BY <1>4, <2>4, <2>5, <2>6 DEF Claim, TypeOK
<1>5. ASSUME NEW a \in Actors, SmsCommit(a) PROVE TypeOK' /\ HandsFull'
  <2>1. rule' \in [Rules -> RuleStates] /\ swept' \subseteq Rules
    BY <1>5, ReplayType, Zenon DEF SmsCommit
  <2>2. undone' \in [Changes -> 0 .. 2]
    BY <1>5, TallyType DEF SmsCommit
  <2>3. act' = [act EXCEPT ![a] = Idle] /\ UNCHANGED <<log, born, faults, doubt, disturbed>>
    BY <1>5 DEF SmsCommit
  <2>4. QED
    BY <2>1, <2>2, <2>3, <1>idle DEF TypeOK, HandsFull, Idle
<1>6. ASSUME NEW a \in Actors, SmsFail(a) PROVE TypeOK' /\ HandsFull'
  BY <1>6 DEF SmsFail, TypeOK, HandsFull, Points
<1>7. ASSUME NEW a \in Actors, SmsTimeout(a) PROVE TypeOK' /\ HandsFull'
  <2>1. rule' \in [Rules -> RuleStates] /\ swept' \subseteq Rules
    BY <1>7, ReplayType, Zenon DEF SmsTimeout
  <2>2. undone' \in [Changes -> 0 .. 2]
    BY <1>7, TallyType DEF SmsTimeout
  <2>3. /\ act' = [act EXCEPT ![a].pc = "restore"]
        /\ act[a].pc = "sms"
        /\ UNCHANGED <<log, born>>
        /\ faults' \in 0 .. MaxFaults
    BY <1>7, BoundAssumption DEF SmsTimeout, Event, TypeOK
  <2>4. doubt' \subseteq Changes /\ disturbed' \subseteq Rules
    BY <1>7, <1>uids DEF SmsTimeout, TypeOK, HandsFull
  <2>5. QED
    BY <2>1, <2>2, <2>3, <2>4 DEF TypeOK, HandsFull, Points
<1>8. ASSUME NEW a \in Actors, Restore(a) PROVE TypeOK' /\ HandsFull'
  <2>1. act[a].row \in Row /\ act[a].id \in Ids
    BY <1>8 DEF Restore, HandsFull
  <2>2. Released(log[act[a].id], act[a].row.stamp) \in Row \cup {NoRow}
    BY <2>1 DEF Released, TypeOK, Row
  <2>3. log' \in [Ids -> Row \cup {NoRow}]
    BY <1>8, <2>1, <2>2 DEF Restore, TypeOK
  <2>4. doubt' \subseteq Changes /\ disturbed' \subseteq Rules
    BY <1>8, <2>1, <1>uids DEF Restore, TypeOK
  <2>5. faults' \in 0 .. MaxFaults /\ act' = [act EXCEPT ![a] = Idle]
    BY <1>8, BoundAssumption DEF Restore, Event, TypeOK
  <2>6. QED
    BY <1>8, <2>3, <2>4, <2>5, <1>idle DEF Restore, TypeOK, HandsFull, Idle
<1>9. ASSUME NEW ids \in SUBSET LiveIds, Forgotten(ids), faults' \in 0 .. MaxFaults
      PROVE  TypeOK' /\ HandsFull'
  <2> DEFINE held == {b \in Actors : InHand(b) /\ act[b].id \in ids}
             hit == {act[b].id : b \in held}
  <2>1. \A i \in hit : log[i] \in Row
    BY <1>9 DEF LiveIds, TypeOK
  <2>2. /\ doubt' = doubt \cup {log[i].chg : i \in hit}
        /\ disturbed' = disturbed \cup UNION {Uids(log[i].inv) : i \in hit}
        /\ log' = [i \in Ids |-> IF i \in ids THEN NoRow ELSE log[i]]
        /\ UNCHANGED <<rule, swept, act, born, undone>>
    BY <1>9 DEF Forgotten
  <2> HIDE DEF hit
  <2>3. doubt' \subseteq Changes /\ disturbed' \subseteq Rules
    BY <2>1, <2>2, <1>uids DEF TypeOK
  <2>4. QED
    BY <1>9, <2>2, <2>3 DEF TypeOK, HandsFull
<1>10. CASE DeleteEntry
  <2>1. PICK i \in LiveIds : Forgotten({i})
    BY <1>10 DEF DeleteEntry
  <2>2. {i} \in SUBSET LiveIds /\ faults' \in 0 .. MaxFaults
    BY <1>10, BoundAssumption DEF DeleteEntry, Event, TypeOK
  <2>3. QED
    BY <1>9, <2>1, <2>2
<1>11. CASE ClearResolved
  <2>1. faults' \in 0 .. MaxFaults
    BY <1>11, BoundAssumption DEF ClearResolved, Event, TypeOK
  <2>2. {i \in LiveIds : log[i].stamp.resolved} \in SUBSET LiveIds
    OBVIOUS
  <2>3. QED
    BY <1>9, <1>11, <2>1, <2>2 DEF ClearResolved
<1>12. CASE Crash
  <2> DEFINE held == {b \in Actors : Holding(b)}
  <2>1. \A b \in held : act[b].row \in Row
    BY DEF HandsFull
  <2>2. /\ doubt' = doubt \cup {act[b].row.chg : b \in held}
        /\ disturbed' = disturbed \cup UNION {Uids(act[b].row.inv) : b \in held}
        /\ act' = [x \in Actors |-> Idle]
        /\ UNCHANGED <<rule, swept, log, born, undone>>
    BY <1>12 DEF Crash
  <2> HIDE DEF held
  <2>3. doubt' \subseteq Changes /\ disturbed' \subseteq Rules
    BY <2>1, <2>2, <1>uids DEF TypeOK
  <2>4. faults' \in 0 .. MaxFaults
    BY <1>12, BoundAssumption DEF Crash, Event, TypeOK
  <2>5. QED
    BY <2>2, <2>3, <2>4, <1>idle DEF TypeOK, HandsFull, Idle
<1>13. CASE OutOfBand
  BY <1>13, BoundAssumption DEF OutOfBand, Event, TypeOK, HandsFull, RuleStates
<1>14. CASE UNCHANGED vars
  BY <1>14 DEF vars, TypeOK, HandsFull
<1>15. QED
  BY <1>1, <1>2, <1>3, <1>4, <1>5, <1>6, <1>7, <1>8, <1>10, <1>11, <1>12, <1>13, <1>14
     DEF Next

\* The journal starts empty and every thread idle.
LEMMA TypedInit == Init => TypeOK /\ HandsFull
  BY BoundAssumption DEF Init, TypeOK, HandsFull, Busy, InHand, Idle, Points, Verbs,
                         RuleStates, Ids, Changes

\* Every behaviour is well-typed, for every set of rules, threads and events: no
\* crash, retry or lost row leaves a malformed entry or a thread without one.
THEOREM TypeCorrect == Spec => []TypeOK
<1>1. TypeOK /\ HandsFull /\ [Next]_vars => TypeOK' /\ HandsFull'
  BY TypedNext
<1>2. QED
  BY <1>1, TypedInit, PTL DEF Spec

-----------------------------------------------------------------------------
(* One thread per change. *)

\* What the entries and the hands have to do with each other.
Entries ==
    /\ ChangesKnown
    /\ RecordsFresh
    /\ EntriesDistinct
    /\ HandsCurrent
    /\ NothingParked
    /\ VerbsChecked
    /\ HeldIsResolved
    /\ OneThreadPerChange

\* A verb that was checked on an entry that closes at once resolves it.
LEMMA ClosingStamp ==
    ASSUME NEW r \in Row, NEW v \in Verbs, VerbFits(r, v), ClosesAtOnce(r),
           r.stamp.resolution # "disabled"
    PROVE  StampOf(r, v).resolved /\ StampOf(r, v).resolution # "disabled"
  BY DEF VerbFits, ClosesAtOnce, RevertState, StampOf, Verbs, Row, Stamp, Open

\* The rails: the new change is numbered after every change known so far.
LEMMA PublishedEntries ==
    ASSUME TypeOK, HandsFull, Entries, NEW a \in Actors,
           NEW outcome, NEW inv, NEW stamp,
           Published(a, outcome, inv, stamp), stamp.resolution # "disabled"
    PROVE  Entries'
<1> USE DEF Busy, InHand, Holding
<1> DEFINE new == [chg |-> born + 1, outcome |-> outcome, inv |-> inv, stamp |-> stamp]
<1>1. /\ act' = [act EXCEPT ![a] = [pc |-> "record", id |-> 0, verb |-> "rollback", row |-> new]]
      /\ born' = born + 1
      /\ log' = log /\ doubt' = doubt
  BY DEF Published
<1>2. new.chg = born + 1 /\ new.stamp.resolution # "disabled"
  OBVIOUS
<1> HIDE DEF new
<1>3. /\ act'[a].pc = "record" /\ act'[a].row = new
      /\ \A b \in Actors \ {a} : act'[b] = act[b]
  BY <1>1 DEF TypeOK
<1>4. born \in Nat /\ \A i \in Ids : log[i] # NoRow => log[i].chg \in Nat
  BY BoundAssumption DEF TypeOK, Changes, Row
<1>5. \A b \in Actors : Busy(b) => act[b].row.chg \in Nat
  BY DEF HandsFull, Changes, Row
<1>6. ChangesKnown'
  BY <1>1, <1>2, <1>3, <1>4, <1>5 DEF Entries, ChangesKnown
<1>7. RecordsFresh'
  BY <1>1, <1>2, <1>3, <1>4, <1>5 DEF Entries, ChangesKnown, RecordsFresh
<1>8. EntriesDistinct'
  BY <1>1 DEF Entries, EntriesDistinct
<1>9. HandsCurrent' /\ VerbsChecked' /\ HeldIsResolved'
  BY <1>1, <1>3 DEF Entries, HandsCurrent, VerbsChecked, HeldIsResolved
<1>10. NothingParked'
  BY <1>1, <1>2, <1>3 DEF Entries, NothingParked, NeverParked, ClosesAtOnce
<1>11. OneThreadPerChange'
  BY <1>1, <1>3 DEF Entries, OneThreadPerChange
<1>12. QED
  BY <1>6, <1>7, <1>8, <1>9, <1>10, <1>11 DEF Entries

\* A thread that gives up or is done lets go of its change.
LEMMA LettingGo ==
    ASSUME TypeOK, HandsFull, Entries, NEW a \in Actors,
           act' = [act EXCEPT ![a] = Idle], log' = log, born' = born,
           doubt \subseteq doubt'
    PROVE  Entries'
<1> USE DEF Busy, InHand, Holding
<1>1. act'[a].pc = "idle" /\ \A b \in Actors \ {a} : act'[b] = act[b]
  BY DEF TypeOK, Idle
<1>2. ChangesKnown' /\ RecordsFresh' /\ EntriesDistinct'
  BY <1>1 DEF Entries, ChangesKnown, RecordsFresh, EntriesDistinct
<1>3. HandsCurrent'
  BY <1>1 DEF Entries, HandsCurrent
<1>4. NothingParked' /\ VerbsChecked'
  BY <1>1 DEF Entries, NothingParked, NeverParked, VerbsChecked
<1>5. HeldIsResolved' /\ OneThreadPerChange'
  BY <1>1 DEF Entries, HeldIsResolved, OneThreadPerChange
<1>6. QED
  BY <1>2, <1>3, <1>4, <1>5 DEF Entries

\* A refused replay moves the thread on with its change still in hand.
LEMMA Refused ==
    ASSUME TypeOK, HandsFull, Entries, NEW a \in Actors, act[a].pc = "sms",
           act' = [act EXCEPT ![a].pc = "restore"], log' = log, born' = born,
           doubt \subseteq doubt'
    PROVE  Entries'
<1> USE DEF Busy, InHand, Holding
<1>1. /\ \A b \in Actors : act'[b].row = act[b].row /\ act'[b].id = act[b].id
                           /\ act'[b].verb = act[b].verb
      /\ \A b \in Actors : Holding(b)' <=> Holding(b)
      /\ \A b \in Actors : InHand(b)' <=> InHand(b)
      /\ \A b \in Actors : Busy(b)' <=> Busy(b)
      /\ \A b \in Actors : act'[b].pc = "record" <=> act[b].pc = "record"
  BY DEF TypeOK
<1>2. ChangesKnown' /\ RecordsFresh' /\ EntriesDistinct'
  BY <1>1 DEF Entries, ChangesKnown, RecordsFresh, EntriesDistinct
<1>3. HandsCurrent'
  BY <1>1 DEF Entries, HandsCurrent
<1>4. NothingParked' /\ VerbsChecked'
  BY <1>1 DEF Entries, NothingParked, NeverParked, VerbsChecked
<1>5. HeldIsResolved' /\ OneThreadPerChange'
  BY <1>1 DEF Entries, HeldIsResolved, OneThreadPerChange
<1>6. QED
  BY <1>2, <1>3, <1>4, <1>5 DEF Entries

\* Recording a change gives it the only entry that names it.
LEMMA RecordEntries ==
    ASSUME TypeOK, HandsFull, Entries, NEW a \in Actors, Record(a)
    PROVE  Entries'
<1> USE DEF Busy, InHand, Holding
<1>1. /\ act[a].pc = "record" /\ act[a].row \in Row
      /\ act' = [act EXCEPT ![a] = Idle] /\ born' = born
  BY DEF Record, HandsFull
<1>2. CASE UNCHANGED <<log, doubt, disturbed>>
  BY <1>1, <1>2, LettingGo
<1>3. ASSUME NEW n \in Ids, NextId(n),
             log' = [log EXCEPT ![n] = act[a].row],
             IF \E b \in Actors : InHand(b) /\ act[b].id = n
             THEN doubt' = doubt \cup {act[a].row.chg} ELSE doubt' = doubt
      PROVE  Entries'
  <2> DEFINE r == act[a].row
  <2>1. log[n] = NoRow
    <3>1. \A i \in LiveIds : i < n
      BY <1>3 DEF NextId
    <3>2. ~ (n < n)
      BY DEF Ids
    <3>3. n \notin LiveIds
      BY <3>1, <3>2
    <3>4. QED
      BY <3>3 DEF LiveIds
  <2>2. /\ log'[n] = r /\ r \in Row /\ r # NoRow
        /\ \A i \in Ids \ {n} : log'[i] = log[i]
    BY <1>1, <1>3, NoRowAssumption DEF TypeOK
  <2>3. act'[a].pc = "idle" /\ \A b \in Actors \ {a} : act'[b] = act[b]
    BY <1>1 DEF TypeOK, Idle
  <2>4. doubt \subseteq doubt'
        /\ \A b \in Actors : InHand(b) /\ act[b].id = n => r.chg \in doubt'
    BY <1>3
  <2>5. /\ \A i \in Ids : log[i] # NoRow => log[i].chg # r.chg
        /\ \A b \in Actors \ {a} : Busy(b) => act[b].row.chg # r.chg
        /\ r.chg <= born /\ NeverParked(r)
    BY <1>1 DEF Entries, RecordsFresh, ChangesKnown, NothingParked
  <2> HIDE DEF r
  <2>6. ChangesKnown' /\ RecordsFresh' /\ EntriesDistinct'
    BY <1>1, <2>2, <2>3, <2>5 DEF Entries, ChangesKnown, RecordsFresh, EntriesDistinct
  <2>7. HandsCurrent'
    BY <2>1, <2>2, <2>3, <2>4, HandsFull DEF Entries, HandsCurrent, HandsFull
  <2>8. NothingParked' /\ VerbsChecked'
    BY <2>2, <2>3, <2>4, <2>5 DEF Entries, NothingParked, NeverParked, VerbsChecked
  <2>9. HeldIsResolved'
    BY <2>1, <2>2, <2>3, <2>4, HandsFull DEF Entries, HeldIsResolved, HandsCurrent, HandsFull
  <2>10. OneThreadPerChange'
    BY <2>3, <2>4 DEF Entries, OneThreadPerChange
  <2>11. QED
    BY <2>6, <2>7, <2>8, <2>9, <2>10 DEF Entries
<1>4. QED
  BY <1>2, <1>3 DEF Record

\* Reading an entry takes it in hand as it is.
LEMMA LookEntries ==
    ASSUME TypeOK, HandsFull, Entries, NEW a \in Actors, Look(a)
    PROVE  Entries'
<1> USE DEF Busy, InHand, Holding
<1>1. PICK i \in Ids, v \in Verbs :
        /\ log[i] # NoRow
        /\ VerbFits(log[i], v)
        /\ act' = [act EXCEPT ![a] = [pc |-> "claim", id |-> i, verb |-> v, row |-> log[i]]]
  BY DEF Look
<1>2. /\ act'[a] = [pc |-> "claim", id |-> i, verb |-> v, row |-> log[i]]
      /\ \A b \in Actors \ {a} : act'[b] = act[b]
      /\ log' = log /\ born' = born /\ doubt' = doubt
  BY <1>1 DEF TypeOK, Look
<1>3. ChangesKnown' /\ RecordsFresh' /\ EntriesDistinct'
  BY <1>1, <1>2 DEF Entries, ChangesKnown, RecordsFresh, EntriesDistinct
<1>4. HandsCurrent'
  BY <1>1, <1>2 DEF Entries, HandsCurrent
<1>5. NothingParked' /\ VerbsChecked'
  BY <1>1, <1>2 DEF Entries, NothingParked, NeverParked, VerbsChecked
<1>6. HeldIsResolved' /\ OneThreadPerChange'
  BY <1>2 DEF Entries, HeldIsResolved, OneThreadPerChange
<1>7. QED
  BY <1>3, <1>4, <1>5, <1>6 DEF Entries

\* The claim that wins: nobody else held the change, for its entry was open.
LEMMA ClaimEntries ==
    ASSUME TypeOK, HandsFull, Entries, NEW a \in Actors, Claim(a)
    PROVE  Entries'
<1> USE DEF Busy, InHand, Holding
<1> DEFINE me == act[a]
           st == StampOf(me.row, me.verb)
<1>1. me.pc = "claim" /\ me.row \in Row /\ me.id \in Ids /\ me.verb \in Verbs
  BY DEF Claim, HandsFull, TypeOK
<1>2. CASE ~Claimable(log[me.id], me.row.stamp)
  BY <1>2, LettingGo DEF Claim
<1>3. CASE Claimable(log[me.id], me.row.stamp)
  <2>1. /\ log' = [log EXCEPT ![me.id].stamp = st]
        /\ act' = [act EXCEPT ![a].pc = "sms"]
        /\ born' = born
        /\ doubt \subseteq doubt'
        /\ Overlaps(a) => me.row.chg \in doubt'
    BY <1>3 DEF Claim
  <2>2. /\ log[me.id] \in Row /\ log[me.id] # NoRow /\ ~log[me.id].stamp.resolved
    BY <1>1, <1>3 DEF Claimable, TypeOK
  <2>3. VerbFits(me.row, me.verb)
    BY <1>1 DEF Entries, VerbsChecked
  <2>4. ClosesAtOnce(me.row) /\ me.row.chg \notin doubt
        => st.resolved /\ st.resolution # "disabled"
    <3>1. NeverParked(me.row)
      BY <1>1 DEF Entries, NothingParked
    <3>2. QED
      BY <1>1, <2>3, <3>1, ClosingStamp DEF NeverParked
  <2> HIDE DEF st
  <2>5. /\ \A i \in Ids : (log'[i] # NoRow) <=> (log[i] # NoRow)
        /\ \A i \in Ids \ {me.id} : log'[i] = log[i]
        /\ \A i \in Ids : log[i] # NoRow => log'[i].chg = log[i].chg
                                            /\ log'[i].outcome = log[i].outcome
        /\ log'[me.id].stamp = st
    <3>1. log'[me.id] = [log[me.id] EXCEPT !.stamp = st]
          /\ \A i \in Ids \ {me.id} : log'[i] = log[i]
      BY <1>1, <2>1 DEF TypeOK
    <3>2. /\ log'[me.id].chg = log[me.id].chg /\ log'[me.id].outcome = log[me.id].outcome
          /\ log'[me.id].stamp = st
      BY <2>2, <3>1 DEF Row
    <3>3. log'[me.id] # NoRow
      BY <1>1, <2>2, <3>1, NoRowAssumption, StampOfType DEF Row, st
    <3>4. QED
      BY <2>2, <3>1, <3>2, <3>3
  <2>6. /\ \A b \in Actors : act'[b].row = act[b].row /\ act'[b].id = act[b].id
                             /\ act'[b].verb = act[b].verb
        /\ \A b \in Actors \ {a} : act'[b] = act[b]
        /\ act'[a].pc = "sms"
    BY <2>1 DEF TypeOK
  <2>7. /\ log[me.id].chg # me.row.chg => log[me.id].chg \in doubt
        /\ me.row.chg \notin doubt => log[me.id].chg = me.row.chg
                                      /\ log[me.id].outcome = me.row.outcome
    BY <1>1, <2>2 DEF Entries, HandsCurrent
  <2>8. ChangesKnown' /\ RecordsFresh' /\ EntriesDistinct'
    BY <1>1, <2>1, <2>5, <2>6 DEF Entries, ChangesKnown, RecordsFresh, EntriesDistinct
  <2>9. HandsCurrent'
    BY <1>1, <2>1, <2>5, <2>6, HandsFull DEF Entries, HandsCurrent, HandsFull
  <2>10. NothingParked'
    <3>1. \A i \in Ids : log'[i] # NoRow => NeverParked(log[i])
      BY <2>5 DEF Entries, NothingParked
    <3>2. ASSUME NEW i \in Ids, log'[i] # NoRow PROVE NeverParked(log[i])'
      <4>1. CASE i = me.id
        BY <2>1, <2>2, <2>4, <2>5, <2>7, <4>1 DEF NeverParked, ClosesAtOnce
      <4>2. CASE i # me.id
        BY <2>1, <2>5, <3>1, <3>2, <4>2 DEF NeverParked
      <4>3. QED
        BY <4>1, <4>2
    <3>3. \A b \in Actors : Busy(b)' => NeverParked(act[b].row)'
      BY <1>1, <2>1, <2>6 DEF Entries, NothingParked, NeverParked
    <3>4. QED
      BY <3>2, <3>3 DEF NothingParked
  <2>11. VerbsChecked'
    BY <1>1, <2>6 DEF Entries, VerbsChecked
  <2>12. \A b \in Actors \ {a} :
            Holding(b) /\ ClosesAtOnce(act[b].row) /\ act[b].row.chg \notin doubt
            => act[b].id # me.id
    BY <2>2 DEF Entries, HeldIsResolved
  <2>13. HeldIsResolved'
    BY <1>1, <2>1, <2>4, <2>5, <2>6, <2>12, HandsFull DEF Entries, HeldIsResolved, HandsFull
  <2>14. OneThreadPerChange'
    <3>1. ASSUME NEW b \in Actors \ {a}, Holding(b), act[b].row.chg = me.row.chg,
                 ClosesAtOnce(act[b].row) \/ ClosesAtOnce(me.row),
                 me.row.chg \notin doubt
          PROVE  FALSE
      <4>1. /\ log[me.id].chg = me.row.chg /\ log[me.id].outcome = me.row.outcome
            /\ log[act[b].id] # NoRow
            /\ log[act[b].id].chg = me.row.chg /\ log[act[b].id].outcome = act[b].row.outcome
        BY <2>7, <3>1 DEF Entries, HandsCurrent
      <4>2. act[b].id = me.id
        BY <1>1, <2>2, <3>1, <4>1 DEF Entries, EntriesDistinct, HandsFull
      <4>3. ClosesAtOnce(act[b].row)
        BY <3>1, <4>1, <4>2 DEF ClosesAtOnce
      <4>4. QED
        BY <2>12, <3>1, <4>2, <4>3
    <3>2. QED
      BY <2>1, <2>6, <3>1 DEF Entries, OneThreadPerChange
  <2>15. QED
    BY <2>8, <2>9, <2>10, <2>11, <2>13, <2>14 DEF Entries
<1>4. QED
  BY <1>2, <1>3

\* The release writes by id: outside doubt the id is still the change's own, and
\* nobody else holds the change.
LEMMA RestoreEntries ==
    ASSUME TypeOK, HandsFull, Entries, NEW a \in Actors, Restore(a)
    PROVE  Entries'
<1> USE DEF Busy, InHand, Holding
<1> DEFINE me == act[a]
<1>1. /\ me.pc = "restore" /\ me.row \in Row /\ me.id \in Ids
      /\ act' = [act EXCEPT ![a] = Idle] /\ born' = born
      /\ doubt \subseteq doubt'
  BY DEF Restore, HandsFull
<1>2. CASE log' = log
  BY <1>1, <1>2, LettingGo
<1>3. CASE log' = [log EXCEPT ![me.id] = Released(@, me.row.stamp)] /\ log[me.id] # NoRow
           /\ doubt' = doubt
  <2>1. log[me.id] \in Row
    BY <1>1, <1>3 DEF TypeOK
  <2>2. /\ log'[me.id] = [log[me.id] EXCEPT !.stamp = me.row.stamp]
        /\ \A i \in Ids \ {me.id} : log'[i] = log[i]
    BY <1>1, <1>3 DEF TypeOK, Released
  <2>3. /\ log'[me.id].chg = log[me.id].chg /\ log'[me.id].outcome = log[me.id].outcome
        /\ log'[me.id].stamp = me.row.stamp
    BY <2>1, <2>2 DEF Row
  <2>4. log'[me.id] # NoRow
    BY <1>1, <2>1, <2>2, NoRowAssumption DEF Row
  <2>5. act'[a].pc = "idle" /\ \A b \in Actors \ {a} : act'[b] = act[b]
    BY <1>1 DEF TypeOK, Idle
  <2>6. /\ log[me.id].chg # me.row.chg => log[me.id].chg \in doubt
        /\ me.row.chg \notin doubt => log[me.id].chg = me.row.chg
                                      /\ log[me.id].outcome = me.row.outcome
    BY <1>1, <1>3 DEF Entries, HandsCurrent
  <2>7. ChangesKnown' /\ RecordsFresh' /\ EntriesDistinct'
    BY <1>1, <1>3, <2>2, <2>3, <2>4, <2>5
       DEF Entries, ChangesKnown, RecordsFresh, EntriesDistinct
  <2>8. HandsCurrent'
    BY <1>1, <1>3, <2>2, <2>3, <2>4, <2>5, HandsFull DEF Entries, HandsCurrent, HandsFull
  <2>9. NothingParked'
    <3>1. NeverParked(me.row)
      BY <1>1 DEF Entries, NothingParked
    <3>2. QED
      BY <1>1, <1>3, <2>2, <2>3, <2>5, <2>6, <3>1
         DEF Entries, NothingParked, NeverParked, ClosesAtOnce
  <2>10. VerbsChecked'
    BY <2>5 DEF Entries, VerbsChecked
  <2>11. \A b \in Actors \ {a} :
            Holding(b) /\ ClosesAtOnce(act[b].row) /\ act[b].row.chg \notin doubt
            => act[b].id # me.id
    <3>1. SUFFICES ASSUME NEW b \in Actors \ {a}, Holding(b), ClosesAtOnce(act[b].row),
                          act[b].row.chg \notin doubt, act[b].id = me.id
                   PROVE  FALSE
      OBVIOUS
    <3>2. log[me.id].chg = act[b].row.chg
      BY <3>1 DEF Entries, HandsCurrent
    <3>3. me.row.chg = act[b].row.chg
      BY <2>6, <3>1, <3>2
    <3>4. QED
      BY <1>1, <3>1, <3>3 DEF Entries, OneThreadPerChange
  <2>12. HeldIsResolved'
    BY <1>1, <1>3, <2>2, <2>5, <2>11, HandsFull DEF Entries, HeldIsResolved, HandsFull
  <2>13. OneThreadPerChange'
    BY <1>3, <2>5 DEF Entries, OneThreadPerChange
  <2>14. QED
    BY <2>7, <2>8, <2>9, <2>10, <2>12, <2>13 DEF Entries
<1>4. CASE log' = [log EXCEPT ![me.id] = Released(@, me.row.stamp)] /\ log[me.id] = NoRow
  <2>1. log' = log
    BY <1>1, <1>4 DEF Released, TypeOK
  <2>2. QED
    BY <1>2, <2>1
<1>5. QED
  BY <1>2, <1>3, <1>4 DEF Restore

\* A row that leaves the list leaves the changes in hand under its id in doubt.
LEMMA ForgottenEntries ==
    ASSUME TypeOK, HandsFull, Entries, NEW ids \in SUBSET LiveIds, Forgotten(ids)
    PROVE  Entries'
<1> USE DEF Busy, InHand, Holding
<1>1. /\ act' = act /\ born' = born /\ doubt \subseteq doubt'
      /\ \A i \in Ids : log'[i] = IF i \in ids THEN NoRow ELSE log[i]
      /\ \A b \in Actors : InHand(b) /\ act[b].id \in ids => log[act[b].id].chg \in doubt'
  BY DEF Forgotten
<1>2. \A b \in Actors : InHand(b) /\ act[b].id \in ids => act[b].row.chg \in doubt'
  <2>1. SUFFICES ASSUME NEW b \in Actors, InHand(b), act[b].id \in ids,
                        act[b].row.chg \notin doubt'
                 PROVE  FALSE
    OBVIOUS
  <2>2. log[act[b].id].chg = act[b].row.chg
    BY <1>1, <2>1 DEF Entries, HandsCurrent
  <2>3. QED
    BY <1>1, <2>1, <2>2
<1>3. ChangesKnown' /\ RecordsFresh' /\ EntriesDistinct'
  BY <1>1 DEF Entries, ChangesKnown, RecordsFresh, EntriesDistinct
<1>4. HandsCurrent'
  BY <1>1, <1>2, HandsFull DEF Entries, HandsCurrent, HandsFull
<1>5. NothingParked' /\ VerbsChecked'
  BY <1>1 DEF Entries, NothingParked, NeverParked, VerbsChecked
<1>6. HeldIsResolved' /\ OneThreadPerChange'
  BY <1>1, <1>2, HandsFull DEF Entries, HeldIsResolved, OneThreadPerChange, HandsFull
<1>7. QED
  BY <1>3, <1>4, <1>5, <1>6 DEF Entries

\* Every step keeps the entries and the hands in order.
LEMMA EntriesNext ==
    ASSUME TypeOK, HandsFull, Entries, [Next]_vars
    PROVE  Entries'
<1>1. ASSUME NEW a \in Actors,
             \/ ApplyCreate(a) \/ ApplyEdit(a) \/ RemoveDeny(a)
             \/ RemoveDisable(a) \/ CleanupDisable(a) \/ CleanupDelete(a)
      PROVE  Entries'
  BY <1>1, RailsPublish, PublishedEntries
<1>2. ASSUME NEW a \in Actors, Record(a) PROVE Entries'
  BY <1>2, RecordEntries
<1>3. ASSUME NEW a \in Actors, Look(a) PROVE Entries'
  BY <1>3, LookEntries
<1>4. ASSUME NEW a \in Actors, Claim(a) PROVE Entries'
  BY <1>4, ClaimEntries
<1>5. ASSUME NEW a \in Actors, SmsCommit(a) PROVE Entries'
  BY <1>5, LettingGo DEF SmsCommit
<1>6. ASSUME NEW a \in Actors, SmsFail(a) PROVE Entries'
  BY <1>6, Refused DEF SmsFail
<1>7. ASSUME NEW a \in Actors, SmsTimeout(a) PROVE Entries'
  BY <1>7, Refused DEF SmsTimeout
<1>8. ASSUME NEW a \in Actors, Restore(a) PROVE Entries'
  BY <1>8, RestoreEntries
<1>9. CASE DeleteEntry
  BY <1>9, ForgottenEntries DEF DeleteEntry
<1>10. CASE ClearResolved
  BY <1>10, ForgottenEntries DEF ClearResolved
<1>11. CASE Crash
  <2>1. /\ \A b \in Actors : act'[b].pc = "idle"
        /\ log' = log /\ born' = born /\ doubt \subseteq doubt'
    BY <1>11 DEF Crash, Idle
  <2>2. QED
    BY <2>1 DEF Entries, ChangesKnown, RecordsFresh, EntriesDistinct, HandsCurrent,
                NothingParked, NeverParked, VerbsChecked, HeldIsResolved,
                OneThreadPerChange, Busy, InHand, Holding
<1>12. CASE UNCHANGED <<log, act, born, doubt>>
  BY <1>12 DEF Entries, ChangesKnown, RecordsFresh, EntriesDistinct, HandsCurrent,
               NothingParked, NeverParked, VerbsChecked, HeldIsResolved,
               OneThreadPerChange, Busy, InHand, Holding
<1>13. CASE OutOfBand \/ UNCHANGED vars
  BY <1>12, <1>13 DEF OutOfBand, vars
<1>14. QED
  BY <1>1, <1>2, <1>3, <1>4, <1>5, <1>6, <1>7, <1>8, <1>9, <1>10, <1>11, <1>13 DEF Next

\* An empty journal and idle threads are in order.
LEMMA EntriesInit == Init => Entries
  BY DEF Init, Entries, ChangesKnown, RecordsFresh, EntriesDistinct, HandsCurrent,
         NothingParked, NeverParked, VerbsChecked, HeldIsResolved, OneThreadPerChange,
         Busy, InHand, Holding, Idle

\* The inductive invariant: every behaviour keeps types, hands and entries in order.
THEOREM Invariant == Spec => []IInv
<1>1. TypeOK /\ HandsFull /\ Entries /\ [Next]_vars => (TypeOK /\ HandsFull /\ Entries)'
  BY TypedNext, EntriesNext
<1>2. Init => TypeOK /\ HandsFull /\ Entries
  BY TypedInit, EntriesInit
<1>3. TypeOK /\ HandsFull /\ Entries => IInv
  BY DEF Entries, IInv
<1>4. QED
  BY <1>1, <1>2, <1>3, PTL DEF Spec

\* For every number of threads, changes and faults: between its claim and the end
\* of its SMS call a thread is alone on a change whose verbs all close it.
THEOREM Exclusion == Spec => []OneThreadPerChange
<1>1. IInv => OneThreadPerChange
  BY DEF IInv
<1>2. QED
  BY <1>1, Invariant, PTL

-----------------------------------------------------------------------------
(* The journal and what was committed. *)

\* An entry whose state says whether its undo was committed.
Telling(r) == ClosesAtOnce(r) /\ r.inv # <<>> /\ r.chg \notin doubt

Held(c) == \E a \in Actors : Holding(a) /\ act[a].row.chg = c

\* Outside doubt the inverse in a thread's hand is the entry's.
HandsWhole ==
    \A a \in Actors : InHand(a) /\ act[a].row.chg \notin doubt =>
        log[act[a].id].inv = act[a].row.inv

\* What is not in the journal yet has not been undone, and is recorded as open.
Untouched ==
    /\ \A c \in Changes : c > born => undone[c] = 0
    /\ \A a \in Actors : act[a].pc = "record" =>
          undone[act[a].row.chg] = 0 /\ (act[a].row.stamp.resolved => act[a].row.inv = <<>>)

\* An open entry was not undone, nor one that is held; a resolved one that nobody
\* holds was, once.
Tells(r) ==
    /\ ~r.stamp.resolved \/ Held(r.chg) => undone[r.chg] = 0
    /\ r.stamp.resolved /\ ~Held(r.chg) => undone[r.chg] = 1

Truth == \A i \in LiveIds : Telling(log[i]) => Tells(log[i])

Accounted == HandsWhole /\ Untouched /\ Truth

\* A stamp changes nothing else of the entry.
LEMMA Restamped ==
    ASSUME TypeOK, NEW n \in Ids, log[n] # NoRow, NEW st \in Stamp,
           log' = [log EXCEPT ![n].stamp = st]
    PROVE  /\ log'[n] # NoRow /\ log'[n].stamp = st
           /\ log'[n].chg = log[n].chg /\ log'[n].outcome = log[n].outcome /\ log'[n].inv = log[n].inv
           /\ \A i \in Ids \ {n} : log'[i] = log[i]
           /\ LiveIds' = LiveIds
<1>1. log[n] \in Row
  BY DEF TypeOK
<1>2. log'[n] = [log[n] EXCEPT !.stamp = st] /\ \A i \in Ids \ {n} : log'[i] = log[i]
  BY DEF TypeOK
<1>3. log'[n] \in Row /\ log'[n].stamp = st
      /\ log'[n].chg = log[n].chg /\ log'[n].outcome = log[n].outcome /\ log'[n].inv = log[n].inv
  BY <1>1, <1>2 DEF Row
<1>4. log'[n] # NoRow
  BY <1>3, NoRowAssumption
<1>5. \A i \in Ids : log'[i] # NoRow <=> log[i] # NoRow
  BY <1>2, <1>4
<1> QED
  BY <1>2, <1>3, <1>4, <1>5 DEF LiveIds

\* Nothing is learnt from a step that commits nothing and leaves the entries as they are.
LEMMA QuietTruth ==
    ASSUME Untouched, Truth, undone' = undone, born' = born, doubt \subseteq doubt',
           \A i \in Ids : log'[i] = log[i] \/ log'[i] = NoRow,
           \A b \in Actors : Holding(b)' => Holding(b) /\ act'[b].row = act[b].row,
           \A b \in Actors : Holding(b) /\ act[b].row.chg \notin doubt'
                             => Holding(b)' /\ act'[b].row = act[b].row,
           \A b \in Actors : act'[b].pc = "record"
                             => act[b].pc = "record" /\ act'[b].row = act[b].row
    PROVE  Untouched' /\ Truth'
<1>1. Untouched'
  BY DEF Untouched
<1>2. ASSUME NEW i \in LiveIds', Telling(log[i])' PROVE Tells(log[i])'
  <2>1. i \in LiveIds /\ log'[i] = log[i]
    BY <1>2 DEF LiveIds
  <2>2. log[i].chg \notin doubt' /\ Telling(log[i])
    BY <1>2, <2>1 DEF Telling, ClosesAtOnce
  <2>3. Held(log[i].chg)' <=> Held(log[i].chg)
    BY <2>1, <2>2 DEF Held
  <2>4. Tells(log[i])
    BY <2>1, <2>2 DEF Truth
  <2> QED
    BY <2>1, <2>3, <2>4 DEF Tells
<1> QED
  BY <1>1, <1>2 DEF Truth

\* The rails: the new change was never undone, and no entry names it.
LEMMA PublishedTruth ==
    ASSUME TypeOK, HandsFull, Entries, Accounted, NEW a \in Actors,
           NEW outcome, NEW inv, NEW stamp, Published(a, outcome, inv, stamp),
           stamp.resolved => inv = <<>>, undone' = undone
    PROVE  Accounted'
<1> USE DEF Busy, InHand, Holding
<1> DEFINE new == [chg |-> born + 1, outcome |-> outcome, inv |-> inv, stamp |-> stamp]
<1>1. /\ act[a].pc = "idle" /\ born < MaxChanges
      /\ act' = [act EXCEPT ![a] = [pc |-> "record", id |-> 0, verb |-> "rollback", row |-> new]]
      /\ born' = born + 1 /\ log' = log /\ doubt' = doubt
  BY DEF Published
<1>2. new.chg = born + 1 /\ new.stamp = stamp /\ new.inv = inv
  OBVIOUS
<1> HIDE DEF new
<1>3. /\ act'[a].pc = "record" /\ act'[a].row = new
      /\ \A b \in Actors \ {a} : act'[b] = act[b]
  BY <1>1 DEF TypeOK
<1>4. born \in Nat /\ born + 1 \in Changes
  BY <1>1, BoundAssumption DEF TypeOK, Changes
<1>5. undone[born + 1] = 0
  BY <1>4 DEF Accounted, Untouched, Changes
<1>6. \A c \in Changes : c > born + 1 => undone[c] = 0
  BY <1>4 DEF Accounted, Untouched, Changes
<1>7. Untouched'
  BY <1>1, <1>2, <1>3, <1>5, <1>6 DEF Accounted, Untouched
<1>8. HandsWhole'
  BY <1>1, <1>3 DEF Accounted, HandsWhole
<1>9. Truth'
  <2>1. ASSUME NEW c PROVE Held(c)' <=> Held(c)
    BY <1>1, <1>3 DEF Held
  <2>2. LiveIds' = LiveIds
    BY <1>1 DEF LiveIds
  <2>3. ASSUME NEW i \in LiveIds, Telling(log[i])' PROVE Tells(log[i])'
    <3>1. Telling(log[i])
      BY <1>1, <2>3 DEF Telling, ClosesAtOnce
    <3>2. Tells(log[i])
      BY <3>1 DEF Accounted, Truth
    <3> QED
      BY <1>1, <2>1, <3>2 DEF Tells
  <2> QED
    BY <2>2, <2>3 DEF Truth
<1> QED
  BY <1>7, <1>8, <1>9 DEF Accounted

\* A change comes into the journal open, or with nothing to undo.
LEMMA RecordTruth ==
    ASSUME TypeOK, HandsFull, Entries, Accounted, NEW a \in Actors, Record(a)
    PROVE  Accounted'
<1> USE DEF Busy, InHand, Holding
<1> DEFINE r == act[a].row
<1>1. /\ act[a].pc = "record" /\ r \in Row
      /\ act' = [act EXCEPT ![a] = Idle] /\ born' = born /\ undone' = undone
      /\ doubt \subseteq doubt'
  BY DEF Record, HandsFull
<1>2. act'[a].pc = "idle" /\ \A b \in Actors \ {a} : act'[b] = act[b]
  BY <1>1 DEF TypeOK, Idle
<1>3. CASE log' = log
  <2>1. Untouched' /\ Truth'
    BY <1>1, <1>2, <1>3, QuietTruth DEF Accounted
  <2>2. HandsWhole'
    BY <1>1, <1>2, <1>3 DEF Accounted, HandsWhole
  <2> QED
    BY <2>1, <2>2 DEF Accounted
<1>4. ASSUME NEW n \in Ids, NextId(n), log' = [log EXCEPT ![n] = r] PROVE Accounted'
  <2>1. log[n] = NoRow
    <3>1. \A i \in LiveIds : i < n
      BY <1>4 DEF NextId
    <3>2. ~ (n < n)
      BY DEF Ids
    <3> QED
      BY <3>1, <3>2 DEF LiveIds
  <2>2. log'[n] = r /\ r # NoRow /\ \A i \in Ids \ {n} : log'[i] = log[i]
    BY <1>1, <1>4, NoRowAssumption DEF TypeOK
  <2>3. /\ \A i \in Ids : log[i] # NoRow => log[i].chg # r.chg
        /\ \A b \in Actors \ {a} : Busy(b) => act[b].row.chg # r.chg
    BY <1>1 DEF Entries, RecordsFresh
  <2>4. undone[r.chg] = 0 /\ (r.stamp.resolved => r.inv = <<>>)
    BY <1>1 DEF Accounted, Untouched
  <2> HIDE DEF r
  <2>5. Untouched'
    BY <1>1, <1>2 DEF Accounted, Untouched
  <2>6. HandsWhole'
    <3>1. \A b \in Actors : InHand(b) /\ act[b].row.chg \notin doubt => act[b].id # n
      BY <2>1 DEF Entries, HandsCurrent
    <3> QED
      BY <1>1, <1>2, <2>2, <3>1 DEF Accounted, HandsWhole, HandsFull
  <2>7. ASSUME NEW i \in LiveIds', Telling(log[i])' PROVE Tells(log[i])'
    <3>1. CASE i = n
      BY <1>1, <2>2, <2>4, <2>7, <3>1 DEF Telling, Tells
    <3>2. CASE i # n
      <4>1. i \in LiveIds /\ log'[i] = log[i]
        BY <2>7, <2>2, <3>2 DEF LiveIds
      <4>2. Telling(log[i])
        BY <1>1, <2>7, <4>1 DEF Telling, ClosesAtOnce
      <4>3. Held(log[i].chg)' <=> Held(log[i].chg)
        BY <1>1, <1>2, <4>1 DEF Held
      <4>4. Tells(log[i])
        BY <4>1, <4>2 DEF Accounted, Truth
      <4> QED
        BY <1>1, <4>1, <4>3, <4>4 DEF Tells
    <3> QED
      BY <3>1, <3>2
  <2> QED
    BY <2>5, <2>6, <2>7 DEF Accounted, Truth
<1> QED
  BY <1>3, <1>4 DEF Record

\* The claim: an open entry, of which no thread had committed the undo, is held now.
LEMMA ClaimTruth ==
    ASSUME TypeOK, HandsFull, Entries, Accounted, NEW a \in Actors, Claim(a)
    PROVE  Accounted'
<1> USE DEF Busy, InHand, Holding
<1> DEFINE me == act[a]
           st == StampOf(me.row, me.verb)
<1>1. /\ me.pc = "claim" /\ me.row \in Row /\ me.id \in Ids /\ me.verb \in Verbs
      /\ born' = born /\ undone' = undone /\ doubt \subseteq doubt'
  BY DEF Claim, HandsFull, TypeOK
<1>2. CASE ~Claimable(log[me.id], me.row.stamp)
  <2>1. log' = log /\ act' = [act EXCEPT ![a] = Idle]
    BY <1>2 DEF Claim
  <2>2. act'[a].pc = "idle" /\ \A b \in Actors \ {a} : act'[b] = act[b]
    BY <2>1 DEF TypeOK, Idle
  <2>3. Untouched' /\ Truth'
    BY <1>1, <2>1, <2>2, QuietTruth DEF Accounted
  <2>4. HandsWhole'
    BY <1>1, <2>1, <2>2 DEF Accounted, HandsWhole
  <2> QED
    BY <2>3, <2>4 DEF Accounted
<1>3. CASE Claimable(log[me.id], me.row.stamp)
  <2>1. /\ log' = [log EXCEPT ![me.id].stamp = st]
        /\ act' = [act EXCEPT ![a].pc = "sms"]
    BY <1>3 DEF Claim
  <2>2. log[me.id] # NoRow /\ ~log[me.id].stamp.resolved
    BY <1>3 DEF Claimable
  <2>3. st \in Stamp
    BY <1>1, StampOfType
  <2>4. /\ log'[me.id] # NoRow /\ log'[me.id].stamp = st
        /\ log'[me.id].chg = log[me.id].chg /\ log'[me.id].outcome = log[me.id].outcome
        /\ log'[me.id].inv = log[me.id].inv
        /\ \A i \in Ids \ {me.id} : log'[i] = log[i]
        /\ LiveIds' = LiveIds
    BY <1>1, <2>1, <2>2, <2>3, Restamped
  <2>5. /\ \A b \in Actors : act'[b].row = act[b].row /\ act'[b].id = act[b].id
        /\ \A b \in Actors \ {a} : act'[b] = act[b]
        /\ act'[a].pc = "sms"
    BY <2>1 DEF TypeOK
  <2> HIDE DEF st
  <2>6. HandsWhole'
    BY <1>1, <2>4, <2>5, HandsFull DEF Accounted, HandsWhole, HandsFull
  <2>7. Untouched'
    BY <1>1, <2>5 DEF Accounted, Untouched
  <2>8. ASSUME NEW i \in LiveIds, Telling(log[i])' PROVE Tells(log[i])'
    <3>1. i \in Ids /\ log[i] # NoRow /\ log'[i].chg = log[i].chg /\ Telling(log[i])
      BY <1>1, <2>4, <2>8 DEF LiveIds, Telling, ClosesAtOnce
    <3>2. Tells(log[i])
      BY <3>1, <2>8 DEF Accounted, Truth
    <3>3. CASE i = me.id
      <4>1. log[i].chg = me.row.chg
        BY <1>1, <3>1, <3>3, <2>2 DEF Entries, HandsCurrent, Telling
      <4>2. act'[a].pc = "sms" /\ act'[a].row.chg = log'[i].chg
        BY <2>5, <3>1, <4>1
      <4>3. Held(log[i].chg)'
        BY <4>2 DEF Held
      <4>4. undone[log[i].chg] = 0
        BY <2>2, <3>2, <3>3 DEF Tells
      <4> QED
        BY <1>1, <3>1, <4>3, <4>4 DEF Tells
    <3>4. CASE i # me.id
      <4>1. log[i].chg # me.row.chg
        <5>1. SUFFICES ASSUME log[i].chg = me.row.chg PROVE FALSE
          OBVIOUS
        <5>2. log[me.id].chg = me.row.chg
          BY <1>1, <3>1, <5>1, <2>2 DEF Entries, HandsCurrent, Telling
        <5> QED
          BY <1>1, <2>2, <3>1, <3>4, <5>1, <5>2 DEF Entries, EntriesDistinct
      <4>2. log'[i] = log[i]
        BY <2>4, <3>1, <3>4
      <4>3. Held(log[i].chg)' <=> Held(log[i].chg)
        BY <2>5, <4>1, <4>2 DEF Held
      <4> QED
        BY <1>1, <3>2, <4>2, <4>3 DEF Tells
    <3> QED
      BY <3>3, <3>4
  <2> QED
    BY <2>4, <2>6, <2>7, <2>8 DEF Accounted, Truth
<1> QED
  BY <1>2, <1>3

\* A thread that holds a change outside doubt: its entry is resolved, was never undone,
\* and is held by no other.
LEMMA HeldEntry ==
    ASSUME TypeOK, HandsFull, Entries, Accounted, NEW a \in Actors, Holding(a),
           act[a].row.chg \notin doubt
    PROVE  /\ act[a].id \in LiveIds /\ log[act[a].id].chg = act[a].row.chg
           /\ log[act[a].id].outcome = act[a].row.outcome /\ log[act[a].id].inv = act[a].row.inv
           /\ act[a].row.inv # <<>>
           /\ ClosesAtOnce(act[a].row) =>
                 /\ log[act[a].id].stamp.resolved /\ undone[act[a].row.chg] = 0
                 /\ Telling(log[act[a].id]) /\ StampOf(act[a].row, act[a].verb).resolved
                 /\ \A b \in Actors : Holding(b) /\ act[b].row.chg = act[a].row.chg => b = a
<1> USE DEF Busy, InHand, Holding
<1>1. /\ act[a].id \in LiveIds /\ log[act[a].id].chg = act[a].row.chg
      /\ log[act[a].id].outcome = act[a].row.outcome /\ log[act[a].id].inv = act[a].row.inv
  BY DEF HandsFull, LiveIds, Entries, HandsCurrent, Accounted, HandsWhole
<1>2. VerbFits(act[a].row, act[a].verb) /\ act[a].row \in Row /\ act[a].verb \in Verbs
  BY DEF Entries, VerbsChecked, HandsFull, TypeOK
<1>3. act[a].row.inv # <<>>
  BY <1>2 DEF VerbFits
<1>4. ASSUME ClosesAtOnce(act[a].row)
      PROVE  /\ log[act[a].id].stamp.resolved /\ undone[act[a].row.chg] = 0
             /\ Telling(log[act[a].id]) /\ StampOf(act[a].row, act[a].verb).resolved
             /\ \A b \in Actors : Holding(b) /\ act[b].row.chg = act[a].row.chg => b = a
  <2>1. Telling(log[act[a].id])
    BY <1>1, <1>3, <1>4 DEF Telling, ClosesAtOnce
  <2>2. log[act[a].id].stamp.resolved
    BY <1>4 DEF Entries, HeldIsResolved
  <2>3. Held(act[a].row.chg)
    BY DEF Held
  <2>4. undone[act[a].row.chg] = 0
    BY <1>1, <2>1, <2>3 DEF Accounted, Truth, Tells
  <2>5. StampOf(act[a].row, act[a].verb).resolved
    BY <1>2, <1>4, ClosingStamp DEF Entries, NothingParked, NeverParked
  <2>6. \A b \in Actors : Holding(b) /\ act[b].row.chg = act[a].row.chg => b = a
    BY <1>4 DEF Entries, OneThreadPerChange
  <2> QED
    BY <2>1, <2>2, <2>4, <2>5, <2>6
<1> QED
  BY <1>1, <1>3, <1>4

\* The tally of another change stands; that of a change never undone becomes one.
LEMMA TallyIs ==
    ASSUME TypeOK, NEW a \in Actors, act[a].row.chg \in Changes, Tally(a)
    PROVE  /\ \A c \in Changes : c # act[a].row.chg => undone'[c] = undone[c]
           /\ Closes(a) /\ undone[act[a].row.chg] = 0 => undone'[act[a].row.chg] = 1
<1> DEFINE c == act[a].row.chg
<1>1. undone \in [Changes -> 0 .. 2]
  BY DEF TypeOK
<1>2. /\ \/ undone' = [undone EXCEPT ![c] = undone[c] + 1]
         \/ undone' = undone
      /\ Closes(a) /\ undone[c] < 2 => undone' = [undone EXCEPT ![c] = undone[c] + 1]
  BY Zenon DEF Tally
<1> HIDE DEF c
<1>3. \A d \in Changes : d # c => undone'[d] = undone[d]
  BY <1>1, <1>2
<1>4. ASSUME Closes(a), undone[c] = 0, c \in Changes PROVE undone'[c] = 1
  BY <1>1, <1>2, <1>4
<1> QED
  BY <1>3, <1>4 DEF c

\* A commit of the undo: the entry was resolved by the claim, and is now in truth.
LEMMA CommitTruth ==
    ASSUME TypeOK, HandsFull, Entries, Accounted, NEW a \in Actors, act[a].pc = "sms", Tally(a),
           log' = log, born' = born,
           \/ act' = [act EXCEPT ![a] = Idle] /\ doubt' = doubt
           \/ act' = [act EXCEPT ![a].pc = "restore"] /\ doubt' = doubt \cup {act[a].row.chg}
    PROVE  Accounted'
<1> USE DEF Busy, InHand, Holding
<1> DEFINE c == act[a].row.chg
<1>1. act[a].row \in Row /\ c \in Changes /\ act[a].id \in Ids
  BY DEF HandsFull, Row
<1>2. /\ \A d \in Changes : d # c => undone'[d] = undone[d]
      /\ Closes(a) /\ undone[c] = 0 => undone'[c] = 1
  BY <1>1, TallyIs
<1>3. /\ \A b \in Actors \ {a} : act'[b] = act[b]
      /\ \/ act'[a].pc = "idle" /\ doubt' = doubt
         \/ act'[a].pc = "restore" /\ act'[a].row = act[a].row /\ act'[a].id = act[a].id
            /\ c \in doubt'
      /\ doubt \subseteq doubt'
  BY DEF TypeOK, Idle
<1>4. HandsWhole'
  BY <1>3 DEF Accounted, HandsWhole
<1>5. c <= born
  BY DEF Entries, ChangesKnown
<1>6. Untouched'
  <2>1. \A d \in Changes : d > born => d # c /\ undone[d] = 0
    <3>1. c \in Nat /\ born \in Nat /\ Changes \subseteq Nat
      BY <1>1, BoundAssumption DEF TypeOK, Changes
    <3> QED
      BY <1>5, <3>1 DEF Accounted, Untouched
  <2>2. ASSUME NEW b \in Actors, act'[b].pc = "record"
        PROVE  /\ undone'[act'[b].row.chg] = 0
               /\ act'[b].row.stamp.resolved => act'[b].row.inv = <<>>
    <3>1. b # a /\ act'[b] = act[b]
      BY <1>3, <2>2
    <3>2. act[b].row.chg # c /\ act[b].row.chg \in Changes
      BY <2>2, <3>1 DEF Entries, RecordsFresh, HandsFull, Row
    <3> QED
      BY <1>2, <2>2, <3>1, <3>2 DEF Accounted, Untouched
  <2> QED
    BY <1>2, <2>1, <2>2 DEF Untouched
<1>7. ASSUME NEW i \in LiveIds, Telling(log[i])' PROVE Tells(log[i])'
  <2>1. Telling(log[i]) /\ Tells(log[i]) /\ log[i].chg \in Changes /\ log[i].chg \notin doubt'
    BY <1>3, <1>7 DEF Telling, ClosesAtOnce, Accounted, Truth, LiveIds, TypeOK, Row
  <2>2. CASE log[i].chg # c
    <3>1. Held(log[i].chg)' <=> Held(log[i].chg)
      BY <1>3, <2>2 DEF Held
    <3> QED
      BY <1>2, <2>1, <2>2, <3>1 DEF Tells
  <2>3. CASE log[i].chg = c
    <3>1. act'[a].pc = "idle" /\ doubt' = doubt /\ c \notin doubt
      BY <1>3, <2>1, <2>3
    <3>2. /\ log[act[a].id].chg = c /\ act[a].id \in LiveIds
          /\ log[act[a].id].outcome = act[a].row.outcome
      BY <3>1, HeldEntry
    <3>3. i = act[a].id
      BY <2>3, <3>2 DEF Entries, EntriesDistinct, LiveIds
    <3>4. ClosesAtOnce(act[a].row)
      BY <2>1, <3>2, <3>3 DEF Telling, ClosesAtOnce
    <3>5. /\ log[i].stamp.resolved /\ undone[c] = 0 /\ StampOf(act[a].row, act[a].verb).resolved
          /\ \A b \in Actors : Holding(b) /\ act[b].row.chg = c => b = a
      BY <3>1, <3>3, <3>4, HeldEntry
    <3>6. undone'[c] = 1
      BY <1>2, <3>5 DEF Closes
    <3>7. ~Held(log[i].chg)'
      BY <1>3, <2>3, <3>1, <3>5 DEF Held
    <3> QED
      BY <2>3, <3>5, <3>6, <3>7 DEF Tells
  <2> QED
    BY <2>2, <2>3
<1>8. LiveIds' = LiveIds
  BY DEF LiveIds
<1> QED
  BY <1>4, <1>6, <1>7, <1>8 DEF Accounted, Truth

\* The release opens the entry again, of a change that was not undone.
LEMMA RestoreTruth ==
    ASSUME TypeOK, HandsFull, Entries, Accounted, NEW a \in Actors, Restore(a)
    PROVE  Accounted'
<1> USE DEF Busy, InHand, Holding
<1> DEFINE me == act[a]
<1>1. /\ me.pc = "restore" /\ me.row \in Row /\ me.id \in Ids
      /\ act' = [act EXCEPT ![a] = Idle] /\ born' = born /\ undone' = undone
      /\ doubt \subseteq doubt'
  BY DEF Restore, HandsFull
<1>2. act'[a].pc = "idle" /\ \A b \in Actors \ {a} : act'[b] = act[b]
  BY <1>1 DEF TypeOK, Idle
<1>3. CASE log' = log /\ (me.row.chg \in doubt' \/ log[me.id] = NoRow)
  <2>1. me.row.chg \in doubt'
    BY <1>1, <1>3 DEF Entries, HandsCurrent
  <2>2. Untouched' /\ Truth'
    BY <1>1, <1>2, <1>3, <2>1, QuietTruth DEF Accounted
  <2>3. HandsWhole'
    BY <1>1, <1>2, <1>3 DEF Accounted, HandsWhole
  <2> QED
    BY <2>2, <2>3 DEF Accounted
<1>4. CASE log' = [log EXCEPT ![me.id].stamp = me.row.stamp] /\ log[me.id] # NoRow /\ doubt' = doubt
  <2>1. me.row.stamp \in Stamp
    BY <1>1 DEF Row
  <2>2. /\ log'[me.id] # NoRow /\ log'[me.id].stamp = me.row.stamp
        /\ log'[me.id].chg = log[me.id].chg /\ log'[me.id].outcome = log[me.id].outcome
        /\ log'[me.id].inv = log[me.id].inv
        /\ \A i \in Ids \ {me.id} : log'[i] = log[i]
        /\ LiveIds' = LiveIds
    BY <1>1, <1>4, <2>1, Restamped
  <2>3. HandsWhole'
    BY <1>1, <1>2, <1>4, <2>2, HandsFull DEF Accounted, HandsWhole, HandsFull
  <2>4. Untouched'
    BY <1>1, <1>2 DEF Accounted, Untouched
  <2>5. ASSUME NEW i \in LiveIds, Telling(log[i])' PROVE Tells(log[i])'
    <3>1. i \in Ids /\ log[i] # NoRow /\ log'[i].chg = log[i].chg /\ Telling(log[i])
      BY <1>4, <2>2, <2>5 DEF LiveIds, Telling, ClosesAtOnce
    <3>2. Tells(log[i])
      BY <3>1, <2>5 DEF Accounted, Truth
    <3>3. CASE i = me.id
      <4>1. log[i].chg = me.row.chg /\ me.row.chg \notin doubt
        BY <1>1, <3>1, <3>3, <1>4 DEF Entries, HandsCurrent, Telling
      <4>2. log[i].outcome = me.row.outcome
        BY <3>3, <4>1, HeldEntry, <1>1
      <4>3. ClosesAtOnce(me.row)
        BY <3>1, <4>2 DEF Telling, ClosesAtOnce
      <4>4. undone[me.row.chg] = 0 /\ \A b \in Actors : Holding(b) /\ act[b].row.chg = me.row.chg => b = a
        BY <1>1, <4>1, <4>3, HeldEntry
      <4>5. VerbFits(me.row, me.verb) /\ me.row.stamp.resolution # "disabled"
        BY <1>1, <4>1, <4>3 DEF Entries, VerbsChecked, NothingParked, NeverParked
      <4>6. ~me.row.stamp.resolved
        BY <4>5 DEF VerbFits, RevertState
      <4>7. \A b \in Actors : Holding(b)' => act'[b].row.chg # log[i].chg
        BY <1>1, <1>2, <4>1, <4>4
      <4>8. ~Held(log[i].chg)'
        BY <3>1, <4>7 DEF Held
      <4> QED
        BY <1>1, <2>2, <3>1, <3>3, <4>1, <4>4, <4>6, <4>8 DEF Tells
    <3>4. CASE i # me.id
      <4>1. log[i].chg # me.row.chg
        <5>1. SUFFICES ASSUME log[i].chg = me.row.chg PROVE FALSE
          OBVIOUS
        <5>2. log[me.id].chg = me.row.chg
          BY <1>1, <1>4, <3>1, <5>1 DEF Entries, HandsCurrent, Telling
        <5> QED
          BY <1>1, <1>4, <3>1, <3>4, <5>1, <5>2 DEF Entries, EntriesDistinct
      <4>2. log'[i] = log[i]
        BY <2>2, <3>1, <3>4
      <4>3. Held(log[i].chg)' <=> Held(log[i].chg)
        BY <1>2, <4>1, <4>2 DEF Held
      <4> QED
        BY <1>1, <3>2, <4>2, <4>3 DEF Tells
    <3> QED
      BY <3>3, <3>4
  <2> QED
    BY <2>2, <2>3, <2>4, <2>5 DEF Accounted, Truth
<1>5. (log' = log /\ (me.row.chg \in doubt' \/ log[me.id] = NoRow))
      \/ (log' = [log EXCEPT ![me.id].stamp = me.row.stamp] /\ log[me.id] # NoRow /\ doubt' = doubt)
  <2>1. CASE log[me.id] = NoRow
    <3>1. log' = log
      BY <1>1, <2>1 DEF Restore, Released, TypeOK
    <3> QED
      BY <2>1, <3>1
  <2>2. CASE log[me.id] # NoRow
    BY <2>2 DEF Restore, Released
  <2> QED
    BY <2>1, <2>2
<1> QED
  BY <1>3, <1>4, <1>5

\* Rows that leave the list: the changes that threads had in hand are in doubt.
LEMMA ForgottenTruth ==
    ASSUME TypeOK, HandsFull, Entries, Accounted, NEW ids \in SUBSET LiveIds, Forgotten(ids)
    PROVE  Accounted'
<1> USE DEF Busy, InHand, Holding
<1>1. /\ act' = act /\ born' = born /\ undone' = undone /\ doubt \subseteq doubt'
      /\ \A i \in Ids : log'[i] = IF i \in ids THEN NoRow ELSE log[i]
      /\ \A b \in Actors : InHand(b) /\ act[b].id \in ids => log[act[b].id].chg \in doubt'
  BY DEF Forgotten
<1>2. Untouched' /\ Truth'
  BY <1>1, QuietTruth DEF Accounted
<1>3. HandsWhole'
  <2>1. ASSUME NEW b \in Actors, InHand(b), act[b].row.chg \notin doubt'
        PROVE  act[b].id \notin ids /\ act[b].id \in Ids /\ act[b].row.chg \notin doubt
    BY <1>1, <2>1 DEF Entries, HandsCurrent, HandsFull
  <2> QED
    BY <1>1, <2>1 DEF Accounted, HandsWhole
<1> QED
  BY <1>2, <1>3 DEF Accounted

\* Every step keeps the journal and what was committed together.
LEMMA TruthNext ==
    ASSUME TypeOK, HandsFull, Entries, Accounted, [Next]_vars
    PROVE  Accounted'
<1> USE DEF Busy, InHand, Holding
<1>1. ASSUME NEW a \in Actors,
             \/ ApplyCreate(a) \/ ApplyEdit(a) \/ RemoveDeny(a)
             \/ RemoveDisable(a) \/ CleanupDisable(a) \/ CleanupDelete(a)
      PROVE  Accounted'
  <2>1. PICK outcome \in Outcomes, inv \in Seq(Op), stamp \in Stamp :
          Published(a, outcome, inv, stamp) /\ (stamp.resolved => inv = <<>>)
    BY <1>1, RailsPublish
  <2>2. undone' = undone
    BY <2>1 DEF Published
  <2> QED
    BY <2>1, <2>2, PublishedTruth
<1>2. ASSUME NEW a \in Actors, Look(a) PROVE Accounted'
  <2>1. PICK i \in Ids, v \in Verbs :
          log[i] # NoRow
          /\ act' = [act EXCEPT ![a] = [pc |-> "claim", id |-> i, verb |-> v, row |-> log[i]]]
    BY <1>2 DEF Look
  <2>2. /\ act'[a] = [pc |-> "claim", id |-> i, verb |-> v, row |-> log[i]]
        /\ \A b \in Actors \ {a} : act'[b] = act[b]
        /\ act[a].pc = "idle"
        /\ log' = log /\ born' = born /\ doubt' = doubt /\ undone' = undone
    BY <1>2, <2>1 DEF TypeOK, Look
  <2>3. Untouched' /\ Truth'
    BY <2>2, QuietTruth DEF Accounted
  <2>4. HandsWhole'
    BY <2>2 DEF Accounted, HandsWhole
  <2> QED
    BY <2>3, <2>4 DEF Accounted
<1>3. ASSUME NEW a \in Actors, SmsCommit(a) PROVE Accounted'
  BY <1>3, CommitTruth DEF SmsCommit
<1>4. ASSUME NEW a \in Actors, SmsFail(a) PROVE Accounted'
  <2>1. /\ \A b \in Actors : act'[b].row = act[b].row /\ act'[b].id = act[b].id
        /\ \A b \in Actors : Holding(b)' <=> Holding(b)
        /\ \A b \in Actors : InHand(b)' <=> InHand(b)
        /\ \A b \in Actors : act'[b].pc = "record" <=> act[b].pc = "record"
        /\ log' = log /\ born' = born /\ doubt' = doubt /\ undone' = undone
    BY <1>4 DEF SmsFail, TypeOK
  <2>2. Untouched' /\ Truth'
    BY <2>1, QuietTruth DEF Accounted
  <2>3. HandsWhole'
    BY <2>1 DEF Accounted, HandsWhole
  <2> QED
    BY <2>2, <2>3 DEF Accounted
<1>5. ASSUME NEW a \in Actors, SmsTimeout(a) PROVE Accounted'
  BY <1>5, CommitTruth DEF SmsTimeout
<1>6. CASE DeleteEntry \/ ClearResolved
  BY <1>6, ForgottenTruth DEF DeleteEntry, ClearResolved
<1>7. CASE Crash
  <2>1. /\ \A b \in Actors : act'[b].pc = "idle"
        /\ log' = log /\ born' = born /\ undone' = undone /\ doubt \subseteq doubt'
        /\ \A b \in Actors : Holding(b) => act[b].row.chg \in doubt'
    BY <1>7 DEF Crash, Idle
  <2>2. Untouched' /\ Truth'
    BY <2>1, QuietTruth DEF Accounted
  <2>3. HandsWhole'
    BY <2>1 DEF HandsWhole
  <2> QED
    BY <2>2, <2>3 DEF Accounted
<1>8. CASE OutOfBand \/ UNCHANGED vars
  <2>1. UNCHANGED <<log, act, born, undone, doubt>>
    BY <1>8 DEF OutOfBand, vars
  <2>2. Untouched' /\ Truth'
    BY <2>1, QuietTruth DEF Accounted
  <2>3. HandsWhole'
    BY <2>1 DEF Accounted, HandsWhole
  <2> QED
    BY <2>2, <2>3 DEF Accounted
<1> QED
  BY <1>1, <1>2, <1>3, <1>4, <1>5, <1>6, <1>7, <1>8, RecordTruth, ClaimTruth, RestoreTruth DEF Next

\* Whatever threads, retries, timeouts, failed writes and crashes there are: an entry that
\* nobody is working on says resolved exactly when its undo was committed, once (change_log.claim,
\* restore).
THEOREM TruthTold == Spec => []LogTellsTruth
<1>1. TypeOK /\ HandsFull /\ Entries /\ Accounted /\ [Next]_vars
      => (TypeOK /\ HandsFull /\ Entries /\ Accounted)'
  BY TypedNext, EntriesNext, TruthNext
<1>2. Init => TypeOK /\ HandsFull /\ Entries /\ Accounted
  <2>1. Init => Accounted
    BY DEF Init, Accounted, HandsWhole, Untouched, Truth, LiveIds, InHand, Idle
  <2> QED
    BY <2>1, TypedInit, EntriesInit
<1>3. Accounted => LogTellsTruth
  <2> SUFFICES ASSUME Accounted, NEW i \in LiveIds,
                      ClosesAtOnce(log[i]), log[i].inv # <<>>, log[i].chg \notin doubt,
                      \A a \in Actors : Holding(a) => act[a].row.chg # log[i].chg
               PROVE  log[i].stamp.resolved <=> undone[log[i].chg] = 1
    BY DEF LogTellsTruth
  <2>1. Telling(log[i]) /\ ~Held(log[i].chg)
    BY DEF Telling, Held
  <2> QED
    BY <2>1 DEF Accounted, Truth, Tells
<1> QED
  BY <1>1, <1>2, <1>3, PTL DEF Spec

-----------------------------------------------------------------------------
(* The lifecycle of an entry: RevertLifecycle is implemented. *)

\* What any step may do to what a reader sees: changes, doubts and entries only come in
\* the order publish, record, forget.
LEMMA StepShape ==
    ASSUME TypeOK, HandsFull, [Next]_vars
    PROVE  /\ born' \in Nat /\ born <= born' /\ doubt \subseteq doubt'
           /\ \A b \in Actors : act'[b].pc = "record" =>
                 \/ act[b].pc = "record" /\ act'[b].row = act[b].row
                 \/ act'[b].row.chg = born + 1
           /\ \A i \in Ids : log'[i] # NoRow =>
                 \/ log[i] # NoRow /\ log'[i].chg = log[i].chg
                 \/ \E b \in Actors : act[b].pc = "record" /\ act[b].row.chg = log'[i].chg
<1> USE DEF Busy, InHand, Holding
<1> DEFINE Goal ==
           /\ born <= born' /\ doubt \subseteq doubt'
           /\ \A b \in Actors : act'[b].pc = "record" =>
                 \/ act[b].pc = "record" /\ act'[b].row = act[b].row
                 \/ act'[b].row.chg = born + 1
           /\ \A i \in Ids : log'[i] # NoRow =>
                 \/ log[i] # NoRow /\ log'[i].chg = log[i].chg
                 \/ \E b \in Actors : act[b].pc = "record" /\ act[b].row.chg = log'[i].chg
<1>0. born \in Nat /\ born' \in Nat
  BY TypedNext, BoundAssumption DEF TypeOK, Changes
<1>1. ASSUME NEW a \in Actors, NEW outcome, NEW inv, NEW stamp, Published(a, outcome, inv, stamp)
      PROVE  Goal
  <2> DEFINE new == [chg |-> born + 1, outcome |-> outcome, inv |-> inv, stamp |-> stamp]
  <2>1. /\ act' = [act EXCEPT ![a] = [pc |-> "record", id |-> 0, verb |-> "rollback", row |-> new]]
        /\ born' = born + 1 /\ log' = log /\ doubt' = doubt
    BY <1>1 DEF Published
  <2>2. new.chg = born + 1
    OBVIOUS
  <2> HIDE DEF new
  <2> QED
    BY <1>0, <2>1, <2>2 DEF TypeOK
<1>2. ASSUME NEW a \in Actors, Record(a) PROVE Goal
  <2>1. /\ act[a].pc = "record" /\ act' = [act EXCEPT ![a] = Idle]
        /\ born' = born /\ doubt \subseteq doubt'
        /\ log' = log \/ \E n \in Ids : log' = [log EXCEPT ![n] = act[a].row]
    BY <1>2 DEF Record
  <2>2. \A i \in Ids : log'[i] = log[i] \/ log'[i] = act[a].row
    BY <2>1 DEF TypeOK
  <2>3. \A b \in Actors : act'[b].pc = "record" => act'[b] = act[b]
    BY <2>1 DEF TypeOK, Idle
  <2> QED
    BY <1>0, <2>1, <2>2, <2>3
<1>3. ASSUME NEW a \in Actors, Look(a) PROVE Goal
  <2>1. /\ \A b \in Actors : act'[b].pc = "record" => act'[b] = act[b]
        /\ born' = born /\ doubt' = doubt /\ log' = log
    BY <1>3 DEF Look, TypeOK
  <2> QED
    BY <1>0, <2>1
<1>4. ASSUME NEW a \in Actors, NEW n \in Ids, NEW stamp \in Stamp, NEW pc \in {"sms", "idle"},
             act[a].pc # "record",
             log[n] # NoRow, log' = [log EXCEPT ![n].stamp = stamp],
             act' = [act EXCEPT ![a].pc = pc] \/ act' = [act EXCEPT ![a] = Idle],
             born' = born, doubt \subseteq doubt'
      PROVE  Goal
  <2>1. \A i \in Ids : (log'[i] # NoRow => log[i] # NoRow) /\ (log[i] # NoRow => log'[i].chg = log[i].chg)
    BY <1>4, Restamped
  <2>2. \A b \in Actors : act'[b].pc = "record" => act'[b] = act[b]
    BY <1>4 DEF TypeOK, Idle
  <2> QED
    BY <1>0, <1>4, <2>1, <2>2
<1>5. ASSUME born' = born, doubt \subseteq doubt',
             \A i \in Ids : log'[i] = log[i] \/ log'[i] = NoRow,
             \A b \in Actors : act'[b].pc = "record" => act[b].pc = "record" /\ act'[b].row = act[b].row
      PROVE  Goal
  BY <1>0, <1>5
<1> HIDE DEF Goal
<1>6. ASSUME NEW a \in Actors, Claim(a) PROVE Goal
  <2>1. act[a].pc = "claim" /\ act[a].id \in Ids /\ act[a].verb \in Verbs
        /\ born' = born /\ doubt \subseteq doubt'
    BY <1>6 DEF Claim, HandsFull, TypeOK
  <2>2. CASE Claimable(log[act[a].id], act[a].row.stamp)
    <3>1. StampOf(act[a].row, act[a].verb) \in Stamp
      BY <2>1, StampOfType
    <3>2. /\ log' = [log EXCEPT ![act[a].id].stamp = StampOf(act[a].row, act[a].verb)]
          /\ act' = [act EXCEPT ![a].pc = "sms"]
      BY <1>6, <2>2 DEF Claim
    <3>3. log[act[a].id] # NoRow
      BY <2>2 DEF Claimable
    <3> QED
      BY <1>4, <2>1, <3>1, <3>2, <3>3
  <2>3. CASE ~Claimable(log[act[a].id], act[a].row.stamp)
    <3>1. log' = log /\ act' = [act EXCEPT ![a] = Idle]
      BY <1>6, <2>3 DEF Claim
    <3>2. \A b \in Actors : act'[b].pc = "record" => act'[b] = act[b]
      BY <3>1 DEF TypeOK, Idle
    <3> QED
      BY <1>5, <2>1, <3>1, <3>2
  <2> QED
    BY <2>2, <2>3
<1>7. ASSUME NEW a \in Actors, SmsCommit(a) \/ SmsFail(a) \/ SmsTimeout(a) PROVE Goal
  <2>1. /\ \A b \in Actors : act'[b].pc = "record" => act[b].pc = "record" /\ act'[b].row = act[b].row
        /\ born' = born /\ log' = log /\ doubt \subseteq doubt'
    BY <1>7 DEF SmsCommit, SmsFail, SmsTimeout, TypeOK, Idle
  <2> QED
    BY <1>5, <2>1
<1>8. ASSUME NEW a \in Actors, Restore(a) PROVE Goal
  <2>1. /\ act[a].pc = "restore" /\ act[a].id \in Ids /\ act[a].row.stamp \in Stamp
        /\ act' = [act EXCEPT ![a] = Idle] /\ born' = born /\ doubt \subseteq doubt'
    BY <1>8 DEF Restore, HandsFull, Row
  <2>2. CASE log[act[a].id] # NoRow /\ log' = [log EXCEPT ![act[a].id].stamp = act[a].row.stamp]
    BY <1>4, <2>1, <2>2
  <2>3. CASE log' = log
    <3>1. \A b \in Actors : act'[b].pc = "record" => act'[b] = act[b]
      BY <2>1 DEF TypeOK, Idle
    <3> QED
      BY <1>5, <2>1, <2>3, <3>1
  <2>4. log[act[a].id] = NoRow => log' = log
    BY <1>8, <2>1 DEF Restore, Released, TypeOK
  <2>5. log[act[a].id] # NoRow => log' = log \/ log' = [log EXCEPT ![act[a].id].stamp = act[a].row.stamp]
    BY <1>8 DEF Restore, Released
  <2> QED
    BY <2>2, <2>3, <2>4, <2>5
<1>9. ASSUME DeleteEntry \/ ClearResolved PROVE Goal
  <2>1. PICK ids \in SUBSET LiveIds : Forgotten(ids)
    BY <1>9 DEF DeleteEntry, ClearResolved
  <2>2. /\ act' = act /\ born' = born /\ doubt \subseteq doubt'
        /\ \A i \in Ids : log'[i] = log[i] \/ log'[i] = NoRow
    BY <2>1 DEF Forgotten
  <2> QED
    BY <1>5, <2>2
<1>10. ASSUME Crash \/ OutOfBand \/ UNCHANGED vars PROVE Goal
  <2>1. /\ born' = born /\ log' = log /\ doubt \subseteq doubt'
        /\ \A b \in Actors : act'[b].pc = "record" => act'[b] = act[b]
    BY <1>10 DEF Crash, OutOfBand, vars, Idle
  <2> QED
    BY <1>5, <2>1
<1>11. ASSUME NEW a \in Actors,
              \/ ApplyCreate(a) \/ ApplyEdit(a) \/ RemoveDeny(a)
              \/ RemoveDisable(a) \/ CleanupDisable(a) \/ CleanupDelete(a)
       PROVE  Goal
  BY <1>1, <1>11, RailsPublish
<1>12. Goal
  BY <1>2, <1>3, <1>6, <1>7, <1>8, <1>9, <1>10, <1>11 DEF Next
<1> QED
  BY <1>0, <1>12 DEF Goal

\* A resolved entry that nobody holds, outside doubt, stays as it is until it is forgotten,
\* and nobody takes hold of it again.
LEMMA ResolvedStays ==
    ASSUME TypeOK, HandsFull, Entries, [Next]_vars, NEW i \in LiveIds,
           log[i].stamp.resolved, log[i].chg \notin doubt, ~Held(log[i].chg)
    PROVE  /\ log'[i] = log[i] \/ log'[i] = NoRow
           /\ \A b \in Actors : Holding(b)' => act'[b].row.chg # log[i].chg
<1> USE DEF Busy, InHand, Holding
<1> DEFINE Goal ==
           /\ log'[i] = log[i] \/ log'[i] = NoRow
           /\ \A b \in Actors : Holding(b)' => act'[b].row.chg # log[i].chg
<1>1. i \in Ids /\ log[i] # NoRow /\ \A b \in Actors : Holding(b) => act[b].row.chg # log[i].chg
  BY DEF LiveIds, Held
<1>2. \A b \in Actors : InHand(b) /\ act[b].id = i => act[b].row.chg = log[i].chg
  BY <1>1 DEF Entries, HandsCurrent
<1>3. ASSUME log'[i] = log[i] \/ log'[i] = NoRow,
             \A b \in Actors : Holding(b)' => Holding(b) /\ act'[b].row = act[b].row
      PROVE  Goal
  BY <1>1, <1>3
<1> HIDE DEF Goal
<1>4. ASSUME NEW a \in Actors,
             \/ ApplyCreate(a) \/ ApplyEdit(a) \/ RemoveDeny(a)
             \/ RemoveDisable(a) \/ CleanupDisable(a) \/ CleanupDelete(a)
      PROVE  Goal
  <2>1. PICK outcome \in Outcomes, inv \in Seq(Op), stamp \in Stamp : Published(a, outcome, inv, stamp)
    BY <1>4, RailsPublish
  <2>2. log' = log /\ \A b \in Actors : Holding(b)' => Holding(b) /\ act'[b].row = act[b].row
    BY <2>1 DEF Published, TypeOK
  <2> QED
    BY <1>3, <2>2
<1>5. ASSUME NEW a \in Actors, Record(a) PROVE Goal
  <2>1. /\ act' = [act EXCEPT ![a] = Idle]
        /\ log' = log \/ \E n \in Ids : NextId(n) /\ log' = [log EXCEPT ![n] = act[a].row]
    BY <1>5 DEF Record
  <2>2. \A n \in Ids : NextId(n) => n # i
    BY DEF NextId, Ids
  <2>3. log'[i] = log[i]
    BY <1>1, <2>1, <2>2 DEF TypeOK
  <2>4. \A b \in Actors : Holding(b)' => Holding(b) /\ act'[b].row = act[b].row
    BY <2>1 DEF TypeOK, Idle
  <2> QED
    BY <1>3, <2>3, <2>4
<1>6. ASSUME NEW a \in Actors, Look(a) PROVE Goal
  <2>1. log' = log /\ \A b \in Actors : Holding(b)' => Holding(b) /\ act'[b].row = act[b].row
    BY <1>6 DEF Look, TypeOK
  <2> QED
    BY <1>3, <2>1
<1>7. ASSUME NEW a \in Actors, Claim(a) PROVE Goal
  <2>1. act[a].pc = "claim" /\ act[a].id \in Ids
    BY <1>7 DEF Claim, HandsFull
  <2>2. CASE ~Claimable(log[act[a].id], act[a].row.stamp)
    <3>1. log' = log /\ act' = [act EXCEPT ![a] = Idle]
      BY <1>7, <2>2 DEF Claim
    <3>2. \A b \in Actors : Holding(b)' => Holding(b) /\ act'[b].row = act[b].row
      BY <3>1 DEF TypeOK, Idle
    <3> QED
      BY <1>3, <3>1, <3>2
  <2>3. CASE Claimable(log[act[a].id], act[a].row.stamp)
    <3>1. /\ log' = [log EXCEPT ![act[a].id].stamp = StampOf(act[a].row, act[a].verb)]
          /\ act' = [act EXCEPT ![a].pc = "sms"]
      BY <1>7, <2>3 DEF Claim
    <3>2. act[a].id # i
      BY <2>3 DEF Claimable
    <3>3. act[a].row.chg # log[i].chg
      <4>1. SUFFICES ASSUME act[a].row.chg = log[i].chg PROVE FALSE
        OBVIOUS
      <4>2. log[act[a].id] # NoRow /\ log[act[a].id].chg = log[i].chg
        BY <2>1, <4>1 DEF Entries, HandsCurrent
      <4> QED
        BY <1>1, <2>1, <3>2, <4>2 DEF Entries, EntriesDistinct
    <3>4. log'[i] = log[i]
      BY <1>1, <3>1, <3>2 DEF TypeOK
    <3>5. \A b \in Actors : Holding(b)' => act'[b].row.chg # log[i].chg
      BY <1>1, <3>1, <3>3 DEF TypeOK
    <3> QED
      BY <3>4, <3>5 DEF Goal
  <2> QED
    BY <2>2, <2>3
<1>8. ASSUME NEW a \in Actors, SmsCommit(a) \/ SmsFail(a) \/ SmsTimeout(a) PROVE Goal
  <2>1. log' = log /\ \A b \in Actors : Holding(b)' => Holding(b) /\ act'[b].row = act[b].row
    BY <1>8 DEF SmsCommit, SmsFail, SmsTimeout, TypeOK, Idle
  <2> QED
    BY <1>3, <2>1
<1>9. ASSUME NEW a \in Actors, Restore(a) PROVE Goal
  <2>1. /\ act[a].pc = "restore" /\ act[a].id \in Ids /\ act' = [act EXCEPT ![a] = Idle]
        /\ log' = log \/ log' = [log EXCEPT ![act[a].id] = Released(@, act[a].row.stamp)]
    BY <1>9 DEF Restore, HandsFull
  <2>2. act[a].id # i
    BY <1>1, <1>2, <2>1
  <2>3. log'[i] = log[i]
    BY <1>1, <2>1, <2>2 DEF TypeOK
  <2>4. \A b \in Actors : Holding(b)' => Holding(b) /\ act'[b].row = act[b].row
    BY <2>1 DEF TypeOK, Idle
  <2> QED
    BY <1>3, <2>3, <2>4
<1>10. ASSUME DeleteEntry \/ ClearResolved PROVE Goal
  <2>1. PICK ids \in SUBSET LiveIds : Forgotten(ids)
    BY <1>10 DEF DeleteEntry, ClearResolved
  <2>2. act' = act /\ (log'[i] = log[i] \/ log'[i] = NoRow)
    BY <1>1, <2>1 DEF Forgotten
  <2> QED
    BY <1>3, <2>2
<1>11. ASSUME Crash \/ OutOfBand \/ UNCHANGED vars PROVE Goal
  <2>1. log' = log /\ \A b \in Actors : Holding(b)' => Holding(b) /\ act'[b].row = act[b].row
    BY <1>11 DEF Crash, OutOfBand, vars, Idle
  <2> QED
    BY <1>3, <2>1
<1>12. Goal
  BY <1>4, <1>5, <1>6, <1>7, <1>8, <1>9, <1>10, <1>11 DEF Next
<1> QED
  BY <1>12 DEF Goal

\* The states of an entry are three.
LEMMA StatesAre ==
    ASSUME NEW r
    PROVE  /\ RevertState(r) \in {"active", "disabled", "resolved"}
           /\ RevertState(r) = "resolved" => r.stamp.resolved
  BY DEF RevertState

Recording(c) == \E a \in Actors : act[a].pc = "record" /\ act[a].row.chg = c
RowsOf(c) == {i \in LiveIds : log[i].chg = c}

\* A view by its cases.
LEMMA ViewIs ==
    ASSUME NEW c \in Changes
    PROVE  /\ c > born \/ Recording(c) => ViewOf(c) = "none"
           /\ ~(c > born \/ Recording(c)) =>
                 /\ RowsOf(c) = {} => ViewOf(c) = "lost"
                 /\ RowsOf(c) # {} =>
                       /\ c \in doubt => ViewOf(c) = "doubtful"
                       /\ c \notin doubt /\ Held(c) =>
                             \E a \in Actors : /\ Holding(a) /\ act[a].row.chg = c
                                               /\ ViewOf(c) = RevertState(act[a].row)
                       /\ c \notin doubt /\ ~Held(c) =>
                             \E i \in RowsOf(c) : ViewOf(c) = RevertState(log[i])
<1> DEFINE holders == {a \in Actors : Holding(a) /\ act[a].row.chg = c}
<1>1. Held(c) <=> holders # {}
  BY DEF Held
<1>2. holders # {} => (CHOOSE a \in holders : TRUE) \in holders
  OBVIOUS
<1>3. RowsOf(c) # {} => (CHOOSE i \in RowsOf(c) : TRUE) \in RowsOf(c)
  OBVIOUS
<1>4. ViewOf(c) =
        IF c > born \/ Recording(c) THEN "none"
        ELSE IF RowsOf(c) = {} THEN "lost"
        ELSE IF c \in doubt THEN "doubtful"
        ELSE IF holders # {} THEN RevertState(act[CHOOSE a \in holders : TRUE].row)
        ELSE RevertState(log[CHOOSE i \in RowsOf(c) : TRUE])
  BY Zenon DEF ViewOf, Recording, RowsOf
<1> HIDE DEF holders
<1>5. holders \subseteq Actors /\ \A a \in holders : Holding(a) /\ act[a].row.chg = c
  BY DEF holders
<1> QED
  BY <1>1, <1>2, <1>3, <1>4, <1>5

\* A held change outside doubt is seen as it was before the claim, which is not resolved.
LEMMA HeldIsOpen ==
    ASSUME Entries, NEW a \in Actors, Holding(a)
    PROVE  RevertState(act[a].row) # "resolved"
  BY DEF Entries, VerbsChecked, VerbFits, Holding, InHand

\* What is seen of a change is one of the six views; only of a change that was never
\* recorded is nothing seen.
ViewFacts(c) ==
    /\ ViewOf(c) \in {"none", "active", "disabled", "resolved", "doubtful", "lost"}
    /\ ViewOf(c) = "none" <=> c > born \/ Recording(c)
    /\ ViewOf(c) = "lost" <=> ~(c > born \/ Recording(c)) /\ RowsOf(c) = {}
    /\ ViewOf(c) = "doubtful" <=> ~(c > born \/ Recording(c)) /\ RowsOf(c) # {} /\ c \in doubt
    /\ RowsOf(c) # {} /\ c \notin doubt /\ ~Held(c) /\ ~(c > born \/ Recording(c)) =>
          \E i \in RowsOf(c) : ViewOf(c) = RevertState(log[i])
    /\ ViewOf(c) = "resolved" =>
          /\ RowsOf(c) # {} /\ c \notin doubt /\ ~Held(c)
          /\ \E i \in RowsOf(c) : log[i].stamp.resolved /\ RevertState(log[i]) = "resolved"

LEMMA ViewTyped == Entries => \A c \in Changes : ViewFacts(c)
<1> SUFFICES ASSUME Entries, NEW c \in Changes PROVE ViewFacts(c)
  OBVIOUS
<1> USE DEF ViewFacts
<1>1. CASE c > born \/ Recording(c)
  BY <1>1, ViewIs
<1>2. CASE ~(c > born \/ Recording(c)) /\ RowsOf(c) = {}
  BY <1>2, ViewIs
<1>3. CASE ~(c > born \/ Recording(c)) /\ RowsOf(c) # {} /\ c \in doubt
  BY <1>3, ViewIs
<1>4. CASE ~(c > born \/ Recording(c)) /\ RowsOf(c) # {} /\ c \notin doubt /\ Held(c)
  <2>1. PICK a \in Actors : Holding(a) /\ ViewOf(c) = RevertState(act[a].row)
    BY <1>4, ViewIs
  <2>2. ViewOf(c) \in {"active", "disabled"}
    BY <2>1, StatesAre, HeldIsOpen
  <2> QED
    BY <1>4, <2>2
<1>5. CASE ~(c > born \/ Recording(c)) /\ RowsOf(c) # {} /\ c \notin doubt /\ ~Held(c)
  <2>1. PICK i \in RowsOf(c) : ViewOf(c) = RevertState(log[i])
    BY <1>5, ViewIs
  <2>2. /\ ViewOf(c) \in {"active", "disabled", "resolved"}
        /\ ViewOf(c) = "resolved" => log[i].stamp.resolved /\ RevertState(log[i]) = "resolved"
    BY <2>1, StatesAre
  <2> QED
    BY <1>5, <2>1, <2>2
<1> QED
  BY <1>1, <1>2, <1>3, <1>4, <1>5

\* No change has two entries, so what one of its rows says all of them say.
LEMMA OneRow ==
    ASSUME Entries, NEW c, NEW i \in RowsOf(c), NEW j \in RowsOf(c)
    PROVE  i = j
  BY DEF Entries, EntriesDistinct, RowsOf, LiveIds

\* Each step takes the view of a change along the lifecycle.
LEMMA ViewTypedNext == Entries' => \A c \in Changes : ViewFacts(c)'
<1>1. (Entries => \A c \in Changes : ViewFacts(c))'
  BY ViewTyped, PTL
<1> QED
  BY <1>1

LEMMA ViewStep ==
    ASSUME TypeOK, HandsFull, Entries, Entries', [Next]_vars, NEW c \in Changes
    PROVE  /\ ViewOf(c) # "none" => ViewOf(c)' # "none"
           /\ ViewOf(c) = "lost" => ViewOf(c)' = "lost"
           /\ ViewOf(c) = "doubtful" => ViewOf(c)' \in {"doubtful", "lost"}
           /\ ViewOf(c) = "resolved" => ViewOf(c)' \in {"resolved", "doubtful", "lost"}
<1>1. ViewFacts(c) /\ ViewFacts(c)'
  BY ViewTyped, ViewTypedNext
<1>2. /\ born' \in Nat /\ born \in Nat /\ c \in Nat /\ born <= born' /\ doubt \subseteq doubt'
      /\ \A b \in Actors : act'[b].pc = "record" =>
            \/ act[b].pc = "record" /\ act'[b].row = act[b].row
            \/ act'[b].row.chg = born + 1
      /\ \A i \in Ids : log'[i] # NoRow =>
            \/ log[i] # NoRow /\ log'[i].chg = log[i].chg
            \/ \E b \in Actors : act[b].pc = "record" /\ act[b].row.chg = log'[i].chg
  BY StepShape, BoundAssumption DEF TypeOK, Changes
<1>3. ~(c > born \/ Recording(c)) => ~(c > born' \/ Recording(c)')
  BY <1>2 DEF Recording
<1>4. ~Recording(c) => RowsOf(c)' \subseteq RowsOf(c)
  BY <1>2 DEF Recording, RowsOf, LiveIds
<1>5. ViewOf(c) # "none" => ViewOf(c)' # "none"
  BY <1>1, <1>3 DEF ViewFacts
<1>6. ViewOf(c) = "lost" => ViewOf(c)' = "lost"
  BY <1>1, <1>3, <1>4 DEF ViewFacts
<1>7. ViewOf(c) = "doubtful" => ViewOf(c)' \in {"doubtful", "lost"}
  <2>1. ViewOf(c) = "doubtful" => ~(c > born' \/ Recording(c)') /\ c \in doubt'
    BY <1>1, <1>2, <1>3 DEF ViewFacts
  <2> QED
    BY <1>1, <2>1 DEF ViewFacts
<1>8. ASSUME ViewOf(c) = "resolved" PROVE ViewOf(c)' \in {"resolved", "doubtful", "lost"}
  <2>1. ~(c > born \/ Recording(c)) /\ ~(c > born' \/ Recording(c)') /\ c \notin doubt /\ ~Held(c)
    BY <1>1, <1>3, <1>8 DEF ViewFacts
  <2>2. PICK i \in RowsOf(c) : log[i].stamp.resolved /\ RevertState(log[i]) = "resolved"
    BY <1>1, <1>8 DEF ViewFacts
  <2>3. i \in LiveIds /\ log[i].chg = c
    BY DEF RowsOf
  <2>4. /\ log'[i] = log[i] \/ log'[i] = NoRow
        /\ \A b \in Actors : Holding(b)' => act'[b].row.chg # c
    BY <2>1, <2>2, <2>3, ResolvedStays
  <2>5. ~Held(c)'
    BY <2>4 DEF Held
  <2>6. CASE RowsOf(c)' = {} \/ c \in doubt'
    BY <1>1, <2>1, <2>6 DEF ViewFacts
  <2>7. CASE RowsOf(c)' # {} /\ c \notin doubt'
    <3>1. PICK j \in RowsOf(c)' : ViewOf(c)' = RevertState(log[j])'
      BY <1>1, <2>1, <2>5, <2>7 DEF ViewFacts
    <3>2. j \in RowsOf(c)
      BY <1>4, <2>1
    <3>3. j = i
      BY <3>2, OneRow
    <3>4. log'[j] = log[i]
      BY <2>4, <3>3 DEF RowsOf, LiveIds
    <3>5. RevertState(log[j])' = RevertState(log[i])
      BY <3>4 DEF RevertState
    <3> QED
      BY <2>2, <3>1, <3>5
  <2> QED
    BY <2>6, <2>7
<1> QED
  BY <1>5, <1>6, <1>7, <1>8

LEMMA LifecycleInit == Init => Lifecycle!Init
<1> SUFFICES ASSUME Init PROVE Lifecycle!Init
  OBVIOUS
<1>1. ASSUME NEW c \in Changes PROVE ViewOf(c) = "none"
  <2>1. c > born
    BY BoundAssumption DEF Init, Changes
  <2> QED
    BY <2>1, ViewIs
<1> QED
  BY <1>1 DEF Lifecycle!Init

LEMMA LifecycleStep ==
    ASSUME TypeOK, HandsFull, Entries, Entries', [Next]_vars
    PROVE  Lifecycle!Next
<1>1. ASSUME NEW c \in Changes
      PROVE  ViewOf(c)' \in Lifecycle!Views /\ ViewOf(c)' \in Lifecycle!Onward(ViewOf(c))
  <2>1. ViewFacts(c) /\ ViewFacts(c)'
    BY ViewTyped, ViewTypedNext
  <2>2. ViewOf(c)' \in {"none", "active", "disabled", "resolved", "doubtful", "lost"}
        /\ ViewOf(c) \in {"none", "active", "disabled", "resolved", "doubtful", "lost"}
    BY <2>1 DEF ViewFacts
  <2>3. ViewOf(c)' \in Lifecycle!Views
    BY <2>2 DEF Lifecycle!Views
  <2>4. ViewOf(c)' \in Lifecycle!Onward(ViewOf(c))
    BY <2>2, ViewStep DEF Lifecycle!Onward
  <2> QED
    BY <2>3, <2>4
<1> QED
  BY <1>1 DEF Lifecycle!Next

\* The journal implements the lifecycle its docstrings draw, for every number of rules, threads,
\* changes and faults: each step of the handlers takes the view of every change one step
\* along active, disabled, resolved, or leaves it; resolved is final, a change in doubt stays
\* in doubt, and a forgotten one does not come back (revert_state, claim, restore).
THEOREM Refinement == Spec => LifecycleSpec
<1>1. TypeOK /\ HandsFull /\ Entries /\ [Next]_vars => (TypeOK /\ HandsFull /\ Entries)'
  BY TypedNext, EntriesNext
<1>2. Init => TypeOK /\ HandsFull /\ Entries
  BY TypedInit, EntriesInit
<1>3. TypeOK /\ HandsFull /\ Entries /\ [Next]_vars /\ Entries' => Lifecycle!Next
  BY LifecycleStep
<1> QED
  BY <1>1, <1>2, <1>3, LifecycleInit, PTL DEF Spec, LifecycleSpec, Lifecycle!Spec

-----------------------------------------------------------------------------
(* The journal and the policy, where the SMS names every rule it adds.      *)

\* What is written of changes: the entries, and the rows in busy threads' hands.
Papers == {log[i] : i \in LiveIds} \cup {act[a].row : a \in {x \in Actors : Busy(x)}}

\* Two writings of one change differ at most in their stamp.
Copy(r, s) == r.chg = s.chg /\ r.outcome = s.outcome /\ r.inv = s.inv

Adds(r) == r.outcome \in {"create", "deny"}

\* The rule an added rule's row stands for.
Mine(r) == r.inv[1].uid

\* The stamps that claims and rails write.
Plain(st) == st.resolved <=> st.resolution \in {"reverted", "deleted"}

\* What the rails write of a change: the first op of an added rule deletes that rule, which was
\* not there before PolicyPilot; what else it does is to edit cells.  A rule that is disabled
\* or deleted was there before, or its own entry no longer speaks for it.
Shaped(r) ==
    /\ Adds(r) =>
        /\ r.inv # <<>>
        /\ r.inv[1].op = "delete" /\ Mine(r) \notin Foreign /\ rule[Mine(r)] # "unused"
        /\ \A k \in DOMAIN r.inv : k # 1 => r.inv[k].op = "edit"
    /\ r.outcome = "edit" => \A k \in DOMAIN r.inv : r.inv[k].op = "edit"
    /\ r.outcome = "disable" => Len(r.inv) = 1 /\ r.inv[1].op \in {"enable", "restore"}
    /\ r.outcome = "delete" => \A k \in DOMAIN r.inv : r.inv[k].op = "recreate"
    /\ r.outcome \in {"disable", "delete"} => Uids(r.inv) \subseteq Foreign \cup disturbed

\* What is on paper is well written; what is in doubt speaks of disturbed rules only; one change
\* is written one way, and one rule is added by one change.
WellWritten ==
    /\ \A u \in Foreign : rule[u] # "unused"
    /\ \A r \in Papers : Plain(r.stamp) /\ Shaped(r)
    /\ \A c \in doubt : c <= born
    /\ \A r \in Papers : r.chg \in doubt => Uids(r.inv) \subseteq disturbed
    /\ \A r, s \in Papers : r.chg = s.chg => Copy(r, s)
    /\ \A r, s \in Papers : Adds(r) /\ Adds(s) /\ Mine(r) = Mine(s) => r.chg = s.chg

Writes(a) ==
    \/ ApplyCreate(a) \/ ApplyEdit(a) \/ RemoveDeny(a)
    \/ RemoveDisable(a) \/ CleanupDisable(a) \/ CleanupDelete(a)

LEMMA PapersAreRows ==
    ASSUME TypeOK, HandsFull, NEW r \in Papers
    PROVE  r \in Row
  BY DEF Papers, TypeOK, HandsFull, LiveIds

LEMMA InPapers ==
    /\ \A i \in LiveIds : log[i] \in Papers
    /\ \A a \in Actors : Busy(a) => act[a].row \in Papers
  BY DEF Papers

\* Only the rails write of a new change: other steps pass rows on, with another stamp at most.
LEMMA PapersKept ==
    ASSUME TypeOK, HandsFull, Next, ~\E a \in Actors : Writes(a), NEW r \in Papers',
           \A s \in Papers : Plain(s.stamp)
    PROVE  Plain(r.stamp) /\ \E s \in Papers : Copy(r, s)
<1> USE InPapers DEF Busy, InHand, Holding
<1> DEFINE Old == Plain(r.stamp) /\ \E s \in Papers : Copy(r, s)
<1>0. ASSUME r \in Papers PROVE Old
  BY <1>0 DEF Copy
<1>a. ASSUME NEW i \in LiveIds, NEW st, Plain(st), r = [log[i] EXCEPT !.stamp = st] PROVE Old
  <2>1. log[i] \in Row
    BY DEF LiveIds, TypeOK
  <2>2. Copy(r, log[i]) /\ Plain(r.stamp)
    BY <1>a, <2>1 DEF Copy, Row
  <2> QED
    BY <2>2
<1>b. \/ \E i \in LiveIds' : r = log'[i]
      \/ \E a \in Actors : act'[a].pc # "idle" /\ r = act'[a].row
  BY DEF Papers
<1> HIDE DEF Old
<1>1. ASSUME NEW a \in Actors, Record(a) PROVE Old
  <2>1. act'[a].pc = "idle" /\ \A b \in Actors \ {a} : act'[b] = act[b]
    BY <1>1 DEF Record, TypeOK, Idle
  <2>2. ASSUME NEW i \in LiveIds', r = log'[i] PROVE Old
    <3>1. log'[i] = act[a].row \/ (log'[i] = log[i] /\ i \in LiveIds)
      BY <1>1, <2>2 DEF Record, LiveIds, TypeOK
    <3> QED
      BY <1>0, <1>1, <2>2, <3>1 DEF Record
  <2>3. ASSUME NEW b \in Actors, act'[b].pc # "idle", r = act'[b].row PROVE Old
    BY <1>0, <2>1, <2>3
  <2> QED
    BY <1>b, <2>2, <2>3
<1>2. ASSUME NEW a \in Actors, Look(a) PROVE Old
  <2>1. PICK i \in Ids, v \in Verbs :
           log[i] # NoRow /\ act' = [act EXCEPT ![a] = [pc |-> "claim", id |-> i, verb |-> v, row |-> log[i]]]
    BY <1>2 DEF Look
  <2>2. act'[a].row = log[i] /\ i \in LiveIds /\ \A b \in Actors \ {a} : act'[b] = act[b]
    BY <2>1 DEF TypeOK, LiveIds
  <2>3. log' = log /\ LiveIds' = LiveIds
    BY <1>2 DEF Look, LiveIds
  <2> QED
    BY <1>0, <1>b, <2>2, <2>3
<1>3. ASSUME NEW a \in Actors, Claim(a) PROVE Old
  <2>1. \A b \in Actors : act'[b].pc # "idle" => act[b].pc # "idle" /\ act'[b].row = act[b].row
    BY <1>3 DEF Claim, TypeOK, Idle
  <2>2. ASSUME NEW b \in Actors, act'[b].pc # "idle", r = act'[b].row PROVE Old
    BY <1>0, <2>1, <2>2
  <2>3. Plain(StampOf(act[a].row, act[a].verb))
    BY <1>3 DEF Plain, StampOf, Open, TypeOK, Verbs
  <2>4. ASSUME NEW i \in LiveIds', r = log'[i] PROVE Old
    <3>1. \/ i \in LiveIds /\ log'[i] = log[i]
          \/ i \in LiveIds /\ log'[i] = [log[i] EXCEPT !.stamp = StampOf(act[a].row, act[a].verb)]
      BY <1>3, <2>4 DEF Claim, TypeOK, LiveIds, Claimable
    <3> QED
      BY <1>0, <1>a, <2>3, <2>4, <3>1
  <2> QED
    BY <1>b, <2>2, <2>4
<1>4. ASSUME NEW a \in Actors, SmsCommit(a) \/ SmsFail(a) \/ SmsTimeout(a) PROVE Old
  <2>1. \A b \in Actors : act'[b].pc # "idle" => act[b].pc # "idle" /\ act'[b].row = act[b].row
    BY <1>4 DEF SmsCommit, SmsFail, SmsTimeout, TypeOK, Idle
  <2>2. log' = log /\ LiveIds' = LiveIds
    BY <1>4 DEF SmsCommit, SmsFail, SmsTimeout, LiveIds
  <2> QED
    BY <1>0, <1>b, <2>1, <2>2
<1>5. ASSUME NEW a \in Actors, Restore(a) PROVE Old
  <2>1. \A b \in Actors : act'[b].pc # "idle" => act[b].pc # "idle" /\ act'[b].row = act[b].row
    BY <1>5 DEF Restore, TypeOK, Idle
  <2>2. ASSUME NEW b \in Actors, act'[b].pc # "idle", r = act'[b].row PROVE Old
    BY <1>0, <2>1, <2>2
  <2>3. ASSUME NEW i \in LiveIds', r = log'[i] PROVE Old
    <3>1. \/ i \in LiveIds /\ log'[i] = log[i]
          \/ i \in LiveIds /\ log'[i] = [log[i] EXCEPT !.stamp = act[a].row.stamp]
      BY <1>5, <2>3 DEF Restore, TypeOK, LiveIds, Released
    <3>2. CASE log'[i] = log[i] /\ i \in LiveIds
      BY <1>0, <2>3, <3>2
    <3>3. CASE i \in LiveIds /\ log'[i] = [log[i] EXCEPT !.stamp = act[a].row.stamp]
      <4>1. log[i] \in Row /\ act[a].row \in Row /\ act[a].row \in Papers
        BY <1>5, <3>3 DEF LiveIds, TypeOK, Restore, HandsFull
      <4>2. Copy(r, log[i]) /\ r.stamp = act[a].row.stamp
        BY <2>3, <3>3, <4>1 DEF Copy, Row
      <4> QED
        BY <3>3, <4>1, <4>2 DEF Old
    <3> QED
      BY <3>1, <3>2, <3>3
  <2> QED
    BY <1>b, <2>2, <2>3
<1>6. ASSUME DeleteEntry \/ ClearResolved PROVE Old
  <2>1. act' = act /\ \A i \in Ids : log'[i] # NoRow => log'[i] = log[i]
    BY <1>6 DEF DeleteEntry, ClearResolved, Forgotten
  <2> QED
    BY <1>0, <1>b, <2>1 DEF LiveIds
<1>7. ASSUME Crash \/ OutOfBand PROVE Old
  <2>1. log' = log /\ LiveIds' = LiveIds
    BY <1>7 DEF Crash, OutOfBand, LiveIds
  <2>2. \A b \in Actors : act'[b].pc # "idle" => act'[b] = act[b]
    BY <1>7 DEF Crash, OutOfBand, Idle
  <2> QED
    BY <1>0, <1>b, <2>1, <2>2
<1> QED
  BY <1>1, <1>2, <1>3, <1>4, <1>5, <1>6, <1>7 DEF Next, Writes, Old

\* Doubt costs: what becomes doubtful disturbs the rules its change speaks of; and no rule
\* becomes unused again.
LEMMA Grows ==
    ASSUME TypeOK, HandsFull, Next
    PROVE  /\ doubt \subseteq doubt' /\ disturbed \subseteq disturbed'
           /\ \A u \in Rules : rule[u] # "unused" => rule'[u] # "unused"
           /\ \A c \in doubt' \ doubt :
                 \E s \in Papers : s.chg = c /\ Uids(s.inv) \subseteq disturbed'
<1> USE InPapers DEF Busy, InHand, Holding
<1> DEFINE Costs == \A c \in doubt' \ doubt :
                       \E s \in Papers : s.chg = c /\ Uids(s.inv) \subseteq disturbed'
           Used == \A u \in Rules : rule[u] # "unused" => rule'[u] # "unused"
<1>0. \A ops, fresh : fresh \in Fresh(ops) /\ rule' = Replay(ops, fresh) => Used
  BY DEF Fresh, Replay, TypeOK
<1>1. ASSUME NEW a \in Actors, Writes(a)
      PROVE  doubt' = doubt /\ disturbed \subseteq disturbed' /\ Used
  BY <1>1 DEF Writes, ApplyCreate, ApplyEdit, RemoveDeny, RemoveDisable, CleanupDisable,
              CleanupDelete, Published, TypeOK
<1>2. ASSUME NEW a \in Actors, Record(a) \/ Claim(a) \/ Restore(a) \/ Look(a) \/ SmsFail(a)
      PROVE  /\ doubt \subseteq doubt' /\ disturbed \subseteq disturbed' /\ rule' = rule
             /\ doubt' \subseteq doubt \cup {act[a].row.chg}
             /\ doubt' # doubt => act[a].pc # "idle" /\ Uids(act[a].row.inv) \subseteq disturbed'
  BY <1>2 DEF Record, Claim, Restore, Look, SmsFail
<1>3. ASSUME NEW a \in Actors, SmsCommit(a) \/ SmsTimeout(a)
      PROVE  /\ doubt \subseteq doubt' /\ disturbed \subseteq disturbed' /\ Used
             /\ doubt' \subseteq doubt \cup {act[a].row.chg}
             /\ doubt' # doubt => act[a].pc # "idle" /\ Uids(act[a].row.inv) \subseteq disturbed'
  BY <1>0, <1>3 DEF SmsCommit, SmsTimeout
<1>4. ASSUME DeleteEntry \/ ClearResolved
      PROVE  doubt \subseteq doubt' /\ disturbed \subseteq disturbed' /\ rule' = rule /\ Costs
  <2>1. PICK ids \in SUBSET LiveIds : Forgotten(ids)
    BY <1>4 DEF DeleteEntry, ClearResolved
  <2> DEFINE held == {b \in Actors : InHand(b) /\ act[b].id \in ids}
             hit == {act[b].id : b \in held}
  <2>2. /\ doubt' = doubt \cup {log[i].chg : i \in hit}
        /\ disturbed' = disturbed \cup UNION {Uids(log[i].inv) : i \in hit}
        /\ rule' = rule
    BY <2>1 DEF Forgotten
  <2>3. hit \subseteq LiveIds
    BY <2>1
  <2>4. Costs
    <3> SUFFICES ASSUME NEW c \in doubt' \ doubt
                 PROVE  \E s \in Papers : s.chg = c /\ Uids(s.inv) \subseteq disturbed'
      OBVIOUS
    <3>1. PICK i \in hit : c = log[i].chg
      BY <2>2
    <3>2. Uids(log[i].inv) \subseteq disturbed'
      BY <2>2
    <3> QED
      BY <2>3, <3>1, <3>2
  <2> QED
    BY <2>2, <2>4
<1>5. ASSUME Crash
      PROVE  doubt \subseteq doubt' /\ disturbed \subseteq disturbed' /\ rule' = rule /\ Costs
  <2> DEFINE held == {b \in Actors : Holding(b)}
  <2>1. /\ doubt' = doubt \cup {act[b].row.chg : b \in held}
        /\ disturbed' = disturbed \cup UNION {Uids(act[b].row.inv) : b \in held}
        /\ rule' = rule
    BY <1>5 DEF Crash
  <2>2. Costs
    <3> SUFFICES ASSUME NEW c \in doubt' \ doubt
                 PROVE  \E s \in Papers : s.chg = c /\ Uids(s.inv) \subseteq disturbed'
      OBVIOUS
    <3>1. PICK b \in held : c = act[b].row.chg
      BY <2>1
    <3>2. Uids(act[b].row.inv) \subseteq disturbed' /\ act[b].row \in Papers
      BY <2>1
    <3> QED
      BY <3>1, <3>2
  <2> QED
    BY <2>1, <2>2
<1>6. ASSUME OutOfBand
      PROVE  doubt' = doubt /\ disturbed \subseteq disturbed' /\ Used
  BY <1>6 DEF OutOfBand, TypeOK
<1>7. ASSUME NEW a \in Actors, doubt' \subseteq doubt \cup {act[a].row.chg},
             doubt' # doubt => act[a].pc # "idle" /\ Uids(act[a].row.inv) \subseteq disturbed'
      PROVE  Costs
  BY <1>7
<1>8. doubt' = doubt => Costs
  OBVIOUS
<1>9. rule' = rule => Used
  OBVIOUS
<1> HIDE DEF Costs, Used
<1>10. doubt \subseteq doubt' /\ disturbed \subseteq disturbed' /\ Used /\ Costs
  BY <1>1, <1>2, <1>3, <1>4, <1>5, <1>6, <1>7, <1>8, <1>9 DEF Next, Writes
<1> QED
  BY <1>10 DEF Costs, Used

\* Passing rows on keeps them well written.
LEMMA PassedOn ==
    ASSUME TypeOK, HandsFull, ChangesKnown, WellWritten, Next, ~\E a \in Actors : Writes(a)
    PROVE  WellWritten'
<1>1. /\ doubt \subseteq doubt' /\ disturbed \subseteq disturbed'
      /\ \A u \in Rules : rule[u] # "unused" => rule'[u] # "unused"
      /\ \A c \in doubt' \ doubt : \E s \in Papers : s.chg = c /\ Uids(s.inv) \subseteq disturbed'
  BY Grows
<1>2. \A r \in Papers' : Plain(r.stamp) /\ \E s \in Papers : Copy(r, s)
  BY PapersKept DEF WellWritten
<1>3. \A u \in Foreign : rule'[u] # "unused"
  BY <1>1, RulesAssumption DEF WellWritten
<1>b. ASSUME NEW c \in doubt' PROVE c <= born'
  <2>1. born' = born
    BY DEF Next, Writes, Record, Look, Claim, SmsCommit, SmsFail, SmsTimeout, Restore,
           DeleteEntry, ClearResolved, Forgotten, Crash, OutOfBand
  <2>2. \A s \in Papers : s.chg <= born
    BY DEF Papers, LiveIds, ChangesKnown
  <2> QED
    BY <1>1, <2>1, <2>2 DEF WellWritten
<1>4. ASSUME NEW r \in Papers' PROVE Shaped(r)'
  <2>1. PICK s \in Papers : Copy(r, s)
    BY <1>2
  <2>2. s \in Row /\ Shaped(s)
    BY PapersAreRows DEF WellWritten
  <2>3. Adds(s) => Mine(s) \in Rules
    <3>1. s.inv \in Seq(Op) /\ (Adds(s) => s.inv # <<>>)
      BY <2>2 DEF Shaped, Row
    <3>2. s.inv # <<>> => s.inv[1] \in Op
      BY <3>1
    <3> QED
      BY <3>1, <3>2 DEF Mine, Op
  <2> QED
    BY <1>1, <2>1, <2>2, <2>3 DEF Shaped, Copy, Adds, Mine
<1>5. ASSUME NEW r \in Papers', r.chg \in doubt' PROVE Uids(r.inv) \subseteq disturbed'
  <2>1. PICK s \in Papers : Copy(r, s)
    BY <1>2
  <2>2. CASE r.chg \in doubt
    BY <1>1, <2>1, <2>2 DEF WellWritten, Copy
  <2>3. CASE r.chg \notin doubt
    <3>1. PICK t \in Papers : t.chg = r.chg /\ Uids(t.inv) \subseteq disturbed'
      BY <1>1, <1>5, <2>3
    <3> QED
      BY <2>1, <3>1 DEF WellWritten, Copy
  <2> QED
    BY <2>2, <2>3
<1>6. ASSUME NEW r \in Papers', NEW s \in Papers'
      PROVE  /\ r.chg = s.chg => Copy(r, s)
             /\ Adds(r) /\ Adds(s) /\ Mine(r) = Mine(s) => r.chg = s.chg
  <2>1. PICK p \in Papers, q \in Papers : Copy(r, p) /\ Copy(s, q)
    BY <1>2
  <2> QED
    BY <2>1 DEF WellWritten, Copy, Adds, Mine
<1> QED
  BY <1>2, <1>3, <1>b, <1>4, <1>5, <1>6 DEF WellWritten

\* The inverse of a deny deletes the Drop, and may put a narrowed cell back.
LEMMA DenyInverse ==
    ASSUME NEW u \in Rules,
           NEW narrow \in {<<>>} \cup {<<[op |-> "edit", uid |-> w]>> : w \in Rules}
    PROVE  LET inv == <<[op |-> "delete", uid |-> u]>> \o narrow
           IN  /\ inv \in Seq(Op) /\ inv # <<>> /\ inv[1] = [op |-> "delete", uid |-> u]
               /\ \A k \in DOMAIN inv : k # 1 => inv[k].op = "edit"
<1> DEFINE one == [op |-> "delete", uid |-> u]
<1>1. one \in Op /\ \A w \in Rules : [op |-> "edit", uid |-> w] \in Op
  BY DEF Op
<1>2. /\ narrow \in Seq(Op) /\ Len(narrow) \in {0, 1}
      /\ Len(narrow) = 1 => narrow[1].op = "edit"
  <2>1. CASE narrow = <<>>
    BY <2>1
  <2>2. ASSUME NEW w \in Rules, narrow = <<[op |-> "edit", uid |-> w]>>
        PROVE  /\ narrow \in Seq(Op) /\ Len(narrow) = 1
               /\ narrow[1].op = "edit"
    <3> DEFINE two == [op |-> "edit", uid |-> w]
    <3>1. two \in Op /\ two.op = "edit" /\ narrow = <<two>>
      BY <1>1, <2>2
    <3> HIDE DEF two
    <3> QED
      BY <3>1
  <2> QED
    BY <2>1, <2>2
<1> HIDE DEF one
<1>3. /\ <<one>> \in Seq(Op) /\ Len(<<one>>) = 1 /\ <<one>>[1] = one
  BY <1>1
<1>4. /\ <<one>> \o narrow \in Seq(Op)
      /\ Len(<<one>> \o narrow) = 1 + Len(narrow)
      /\ (<<one>> \o narrow)[1] = one
      /\ Len(narrow) = 1 => (<<one>> \o narrow)[2] = narrow[1]
  BY <1>2, <1>3
<1>5. \A k \in DOMAIN (<<one>> \o narrow) : k # 1 => k = 2 /\ Len(narrow) = 1
  <2> DEFINE s == <<one>> \o narrow
  <2>1. s \in Seq(Op) /\ Len(s) = 1 + Len(narrow) /\ Len(narrow) \in {0, 1}
    BY <1>2, <1>4
  <2> HIDE DEF s
  <2>2. DOMAIN s = 1 .. Len(s)
    BY <2>1
  <2>3. \A k \in DOMAIN s : k # 1 => k = 2 /\ Len(narrow) = 1
    <3>1. CASE Len(narrow) = 0
      BY <2>1, <2>2, <3>1
    <3>2. CASE Len(narrow) = 1
      BY <2>1, <2>2, <3>2
    <3> QED
      BY <2>1, <3>1, <3>2
  <2> QED
    BY <2>3 DEF s
<1>6. <<one>> \o narrow # <<>>
  BY <1>2, <1>4
<1> QED
  BY <1>2, <1>4, <1>5, <1>6 DEF one

\* What a rail publishes, and what it does to the rules: it turns on the rule it adds, which was
\* not in use; any other rule it moves goes off, and was there before or is disturbed.
RailWrites(a, new) ==
    /\ new.chg = born + 1
    /\ Published(a, new.outcome, new.inv, new.stamp)
    /\ Plain(new.stamp)
    /\ Adds(new) => /\ new.stamp = Open /\ Mine(new) \in Rules
                    /\ rule[Mine(new)] = "unused" /\ rule'[Mine(new)] = "on"
    /\ new.outcome = "disable" => rule[Mine(new)] = "on" /\ rule'[Mine(new)] = "off"
    /\ \A u \in Rules : rule'[u] # rule[u] =>
          \/ Adds(new) /\ u = Mine(new)
          \/ u \in Foreign \cup disturbed' /\ rule'[u] # "on"

LEMMA RailsWrite ==
    ASSUME TypeOK, "nouid" \notin Events, WellWritten, NEW a \in Actors, Writes(a)
    PROVE  \E new \in Row : RailWrites(a, new) /\ Shaped(new)'
<1> DEFINE shut == [resolved |-> TRUE, resolution |-> "deleted"]
           Written == \E new \in Row : RailWrites(a, new) /\ Shaped(new)'
<1>1. /\ Open \in Stamp /\ Plain(Open) /\ shut \in Stamp /\ Plain(shut)
  BY DEF Open, Stamp, Resolutions, Plain
<1>2. Outcomes = {"create", "edit", "deny", "disable", "delete"}
  BY DEF Outcomes
<1>3. \A u \in Rules, o \in {"delete", "enable", "restore", "disable", "edit", "recreate"} :
         /\ <<[op |-> o, uid |-> u]>> \in Seq(Op)
         /\ Uids(<<[op |-> o, uid |-> u]>>) = {u}
  BY DEF Op, Uids
<1>4. \A u \in Rules : AddedInverse(u) = {<<[op |-> "delete", uid |-> u]>>}
  BY DEF AddedInverse
<1>n. ASSUME NEW outcome \in Outcomes, NEW inv \in Seq(Op), NEW stamp \in Stamp,
             Published(a, outcome, inv, stamp)
      PROVE  \E new \in Row : /\ new.chg = born + 1 /\ new.outcome = outcome
                              /\ new.inv = inv /\ new.stamp = stamp
  <2>1. born + 1 \in Changes
    BY <1>n, BoundAssumption DEF Published, TypeOK, Changes
  <2> DEFINE new == [chg |-> born + 1, outcome |-> outcome, inv |-> inv, stamp |-> stamp]
  <2>2. new \in Row
    BY <2>1, PublishedRow
  <2> QED
    BY <2>2
<1> HIDE DEF Written
<1>5. CASE ApplyCreate(a)
  <2>1. PICK u \in Rules :
           /\ rule[u] = "unused" /\ rule' = [rule EXCEPT ![u] = "on"] /\ disturbed' = disturbed
           /\ Published(a, "create", <<[op |-> "delete", uid |-> u]>>, Open)
    BY <1>4, <1>5 DEF ApplyCreate
  <2>2. u \notin Foreign
    BY <2>1 DEF WellWritten
  <2>3. rule'[u] = "on" /\ \A w \in Rules \ {u} : rule'[w] = rule[w]
    BY <2>1 DEF TypeOK
  <2>4. PICK new \in Row :
           /\ new.chg = born + 1 /\ new.outcome = "create" /\ new.stamp = Open
           /\ new.inv = <<[op |-> "delete", uid |-> u]>>
    <3> DEFINE inv == <<[op |-> "delete", uid |-> u]>>
    <3>1. inv \in Seq(Op) /\ Published(a, "create", inv, Open)
      BY <1>3, <2>1
    <3> HIDE DEF inv
    <3>2. \E new \in Row : /\ new.chg = born + 1 /\ new.outcome = "create"
                           /\ new.inv = inv /\ new.stamp = Open
      BY <1>1, <1>2, <1>n, <3>1
    <3> QED
      BY <3>2 DEF inv
  <2>5. Shaped(new)'
    BY <2>2, <2>3, <2>4 DEF Shaped, Adds, Mine
  <2>6. Mine(new) = u /\ Published(a, new.outcome, new.inv, new.stamp)
    BY <2>1, <2>4 DEF Mine
  <2>7. RailWrites(a, new)
    BY <1>1, <2>1, <2>3, <2>4, <2>6 DEF RailWrites, Adds
  <2> QED
    BY <2>5, <2>7 DEF Written
<1>6. CASE ApplyEdit(a)
  <2>1. PICK u \in Rules :
           /\ rule' = rule
           /\ Published(a, "edit", <<[op |-> "edit", uid |-> u]>>, Open)
    BY <1>6 DEF ApplyEdit
  <2>2. PICK new \in Row :
           /\ new.chg = born + 1 /\ new.outcome = "edit" /\ new.stamp = Open
           /\ new.inv = <<[op |-> "edit", uid |-> u]>>
    <3> DEFINE inv == <<[op |-> "edit", uid |-> u]>>
    <3>1. inv \in Seq(Op) /\ Published(a, "edit", inv, Open)
      BY <1>3, <2>1
    <3> HIDE DEF inv
    <3>2. \E new \in Row : /\ new.chg = born + 1 /\ new.outcome = "edit"
                           /\ new.inv = inv /\ new.stamp = Open
      BY <1>1, <1>2, <1>n, <3>1
    <3> QED
      BY <3>2 DEF inv
  <2>3. Shaped(new)'
    BY <2>2 DEF Shaped, Adds
  <2>4. RailWrites(a, new)
    BY <1>1, <2>1, <2>2 DEF RailWrites, Adds
  <2> QED
    BY <2>3, <2>4 DEF Written
<1>7. CASE RemoveDeny(a)
  <2>1. PICK u \in Rules, narrow \in {<<>>} \cup {<<[op |-> "edit", uid |-> w]>> : w \in Rules} :
           /\ rule[u] = "unused" /\ rule' = [rule EXCEPT ![u] = "on"] /\ disturbed' = disturbed
           /\ Published(a, "deny", <<[op |-> "delete", uid |-> u]>> \o narrow, Open)
    BY <1>4, <1>7 DEF RemoveDeny
  <2> DEFINE inv == <<[op |-> "delete", uid |-> u]>> \o narrow
  <2>2. u \notin Foreign
    BY <2>1 DEF WellWritten
  <2>3. rule'[u] = "on" /\ \A w \in Rules \ {u} : rule'[w] = rule[w]
    BY <2>1 DEF TypeOK
  <2>4. /\ inv \in Seq(Op) /\ inv # <<>> /\ inv[1] = [op |-> "delete", uid |-> u]
        /\ \A k \in DOMAIN inv : k # 1 => inv[k].op = "edit"
    BY DenyInverse
  <2>5. Published(a, "deny", inv, Open)
    BY <2>1
  <2> HIDE DEF inv
  <2>6. PICK new \in Row :
           /\ new.chg = born + 1 /\ new.outcome = "deny" /\ new.stamp = Open /\ new.inv = inv
    BY <1>1, <1>2, <1>n, <2>4, <2>5
  <2>7. Shaped(new)'
    BY <2>2, <2>3, <2>4, <2>6 DEF Shaped, Adds, Mine
  <2>8. Mine(new) = u /\ Published(a, new.outcome, new.inv, new.stamp)
    BY <2>4, <2>5, <2>6 DEF Mine
  <2>9. RailWrites(a, new)
    BY <1>1, <2>1, <2>3, <2>6, <2>8 DEF RailWrites, Adds
  <2> QED
    BY <2>7, <2>9 DEF Written
<1>8. CASE RemoveDisable(a) \/ CleanupDisable(a)
  <2>1. PICK u \in Rules, o \in {"enable", "restore"} :
           /\ rule[u] = "on" /\ rule' = [rule EXCEPT ![u] = "off"]
           /\ disturbed' = disturbed \cup ({u} \ Foreign)
           /\ Published(a, "disable", <<[op |-> o, uid |-> u]>>, Open)
    BY <1>8 DEF RemoveDisable, CleanupDisable
  <2>2. rule'[u] = "off" /\ \A w \in Rules \ {u} : rule'[w] = rule[w]
    BY <2>1 DEF TypeOK
  <2>3. PICK new \in Row :
           /\ new.chg = born + 1 /\ new.outcome = "disable" /\ new.stamp = Open
           /\ new.inv = <<[op |-> o, uid |-> u]>>
    <3> DEFINE inv == <<[op |-> o, uid |-> u]>>
    <3>1. inv \in Seq(Op) /\ Published(a, "disable", inv, Open)
      BY <1>3, <2>1
    <3> HIDE DEF inv
    <3>2. \E new \in Row : /\ new.chg = born + 1 /\ new.outcome = "disable"
                           /\ new.inv = inv /\ new.stamp = Open
      BY <1>1, <1>2, <1>n, <3>1
    <3> QED
      BY <3>2 DEF inv
  <2>4. Uids(new.inv) \subseteq Foreign \cup disturbed'
    BY <1>3, <2>1, <2>3
  <2>5. Shaped(new)'
    BY <2>3, <2>4 DEF Shaped, Adds
  <2>6. Mine(new) = u /\ Published(a, new.outcome, new.inv, new.stamp)
    BY <2>1, <2>3 DEF Mine
  <2>7. RailWrites(a, new)
    BY <1>1, <2>1, <2>2, <2>3, <2>6 DEF RailWrites, Adds
  <2> QED
    BY <2>5, <2>7 DEF Written
<1>9. CASE CleanupDelete(a)
  <2>1. PICK u \in Rules :
           /\ rule[u] = "off" /\ rule' = [rule EXCEPT ![u] = "gone"]
           /\ disturbed' = disturbed \cup ({u} \ Foreign)
           /\ \/ Published(a, "delete", <<[op |-> "recreate", uid |-> u]>>, Open)
              \/ Published(a, "delete", <<>>, shut)
    BY <1>9 DEF CleanupDelete
  <2>2. rule'[u] = "gone" /\ \A w \in Rules \ {u} : rule'[w] = rule[w]
    BY <2>1 DEF TypeOK
  <2>3. PICK inv \in {<<>>, <<[op |-> "recreate", uid |-> u]>>}, stamp \in {Open, shut} :
           Published(a, "delete", inv, stamp)
    BY <2>1
  <2>4. inv \in Seq(Op) /\ stamp \in Stamp /\ Plain(stamp)
    <3> DEFINE one == [op |-> "recreate", uid |-> u]
    <3>2. one \in Op
      BY DEF Op
    <3> HIDE DEF one
    <3>3. <<>> \in Seq(Op) /\ <<one>> \in Seq(Op)
      BY <3>2
    <3>1. <<>> \in Seq(Op) /\ <<[op |-> "recreate", uid |-> u]>> \in Seq(Op)
      BY <3>3 DEF one
    <3> QED
      BY <1>1, <2>3, <3>1
  <2>5. PICK new \in Row :
           new.chg = born + 1 /\ new.outcome = "delete" /\ new.stamp = stamp /\ new.inv = inv
    BY <1>2, <1>n, <2>3, <2>4
  <2>6. /\ Uids(inv) \subseteq Foreign \cup disturbed'
        /\ \A k \in DOMAIN inv : inv[k].op = "recreate"
    <3>1. CASE inv = <<>>
      BY <3>1 DEF Uids
    <3>2. CASE inv = <<[op |-> "recreate", uid |-> u]>>
      <4>1. Uids(inv) = {u}
        BY <3>2 DEF Uids
      <4>2. \A k \in DOMAIN inv : inv[k].op = "recreate"
        BY <3>2
      <4> QED
        BY <2>1, <4>1, <4>2
    <3> QED
      BY <2>3, <3>1, <3>2
  <2>7. Shaped(new)'
    BY <2>5, <2>6 DEF Shaped, Adds
  <2>8. RailWrites(a, new)
    BY <2>1, <2>2, <2>3, <2>4, <2>5 DEF RailWrites, Adds
  <2> QED
    BY <2>7, <2>8 DEF Written
<1> QED
  BY <1>5, <1>6, <1>7, <1>8, <1>9 DEF Writes, Written

\* A publish adds one writing to those there are.
LEMMA OneMore ==
    ASSUME TypeOK, NEW a \in Actors, NEW new \in Row, RailWrites(a, new)
    PROVE  /\ act[a].pc = "idle" /\ act'[a].pc = "record" /\ act'[a].row = new
           /\ \A b \in Actors \ {a} : act'[b] = act[b]
           /\ log' = log /\ LiveIds' = LiveIds /\ doubt' = doubt /\ born' = born + 1
           /\ Papers' = Papers \cup {new}
<1>0. new = [chg |-> born + 1, outcome |-> new.outcome, inv |-> new.inv, stamp |-> new.stamp]
  BY DEF Row, RailWrites
<1>1. /\ act[a].pc = "idle" /\ log' = log /\ doubt' = doubt /\ born' = born + 1
      /\ act' = [act EXCEPT ![a] = [pc |-> "record", id |-> 0, verb |-> "rollback", row |-> new]]
  BY <1>0 DEF Published, RailWrites
<1>2. act'[a].pc = "record" /\ act'[a].row = new /\ \A b \in Actors \ {a} : act'[b] = act[b]
  BY <1>1 DEF TypeOK
<1>3. LiveIds' = LiveIds
  BY <1>1 DEF LiveIds
<1>4. \A r : r \in Papers' <=> r \in Papers \/ r = new
  <2>1. \A r : r \in Papers <=> \/ \E i \in LiveIds : r = log[i]
                                \/ \E b \in Actors : act[b].pc # "idle" /\ r = act[b].row
    BY DEF Papers, Busy
  <2>2. \A r : r \in Papers' <=> \/ \E i \in LiveIds : r = log[i]
                                 \/ \E b \in Actors : act'[b].pc # "idle" /\ r = act'[b].row
    BY <1>1, <1>3 DEF Papers, Busy
  <2> QED
    BY <1>1, <1>2, <2>1, <2>2
<1> QED
  BY <1>1, <1>2, <1>3, <1>4

\* What a rail writes is well written beside the rest.
LEMMA WrittenAnew ==
    ASSUME TypeOK, HandsFull, ChangesKnown, "nouid" \notin Events, WellWritten, Next,
           NEW a \in Actors, Writes(a)
    PROVE  WellWritten'
<1>1. PICK new \in Row : RailWrites(a, new) /\ Shaped(new)'
  BY RailsWrite
<1>2. new.chg = born + 1 /\ Plain(new.stamp) /\ (Adds(new) => rule[Mine(new)] = "unused")
  BY <1>1 DEF RailWrites
<1>3. Papers' = Papers \cup {new} /\ doubt' = doubt /\ born' = born + 1
  BY <1>1, OneMore
<1>4. /\ disturbed \subseteq disturbed'
      /\ \A u \in Rules : rule[u] # "unused" => rule'[u] # "unused"
  BY Grows
<1>5. \A s \in Papers : s \in Row /\ s.chg <= born
  BY PapersAreRows DEF Papers, LiveIds, ChangesKnown
<1>6. born \in Nat /\ \A s \in Papers : s.chg \in Nat
  BY <1>5, BoundAssumption DEF TypeOK, Changes, Row
<1>7. \A s \in Papers : Shaped(s)'
  <2> SUFFICES ASSUME NEW s \in Papers PROVE Shaped(s)'
    OBVIOUS
  <2>1. s \in Row /\ Shaped(s)
    BY <1>5 DEF WellWritten
  <2>2. Adds(s) => Mine(s) \in Rules
    <3>1. s.inv \in Seq(Op) /\ (Adds(s) => s.inv # <<>>)
      BY <2>1 DEF Shaped, Row
    <3>2. s.inv # <<>> => s.inv[1] \in Op
      BY <3>1
    <3> QED
      BY <3>1, <3>2 DEF Mine, Op
  <2> QED
    BY <1>4, <2>1, <2>2 DEF Shaped, Adds, Mine
<1>8. \A s \in Papers : s.chg # new.chg
  BY <1>2, <1>5, <1>6
<1>9. \A s \in Papers : Adds(s) /\ Adds(new) => Mine(s) # Mine(new)
  BY <1>2 DEF WellWritten, Shaped
<1>10. \A c \in doubt' : c <= born' /\ c # new.chg
  <2>1. \A c \in doubt : c \in Nat /\ c <= born
    BY DEF WellWritten, TypeOK, Changes
  <2> QED
    BY <1>2, <1>3, <1>6, <2>1
<1>11. \A u \in Foreign : rule'[u] # "unused"
  BY <1>4, RulesAssumption DEF WellWritten
<1>12. \A r \in Papers' : Plain(r.stamp) /\ Shaped(r)'
  BY <1>1, <1>2, <1>3, <1>7 DEF WellWritten
<1>13. \A r \in Papers' : r.chg \in doubt' => Uids(r.inv) \subseteq disturbed'
  BY <1>3, <1>4, <1>10 DEF WellWritten
<1>14. \A r, s \in Papers' : r.chg = s.chg => Copy(r, s)
  BY <1>3, <1>8 DEF WellWritten, Copy
<1>15. \A r, s \in Papers' : Adds(r) /\ Adds(s) /\ Mine(r) = Mine(s) => r.chg = s.chg
  <2>1. \A r, s \in Papers : Adds(r) /\ Adds(s) /\ Mine(r) = Mine(s) => r.chg = s.chg
    BY DEF WellWritten
  <2> QED
    BY <1>3, <1>9, <2>1
<1> QED
  BY <1>10, <1>11, <1>12, <1>13, <1>14, <1>15 DEF WellWritten

LEMMA WellWrittenNext ==
    ASSUME TypeOK, HandsFull, ChangesKnown, "nouid" \notin Events, WellWritten, [Next]_vars
    PROVE  WellWritten'
<1>1. CASE Next /\ \E a \in Actors : Writes(a)
  BY <1>1, WrittenAnew
<1>2. CASE Next /\ ~\E a \in Actors : Writes(a)
  BY <1>2, PassedOn
<1>3. CASE UNCHANGED vars
  <2>1. Papers' = Papers
    BY <1>3 DEF vars, Papers, LiveIds, Busy
  <2> QED
    BY <1>3, <2>1 DEF vars, WellWritten, Shaped
<1> QED
  BY <1>1, <1>2, <1>3

LEMMA WellWrittenInit == Init => WellWritten
<1> SUFFICES ASSUME Init PROVE WellWritten
  OBVIOUS
<1>1. Papers = {} /\ doubt = {}
  BY DEF Init, Papers, LiveIds, Busy, Idle
<1>2. \A u \in Foreign : rule[u] # "unused"
  BY RulesAssumption DEF Init
<1> QED
  BY <1>1, <1>2 DEF WellWritten

\* The status that the entry of an added rule gives that rule.
Status(st) ==
    IF st.resolved THEN "gone" ELSE IF st.resolution = "disabled" THEN "off" ELSE "on"

\* Outside doubt one thread at most holds a claim on a change, and the entry shows what that
\* claim has stamped.
HeldOnce ==
    /\ \A a, b \in Actors :
          /\ Holding(a) /\ Holding(b)
          /\ act[a].row.chg = act[b].row.chg
          /\ act[a].row.chg \notin doubt
          => a = b
    /\ \A a \in Actors : Holding(a) /\ act[a].row.chg \notin doubt
                         => log[act[a].id].stamp = StampOf(act[a].row, act[a].verb)

\* An added rule that nothing else has disturbed has the status of its change: that of the row a
\* thread records or holds its claim on, that of the entry where nobody does.
Shows ==
    /\ \A a \in Actors :
          /\ act[a].pc \in {"record", "sms", "restore"}
          /\ Adds(act[a].row)
          /\ Mine(act[a].row) \notin disturbed
          => rule[Mine(act[a].row)] = Status(act[a].row.stamp)
    /\ \A i \in LiveIds :
          /\ Adds(log[i])
          /\ ~Held(log[i].chg)
          /\ Mine(log[i]) \notin disturbed
          => rule[Mine(log[i])] = Status(log[i].stamp)

LEMMA StatusIs ==
    ASSUME NEW r \in Row, Adds(r), Plain(r.stamp)
    PROVE  AddedRuleShown(r) <=> rule[Mine(r)] = Status(r.stamp)
<1>1. r.stamp.resolved => r.stamp.resolution # "disabled"
  BY DEF Plain
<1>2. r.outcome # "disable"
  BY DEF Adds
<1>3. RevertState(r) = IF r.stamp.resolved THEN "resolved"
                       ELSE IF r.stamp.resolution = "disabled" THEN "disabled" ELSE "active"
  BY <1>1, <1>2 DEF RevertState
<1> QED
  BY <1>3 DEF AddedRuleShown, Mine, Status

\* A verb is accepted only on a row that is not resolved.
LEMMA FitsOpen ==
    ASSUME NEW r, NEW v \in Verbs, Plain(r.stamp), VerbFits(r, v)
    PROVE  ~r.stamp.resolved
  BY DEF VerbFits, RevertState, Plain, Verbs

\* The rule of a paper of an added rule is among the rules its inverse names.
LEMMA MineIsNamed ==
    ASSUME TypeOK, HandsFull, WellWritten, NEW r \in Papers, Adds(r)
    PROVE  Mine(r) \in Uids(r.inv) /\ Mine(r) \in Rules /\ Mine(r) \notin Foreign
<1>1. r \in Row /\ Shaped(r)
  BY PapersAreRows DEF WellWritten
<1>2. r.inv \in Seq(Op) /\ r.inv # <<>> /\ Mine(r) \notin Foreign
  BY <1>1 DEF Row, Shaped
<1>3. 1 \in DOMAIN r.inv
  BY <1>2
<1>4. Uids(r.inv) \subseteq Rules
  BY <1>2, UidsAreRules
<1> QED
  BY <1>2, <1>3, <1>4 DEF Mine, Uids

\* Steps that leave entries as they are or drop them, take up no claim, and let go of a claim
\* only by disturbing what it is about.
LEMMA QuietShows ==
    ASSUME IInv, IInv', WellWritten, HeldOnce, Shows,
           doubt \subseteq doubt', disturbed \subseteq disturbed',
           \A r \in Papers : Adds(r) /\ Mine(r) \notin disturbed' => rule'[Mine(r)] = rule[Mine(r)],
           \A i \in LiveIds' : i \in LiveIds /\ log'[i] = log[i],
           \A b \in Actors : Holding(b)' => /\ Holding(b) /\ act'[b].row = act[b].row
                                            /\ act'[b].id = act[b].id /\ act'[b].verb = act[b].verb,
           \A b \in Actors : act'[b].pc = "record"
                             => act[b].pc = "record" /\ act'[b].row = act[b].row,
           \A b \in Actors : Holding(b) /\ ~Holding(b)' => Uids(act[b].row.inv) \subseteq disturbed'
    PROVE  HeldOnce' /\ Shows'
<1> USE InPapers DEF Busy, InHand, Holding
<1>1. ASSUME NEW a \in Actors, NEW b \in Actors, Holding(a)', Holding(b)',
             act'[a].row.chg = act'[b].row.chg, act'[a].row.chg \notin doubt'
      PROVE  a = b
  BY <1>1 DEF HeldOnce
<1>2. ASSUME NEW a \in Actors, Holding(a)', act'[a].row.chg \notin doubt'
      PROVE  log'[act'[a].id].stamp = StampOf(act'[a].row, act'[a].verb)
  <2>1. act'[a].id \in LiveIds'
    BY <1>2 DEF IInv, HandsCurrent, HandsFull, LiveIds
  <2> QED
    BY <1>2, <2>1 DEF HeldOnce
<1>3. ASSUME NEW a \in Actors, act'[a].pc \in {"record", "sms", "restore"},
             Adds(act'[a].row), Mine(act'[a].row) \notin disturbed'
      PROVE  rule'[Mine(act'[a].row)] = Status(act'[a].row.stamp)
  <2>1. act[a].pc \in {"record", "sms", "restore"} /\ act'[a].row = act[a].row
    BY <1>3
  <2>2. rule[Mine(act[a].row)] = Status(act[a].row.stamp)
    BY <1>3, <2>1 DEF Shows
  <2> QED
    BY <1>3, <2>1, <2>2
<1>4. ASSUME NEW i \in LiveIds', Adds(log'[i]), ~Held(log[i].chg)', Mine(log'[i]) \notin disturbed'
      PROVE  rule'[Mine(log'[i])] = Status(log'[i].stamp)
  <2>1. i \in LiveIds /\ log'[i] = log[i] /\ log[i] \in Papers
    OBVIOUS
  <2>2. ~Held(log[i].chg)
    <3> SUFFICES ASSUME NEW b \in Actors, Holding(b), act[b].row.chg = log[i].chg PROVE FALSE
      BY DEF Held
    <3>1. ~Holding(b)'
      BY <1>4, <2>1 DEF Held
    <3>2. act[b].row.inv = log[i].inv
      BY <2>1 DEF WellWritten, Copy
    <3>3. Mine(log[i]) \in Uids(log[i].inv)
      BY <1>4, <2>1, MineIsNamed DEF IInv
    <3> QED
      BY <1>4, <2>1, <3>1, <3>2, <3>3
  <2>3. rule[Mine(log[i])] = Status(log[i].stamp)
    BY <1>4, <2>1, <2>2 DEF Shows
  <2> QED
    BY <1>4, <2>1, <2>3
<1> QED
  BY <1>1, <1>2, <1>3, <1>4 DEF HeldOnce, Shows

\* A verb replays ops on rules that the inverse names.
LEMMA OpsUids ==
    ASSUME NEW r \in Row, NEW v \in Verbs, r.inv # <<>>
    PROVE  Uids(OpsOf(r, v)) \subseteq Uids(r.inv)
<1>1. r.inv \in Seq(Op) /\ 1 \in DOMAIN r.inv
  BY DEF Row
<1>2. \A o : Uids(<<[op |-> o, uid |-> r.inv[1].uid]>>) = {r.inv[1].uid}
  BY DEF Uids
<1>3. r.inv[1].uid \in Uids(r.inv)
  BY <1>1 DEF Uids
<1>4. Uids(DisableAdded(r.inv)) \subseteq Uids(r.inv)
  <2>1. DOMAIN DisableAdded(r.inv) = DOMAIN r.inv
    BY DEF DisableAdded
  <2>2. ASSUME NEW i \in DOMAIN r.inv PROVE DisableAdded(r.inv)[i].uid = r.inv[i].uid
    <3>1. r.inv[i] \in Op
      BY <1>1
    <3> QED
      BY <3>1 DEF DisableAdded, Op
  <2> QED
    BY <2>1, <2>2 DEF Uids
<1>5. v \in {"delete", "reenable", "disable", "rollback"}
  BY DEF Verbs
<1>6. CASE v = "delete"
  BY <1>2, <1>3, <1>6 DEF OpsOf
<1>7. CASE v = "reenable"
  BY <1>2, <1>3, <1>7 DEF OpsOf
<1>8. CASE v = "disable"
  BY <1>4, <1>8 DEF OpsOf
<1>9. CASE v = "rollback"
  BY <1>9 DEF OpsOf
<1> QED
  BY <1>5, <1>6, <1>7, <1>8, <1>9

\* What a verb on an added rule does: delete and rollback delete the rule, reenable enables
\* it, disable disables it, and no other rule is named by an op that moves one.
LEMMA AddedOps ==
    ASSUME NEW r \in Row, NEW v \in Verbs, Adds(r), Shaped(r)
    PROVE  /\ Named(OpsOf(r, v), "recreate") = {} /\ Named(OpsOf(r, v), "restore") = {}
           /\ Named(OpsOf(r, v), "delete") = IF v \in {"delete", "rollback"} THEN {Mine(r)} ELSE {}
           /\ Named(OpsOf(r, v), "enable") = IF v = "reenable" THEN {Mine(r)} ELSE {}
           /\ Named(OpsOf(r, v), "disable") = IF v = "disable" THEN {Mine(r)} ELSE {}
<1> DEFINE ops == OpsOf(r, v)
<1>1. /\ r.inv \in Seq(Op) /\ 1 \in DOMAIN r.inv /\ r.inv[1].op = "delete"
      /\ \A k \in DOMAIN r.inv : k # 1 => r.inv[k].op = "edit"
  BY DEF Row, Shaped
<1>2. \A o, k : Named(<<[op |-> o, uid |-> Mine(r)]>>, k) = IF k = o THEN {Mine(r)} ELSE {}
  BY DEF Named
<1>3. CASE v = "delete"
  <2>1. ops = <<[op |-> "delete", uid |-> Mine(r)]>>
    BY <1>3 DEF OpsOf, Mine
  <2> HIDE DEF ops
  <2>2. Named(ops, "delete") = {Mine(r)}
    BY <1>2, <2>1
  <2>3. \A k \in {"recreate", "restore", "enable", "disable"} : Named(ops, k) = {}
    BY <1>2, <2>1
  <2> QED
    BY <1>3, <2>2, <2>3 DEF ops
<1>4. CASE v = "reenable"
  <2>1. ops = <<[op |-> "enable", uid |-> Mine(r)]>>
    BY <1>1, <1>4 DEF OpsOf, Mine
  <2> HIDE DEF ops
  <2>2. Named(ops, "enable") = {Mine(r)}
    BY <1>2, <2>1
  <2>3. \A k \in {"recreate", "restore", "delete", "disable"} : Named(ops, k) = {}
    BY <1>2, <2>1
  <2> QED
    BY <1>4, <2>2, <2>3 DEF ops
<1>5. CASE v = "rollback"
  <2>1. ops = r.inv
    BY <1>5 DEF OpsOf
  <2> HIDE DEF ops
  <2>2. Named(ops, "delete") = {Mine(r)}
    BY <1>1, <2>1 DEF Named, Mine
  <2>3. \A k \in {"recreate", "restore", "enable", "disable"} : Named(ops, k) = {}
    BY <1>1, <2>1 DEF Named
  <2> QED
    BY <1>5, <2>2, <2>3 DEF ops
<1>6. CASE v = "disable"
  <2>1. ops = DisableAdded(r.inv)
    BY <1>6 DEF OpsOf
  <2> HIDE DEF ops
  <2>2. /\ DOMAIN ops = DOMAIN r.inv
        /\ ops[1].op = "disable" /\ ops[1].uid = Mine(r)
        /\ \A k \in DOMAIN ops : k # 1 => ops[k].op = "edit"
    <3>1. \A k \in DOMAIN r.inv : r.inv[k] \in Op
      BY <1>1
    <3>2. ops = [k \in DOMAIN r.inv |->
                   IF r.inv[k].op = "delete" THEN [r.inv[k] EXCEPT !.op = "disable"] ELSE r.inv[k]]
      BY <2>1 DEF DisableAdded
    <3>3. ops[1] = [r.inv[1] EXCEPT !.op = "disable"]
      BY <1>1, <3>2
    <3>4. ops[1].op = "disable" /\ ops[1].uid = Mine(r)
      BY <1>1, <3>1, <3>3 DEF Op, Mine
    <3> QED
      BY <1>1, <3>2, <3>4
  <2>3. Named(ops, "disable") = {Mine(r)}
    BY <1>1, <2>2 DEF Named
  <2>4. \A k \in {"recreate", "restore", "enable", "delete"} : Named(ops, k) = {}
    BY <2>2 DEF Named
  <2> QED
    BY <1>6, <2>3, <2>4 DEF ops
<1> QED
  BY <1>3, <1>4, <1>5, <1>6 DEF Verbs

\* What a verb may do to a rule outside the disturbed ones: an added rule's verbs move that rule,
\* a disabled rule's that one, which was there before; other verbs move none.
LEMMA OpsReach ==
    ASSUME IInv, WellWritten, NEW a \in Actors, Holding(a),
           NEW k \in {"delete", "enable", "restore", "disable"},
           NEW u \in Named(OpsOf(act[a].row, act[a].verb), k), u \notin disturbed
    PROVE  \/ Adds(act[a].row) /\ u = Mine(act[a].row)
           \/ /\ act[a].row.outcome = "disable" /\ u = Mine(act[a].row) /\ u \in Foreign
              /\ act[a].row.chg \notin doubt
<1> USE InPapers DEF Busy, InHand, Holding
<1> DEFINE r == act[a].row
           v == act[a].verb
<1>1. /\ r \in Papers /\ r \in Row /\ v \in Verbs /\ Shaped(r) /\ VerbFits(r, v)
      /\ NeverParked(r)
  BY PapersAreRows DEF WellWritten, IInv, TypeOK, HandsFull, VerbsChecked, NothingParked
<1>2. r.inv # <<>>
  BY <1>1 DEF VerbFits
<1>3. u \in Uids(OpsOf(r, v))
  BY DEF Named, Uids
<1>4. u \in Uids(r.inv)
  BY <1>1, <1>2, <1>3, OpsUids
<1>5. r.chg \notin doubt
  BY <1>1, <1>4 DEF WellWritten
<1> HIDE DEF r, v
<1>6. r.outcome \in {"create", "edit", "deny", "disable", "delete"}
  BY <1>1 DEF Row, Outcomes
<1>7. CASE Adds(r)
  <2>1. u \in Named(OpsOf(r, v), k)
    BY DEF r, v
  <2> QED
    BY <1>1, <1>7, <2>1, AddedOps DEF r
<1>8. CASE r.outcome = "edit"
  <2>1. r.stamp.resolution # "disabled"
    BY <1>1, <1>5, <1>8 DEF NeverParked, ClosesAtOnce
  <2>2. v = "rollback"
    BY <1>1, <1>8, <2>1 DEF VerbFits, RevertState, Verbs
  <2>3. OpsOf(r, v) = r.inv
    BY <2>2 DEF OpsOf
  <2>4. \A j \in DOMAIN r.inv : r.inv[j].op = "edit"
    BY <1>1, <1>8 DEF Shaped
  <2>5. u \in Named(r.inv, k)
    BY <2>3 DEF r, v
  <2> QED
    BY <2>4, <2>5 DEF Named
<1>9. CASE r.outcome = "disable"
  <2>1. r.inv \in Seq(Op) /\ Len(r.inv) = 1 /\ u \in Foreign
    BY <1>1, <1>4, <1>9 DEF Shaped, Row
  <2>2. u = Mine(r)
    BY <1>4, <2>1 DEF Uids, Mine
  <2> QED
    BY <1>5, <1>9, <2>1, <2>2 DEF r
<1>10. CASE r.outcome = "delete"
  <2>1. r.stamp.resolution # "disabled"
    BY <1>1, <1>5, <1>10 DEF NeverParked, ClosesAtOnce
  <2>2. v = "rollback"
    BY <1>1, <1>10, <2>1 DEF VerbFits, RevertState, Verbs
  <2>3. OpsOf(r, v) = r.inv
    BY <2>2 DEF OpsOf
  <2>4. \A j \in DOMAIN r.inv : r.inv[j].op = "recreate"
    BY <1>1, <1>10 DEF Shaped
  <2>5. u \in Named(r.inv, k)
    BY <2>3 DEF r, v
  <2> QED
    BY <2>4, <2>5 DEF Named
<1> QED
  BY <1>6, <1>7, <1>8, <1>9, <1>10 DEF Adds

\* Replaying the inverse of one change leaves every other added rule alone.
LEMMA OthersSpared ==
    ASSUME IInv, WellWritten, NEW a \in Actors, Holding(a),
           NEW fresh \in Fresh(OpsOf(act[a].row, act[a].verb)),
           NEW r \in Papers, Adds(r), Mine(r) \notin disturbed, r.chg # act[a].row.chg
    PROVE  Replay(OpsOf(act[a].row, act[a].verb), fresh)[Mine(r)] = rule[Mine(r)]
<1> USE InPapers DEF Busy, Holding
<1> DEFINE ops == OpsOf(act[a].row, act[a].verb)
<1>1. Mine(r) \in Rules /\ Mine(r) \notin Foreign /\ rule[Mine(r)] # "unused"
  BY MineIsNamed DEF IInv, WellWritten, Shaped
<1>2. Mine(r) \notin fresh
  BY <1>1 DEF Fresh
<1>3. act[a].row \in Papers
  OBVIOUS
<1>4. \A k \in {"delete", "enable", "restore", "disable"} : Mine(r) \notin Named(ops, k)
  BY <1>1, <1>3, OpsReach DEF WellWritten
<1> QED
  BY <1>1, <1>2, <1>4 DEF Replay

\* Replaying the inverse of an added rule gives it the status that the claim has stamped.
LEMMA OwnReplayed ==
    ASSUME IInv, WellWritten, NEW a \in Actors, Holding(a), Adds(act[a].row),
           rule[Mine(act[a].row)] = Status(act[a].row.stamp),
           NEW fresh \in Fresh(OpsOf(act[a].row, act[a].verb))
    PROVE  Replay(OpsOf(act[a].row, act[a].verb), fresh)[Mine(act[a].row)]
             = Status(StampOf(act[a].row, act[a].verb))
<1> USE InPapers DEF Busy, InHand, Holding
<1> DEFINE r == act[a].row
           v == act[a].verb
           u == Mine(r)
<1>1. /\ r \in Papers /\ r \in Row /\ v \in Verbs /\ Shaped(r) /\ VerbFits(r, v) /\ Plain(r.stamp)
  BY PapersAreRows DEF WellWritten, IInv, TypeOK, HandsFull, VerbsChecked
<1>2. u \in Rules
  BY <1>1, MineIsNamed DEF IInv
<1>3. ~r.stamp.resolved
  BY <1>1, FitsOpen
<1>4. rule[u] \in {"on", "off"}
  BY <1>3 DEF Status
<1>5. /\ Named(OpsOf(r, v), "recreate") = {} /\ Named(OpsOf(r, v), "restore") = {}
      /\ Named(OpsOf(r, v), "delete") = IF v \in {"delete", "rollback"} THEN {u} ELSE {}
      /\ Named(OpsOf(r, v), "enable") = IF v = "reenable" THEN {u} ELSE {}
      /\ Named(OpsOf(r, v), "disable") = IF v = "disable" THEN {u} ELSE {}
  BY <1>1, AddedOps
<1>6. u \notin fresh
  BY <1>5 DEF Fresh
<1>7. r.outcome # "disable"
  BY DEF Adds
<1> DEFINE ops == OpsOf(r, v)
<1>8. Replay(ops, fresh)[u] = IF u \in Named(ops, "delete") THEN "gone"
                      ELSE IF u \in Named(ops, "enable") \cup Named(ops, "restore") THEN "on"
                      ELSE IF u \in Named(ops, "disable") THEN "off"
                      ELSE rule[u]
  <2> HIDE DEF ops, u
  <2> QED
    BY <1>2, <1>4, <1>6 DEF Replay, Live
<1>9. Status(StampOf(r, v)) = CASE v \in {"delete", "rollback"} -> "gone"
                                [] v = "reenable" -> "on"
                                [] v = "disable" -> "off"
  BY <1>1, <1>7 DEF Status, StampOf, Open, Verbs
<1> HIDE DEF r, v, u, ops
<1>10. v \in {"delete", "rollback", "reenable", "disable"}
  BY <1>1 DEF Verbs
<1> QED
  BY <1>5, <1>8, <1>9, <1>10 DEF ops, r, v, u

\* A publish shows what it has added, and moves no other added rule but a disturbed one.
LEMMA WriteShows ==
    ASSUME IInv, IInv', WellWritten, HeldOnce, Shows, "nouid" \notin Events, Next,
           NEW a \in Actors, Writes(a)
    PROVE  HeldOnce' /\ Shows'
<1> USE InPapers DEF Busy, InHand, Holding
<1>1. PICK new \in Row : RailWrites(a, new) /\ Shaped(new)'
  BY RailsWrite DEF IInv
<1>2. /\ act[a].pc = "idle" /\ act'[a].pc = "record" /\ act'[a].row = new
      /\ \A b \in Actors \ {a} : act'[b] = act[b]
      /\ log' = log /\ LiveIds' = LiveIds /\ doubt' = doubt
  BY <1>1, OneMore DEF IInv
<1>3. disturbed \subseteq disturbed'
  BY Grows DEF IInv
<1>4. ASSUME NEW r \in Papers, Adds(r), Mine(r) \notin disturbed'
      PROVE  rule'[Mine(r)] = rule[Mine(r)]
  <2>1. Mine(r) \in Rules /\ Mine(r) \notin Foreign /\ rule[Mine(r)] # "unused"
    BY <1>4, MineIsNamed DEF IInv, WellWritten, Shaped
  <2> QED
    BY <1>1, <1>4, <2>1 DEF RailWrites
<1>5. HeldOnce'
  BY <1>2 DEF HeldOnce
<1>6. ASSUME NEW b \in Actors, act'[b].pc \in {"record", "sms", "restore"},
             Adds(act'[b].row), Mine(act'[b].row) \notin disturbed'
      PROVE  rule'[Mine(act'[b].row)] = Status(act'[b].row.stamp)
  <2>1. CASE b = a
    <3>1. act'[b].row = new
      BY <1>2, <2>1
    <3>2. new.stamp = Open /\ rule'[Mine(new)] = "on"
      BY <1>1, <1>6, <3>1 DEF RailWrites
    <3>3. Status(Open) = "on"
      BY DEF Status, Open
    <3> QED
      BY <3>1, <3>2, <3>3
  <2>2. CASE b # a
    <3>1. act'[b] = act[b] /\ act[b].row \in Papers
      BY <1>2, <1>6, <2>2
    <3>2. rule[Mine(act[b].row)] = Status(act[b].row.stamp)
      BY <1>3, <1>6, <3>1 DEF Shows
    <3> QED
      BY <1>4, <1>6, <3>1, <3>2
  <2> QED
    BY <2>1, <2>2
<1>7. \A c : Held(c) => Held(c)'
  BY <1>2 DEF Held
<1>8. ASSUME NEW i \in LiveIds', Adds(log'[i]), ~Held(log[i].chg)', Mine(log'[i]) \notin disturbed'
      PROVE  rule'[Mine(log'[i])] = Status(log'[i].stamp)
  <2>1. i \in LiveIds /\ log'[i] = log[i] /\ ~Held(log[i].chg)
    BY <1>2, <1>7, <1>8
  <2>2. rule[Mine(log[i])] = Status(log[i].stamp)
    BY <1>3, <1>8, <2>1 DEF Shows
  <2> QED
    BY <1>4, <1>8, <2>1, <2>2
<1>9. \A i \in LiveIds' : log'[i].chg = log[i].chg
  BY <1>2
<1> QED
  BY <1>5, <1>6, <1>8, <1>9 DEF Shows, Held

\* A new entry shows the status its row was recorded with.
LEMMA RecordShows ==
    ASSUME IInv, IInv', WellWritten, HeldOnce, Shows, NEW a \in Actors, Record(a)
    PROVE  HeldOnce' /\ Shows'
<1> USE InPapers DEF Busy, InHand, Holding
<1>1. /\ act[a].pc = "record" /\ act'[a].pc = "idle"
      /\ \A b \in Actors \ {a} : act'[b] = act[b]
      /\ rule' = rule /\ doubt \subseteq doubt' /\ disturbed \subseteq disturbed'
  BY DEF Record, IInv, TypeOK, Idle
<1>2. \A b \in Actors : Holding(b)' => Holding(b) /\ act'[b] = act[b]
  BY <1>1
<1>3. \A b \in Actors : Holding(b) => Holding(b)'
  BY <1>1
<1>4. CASE log' = log
  <2>1. LiveIds' = LiveIds
    BY <1>4 DEF LiveIds
  <2> QED
    BY <1>1, <1>2, <1>3, <1>4, <2>1, QuietShows
<1>5. ASSUME NEW i \in Ids, NextId(i), log' = [log EXCEPT ![i] = act[a].row]
      PROVE  HeldOnce' /\ Shows'
  <2>1. i \notin LiveIds /\ log[i] = NoRow
    BY <1>5 DEF NextId, LiveIds, Ids
  <2>2. log'[i] = act[a].row /\ \A j \in Ids \ {i} : log'[j] = log[j]
    BY <1>5 DEF IInv, TypeOK
  <2>3. ASSUME NEW b \in Actors, NEW c \in Actors, Holding(b)', Holding(c)',
               act'[b].row.chg = act'[c].row.chg, act'[b].row.chg \notin doubt'
        PROVE  b = c
    BY <1>1, <1>2, <2>3 DEF HeldOnce
  <2>4. ASSUME NEW b \in Actors, Holding(b)', act'[b].row.chg \notin doubt'
        PROVE  log'[act'[b].id].stamp = StampOf(act'[b].row, act'[b].verb)
    <3>1. Holding(b) /\ act'[b] = act[b] /\ act[b].row.chg \notin doubt
      BY <1>1, <1>2, <2>4
    <3>2. act[b].id \in Ids /\ log[act[b].id] # NoRow
      BY <3>1 DEF IInv, HandsFull, HandsCurrent
    <3>3. log'[act[b].id] = log[act[b].id]
      BY <2>1, <2>2, <3>2
    <3> QED
      BY <3>1, <3>3 DEF HeldOnce
  <2>5. ASSUME NEW b \in Actors, act'[b].pc \in {"record", "sms", "restore"},
               Adds(act'[b].row), Mine(act'[b].row) \notin disturbed'
        PROVE  rule'[Mine(act'[b].row)] = Status(act'[b].row.stamp)
    BY <1>1, <2>5 DEF Shows
  <2>6. ASSUME NEW j \in LiveIds', Adds(log'[j]), Mine(log'[j]) \notin disturbed',
               ~\E b \in Actors : Holding(b)' /\ act'[b].row.chg = log'[j].chg
        PROVE  rule'[Mine(log'[j])] = Status(log'[j].stamp)
    <3>1. CASE j = i
      BY <1>1, <2>2, <2>6, <3>1 DEF Shows
    <3>2. CASE j # i
      <4>1. j \in LiveIds /\ log'[j] = log[j]
        BY <2>2, <2>6, <3>2 DEF LiveIds
      <4>2. ~Held(log[j].chg)
        BY <1>2, <1>3, <2>6, <4>1 DEF Held
      <4> QED
        BY <1>1, <2>6, <4>1, <4>2 DEF Shows
    <3> QED
      BY <3>1, <3>2
  <2> QED
    BY <2>3, <2>4, <2>5, <2>6 DEF HeldOnce, Shows, Held
<1> QED
  BY <1>4, <1>5 DEF Record

\* A claim is on the entry as it was read, and stamps it.
LEMMA ClaimShows ==
    ASSUME IInv, IInv', WellWritten, HeldOnce, Shows, NEW a \in Actors, Claim(a)
    PROVE  HeldOnce' /\ Shows'
<1> USE InPapers DEF Busy, InHand, Holding
<1>1. /\ act[a].pc = "claim" /\ act[a].id \in Ids /\ act[a].row \in Row /\ act[a].verb \in Verbs
      /\ rule' = rule /\ doubt \subseteq doubt' /\ disturbed \subseteq disturbed'
  BY DEF Claim, IInv, HandsFull, TypeOK
<1>2. CASE ~Claimable(log[act[a].id], act[a].row.stamp)
  <2>1. log' = log /\ act' = [act EXCEPT ![a] = Idle]
    BY <1>2 DEF Claim
  <2>2. act'[a].pc = "idle" /\ \A b \in Actors \ {a} : act'[b] = act[b]
    BY <2>1 DEF IInv, TypeOK, Idle
  <2>3. LiveIds' = LiveIds
    BY <2>1 DEF LiveIds
  <2>4. \A b \in Actors : Holding(b) => Holding(b)'
    BY <1>1, <2>2
  <2> QED
    BY <1>1, <2>1, <2>2, <2>3, <2>4, QuietShows
<1>3. CASE Claimable(log[act[a].id], act[a].row.stamp)
  <2> DEFINE r == act[a].row
             i == act[a].id
             st == StampOf(act[a].row, act[a].verb)
  <2>1. /\ log' = [log EXCEPT ![i].stamp = st] /\ act' = [act EXCEPT ![a].pc = "sms"]
        /\ Overlaps(a) => r.chg \in doubt' /\ Uids(r.inv) \subseteq disturbed'
        /\ r.chg \in doubt' => r.chg \in doubt \/ Uids(r.inv) \subseteq disturbed'
    BY <1>3 DEF Claim
  <2>2. /\ act'[a].pc = "sms" /\ act'[a].row = r /\ act'[a].id = i /\ act'[a].verb = act[a].verb
        /\ \A b \in Actors \ {a} : act'[b] = act[b]
    BY <2>1 DEF IInv, TypeOK
  <2>3. log[i] # NoRow /\ log[i] \in Row /\ ~log[i].stamp.resolved
        /\ log[i].stamp.resolution = r.stamp.resolution
    BY <1>1, <1>3 DEF Claimable, IInv, TypeOK
  <2>4. /\ log'[i] = [log[i] EXCEPT !.stamp = st] /\ \A j \in Ids \ {i} : log'[j] = log[j]
        /\ LiveIds' = LiveIds /\ i \in LiveIds
    <3> HIDE DEF st, r
    <3>1. /\ log'[i] = [log[i] EXCEPT !.stamp = st] /\ \A j \in Ids \ {i} : log'[j] = log[j]
      BY <1>1, <2>1 DEF IInv, TypeOK
    <3>2. log'[i] # NoRow
      <4>1. log'[i] \in Row \cup {NoRow} /\ log'[i] = [log[i] EXCEPT !.stamp = st]
        BY <1>1, <3>1 DEF IInv, TypeOK
      <4>2. [log[i] EXCEPT !.stamp = st] \in Row
        <5>1. st \in Stamp
          BY <1>1, StampOfType DEF st
        <5> QED
          BY <2>3, <5>1 DEF Row
      <4> QED
        BY <4>1, <4>2, NoRowAssumption
    <3> QED
      BY <1>1, <2>3, <3>1, <3>2 DEF LiveIds
  <2>5. /\ log'[i].chg = log[i].chg /\ log'[i].outcome = log[i].outcome
        /\ log'[i].inv = log[i].inv /\ log'[i].stamp = st
    BY <2>3, <2>4 DEF Row
  <2>6. r \in Papers /\ log[i] \in Papers /\ VerbFits(r, act[a].verb) /\ Plain(r.stamp)
    BY <1>1, <2>4 DEF WellWritten, IInv, VerbsChecked
  <2>7. ~r.stamp.resolved /\ log[i].stamp = r.stamp
    <3>1. ~r.stamp.resolved
      BY <1>1, <2>6, FitsOpen
    <3> QED
      BY <1>1, <2>3, <3>1 DEF Row, Stamp
  <2>8. log[i].chg # r.chg => log[i].chg \in doubt
    BY <1>1, <2>3 DEF IInv, HandsCurrent
  \* Outside doubt no other thread holds the change.
  <2>9. ASSUME NEW b \in Actors \ {a}, Holding(b), act[b].row.chg = r.chg PROVE r.chg \in doubt'
    <3>1. CASE ClosesAtOnce(r)
      BY <2>2, <2>9, <3>1 DEF IInv, OneThreadPerChange
    <3>2. CASE ~ClosesAtOnce(r)
      BY <2>1, <2>9, <3>2 DEF Overlaps
    <3> QED
      BY <3>1, <3>2
  <2> HIDE DEF r, i, st
  <2>10. ASSUME NEW b \in Actors, NEW c \in Actors, Holding(b)', Holding(c)',
                act'[b].row.chg = act'[c].row.chg, act'[b].row.chg \notin doubt'
         PROVE  b = c
    <3>1. CASE b # a /\ c # a
      BY <1>1, <2>2, <2>10, <3>1 DEF HeldOnce
    <3>2. CASE b = a \/ c = a
      BY <2>2, <2>9, <2>10, <3>2
    <3> QED
      BY <3>1, <3>2
  <2>11. ASSUME NEW b \in Actors, Holding(b)', act'[b].row.chg \notin doubt'
         PROVE  log'[act'[b].id].stamp = StampOf(act'[b].row, act'[b].verb)
    <3>1. CASE b = a
      BY <2>2, <2>5, <3>1 DEF r, i, st
    <3>2. CASE b # a
      <4>1. Holding(b) /\ act'[b] = act[b] /\ act[b].row.chg \notin doubt
        BY <1>1, <2>2, <2>11, <3>2
      <4>2. act[b].id \in Ids /\ log[act[b].id].chg = act[b].row.chg
        BY <4>1 DEF IInv, HandsFull, HandsCurrent
      <4>3. act[b].id # i
        <5> SUFFICES ASSUME act[b].id = i PROVE FALSE
          OBVIOUS
        <5>1. log[i].chg = act[b].row.chg
          BY <4>2
        <5>2. log[i].chg = r.chg
          BY <2>8, <4>1, <5>1
        <5> QED
          BY <2>9, <2>11, <3>2, <4>1, <5>1, <5>2
      <4>4. log'[act[b].id] = log[act[b].id]
        BY <2>4, <4>2, <4>3
      <4> QED
        BY <4>1, <4>4 DEF HeldOnce
    <3> QED
      BY <3>1, <3>2
  <2>12. ASSUME NEW b \in Actors, act'[b].pc \in {"record", "sms", "restore"},
               Adds(act'[b].row), Mine(act'[b].row) \notin disturbed'
         PROVE  rule'[Mine(act'[b].row)] = Status(act'[b].row.stamp)
    <3>1. CASE b # a
      BY <1>1, <2>2, <2>12, <3>1 DEF Shows
    <3>2. CASE b = a
      <4>1. Adds(r) /\ Mine(r) \notin disturbed'
        BY <2>2, <2>12, <3>2
      <4>2. Mine(r) \in Uids(r.inv)
        BY <2>6, <4>1, MineIsNamed DEF IInv
      <4>3. r.chg \notin doubt /\ r.chg \notin doubt'
        BY <1>1, <2>1, <2>6, <4>1, <4>2 DEF WellWritten
      <4>4. log[i].chg = r.chg
        BY <1>1, <4>3 DEF IInv, HandsCurrent, r, i
      <4>5. Copy(log[i], r)
        BY <2>6, <4>4 DEF WellWritten
      <4>6. ~Held(log[i].chg)
        BY <1>1, <2>9, <4>3, <4>4 DEF Held
      <4>7. Adds(log[i]) /\ Mine(log[i]) = Mine(r) /\ Mine(r) \notin disturbed /\ i \in LiveIds
        BY <1>1, <2>4, <4>1, <4>5 DEF Copy, Adds, Mine
      <4>8. rule[Mine(r)] = Status(r.stamp)
        BY <2>7, <4>6, <4>7 DEF Shows
      <4> QED
        BY <1>1, <2>2, <3>2, <4>8
    <3> QED
      BY <3>1, <3>2
  <2>13. ASSUME NEW j \in LiveIds', Adds(log'[j]), Mine(log'[j]) \notin disturbed',
                ~\E b \in Actors : Holding(b)' /\ act'[b].row.chg = log'[j].chg
         PROVE  rule'[Mine(log'[j])] = Status(log'[j].stamp)
    <3>1. CASE j = i
      <4>1. log[i].chg \in doubt
        BY <2>2, <2>5, <2>8, <2>13, <3>1
      <4>2. Adds(log[i]) /\ Mine(log[i]) \notin disturbed
        BY <1>1, <2>5, <2>13, <3>1 DEF Adds, Mine
      <4>3. Mine(log[i]) \in Uids(log[i].inv)
        BY <2>6, <4>2, MineIsNamed DEF IInv
      <4> QED
        BY <2>6, <4>1, <4>2, <4>3 DEF WellWritten
    <3>2. CASE j # i
      <4>1. j \in LiveIds /\ log'[j] = log[j]
        BY <2>4, <3>2 DEF LiveIds
      <4>2. ~Held(log[j].chg)
        BY <1>1, <2>2, <2>13, <4>1 DEF Held
      <4> QED
        BY <1>1, <2>13, <4>1, <4>2 DEF Shows
    <3> QED
      BY <3>1, <3>2
  <2> QED
    BY <2>10, <2>11, <2>12, <2>13 DEF HeldOnce, Shows, Held
<1> QED
  BY <1>2, <1>3

\* A committed replay gives the rule the status that the entry shows since its claim.
LEMMA CommitShows ==
    ASSUME IInv, IInv', WellWritten, HeldOnce, Shows, NEW a \in Actors, SmsCommit(a)
    PROVE  HeldOnce' /\ Shows'
<1> USE InPapers DEF Busy, InHand, Holding
<1> DEFINE r == act[a].row
           ops == OpsOf(act[a].row, act[a].verb)
<1>1. /\ act[a].pc = "sms" /\ log' = log /\ doubt' = doubt /\ disturbed' = disturbed
      /\ LiveIds' = LiveIds
  BY DEF SmsCommit, LiveIds
<1>2. act'[a].pc = "idle" /\ \A b \in Actors \ {a} : act'[b] = act[b]
  BY DEF SmsCommit, IInv, TypeOK, Idle
<1>3. PICK fresh \in Fresh(ops) : rule' = Replay(ops, fresh)
  BY DEF SmsCommit
<1>4. r \in Papers
  BY <1>1
<1>5. ASSUME NEW s \in Papers, Adds(s), Mine(s) \notin disturbed, s.chg # r.chg
      PROVE  rule'[Mine(s)] = rule[Mine(s)]
  BY <1>1, <1>3, <1>5, OthersSpared
<1>6. HeldOnce'
  BY <1>1, <1>2 DEF HeldOnce
<1>7. ASSUME NEW b \in Actors, act'[b].pc \in {"record", "sms", "restore"},
             Adds(act'[b].row), Mine(act'[b].row) \notin disturbed'
      PROVE  rule'[Mine(act'[b].row)] = Status(act'[b].row.stamp)
  <2>1. b # a /\ act'[b] = act[b] /\ act[b].row \in Papers
    BY <1>2, <1>7
  <2>2. Mine(act[b].row) \in Uids(act[b].row.inv)
    BY <1>7, <2>1, MineIsNamed DEF IInv
  <2>3. act[b].row.chg \notin doubt
    BY <1>1, <1>7, <2>1, <2>2 DEF WellWritten
  <2>4. act[b].row.chg # r.chg
    BY <1>1, <1>7, <2>1, <2>3 DEF HeldOnce, IInv, RecordsFresh
  <2>5. rule[Mine(act[b].row)] = Status(act[b].row.stamp)
    BY <1>1, <1>7, <2>1 DEF Shows
  <2> QED
    BY <1>1, <1>5, <1>7, <2>1, <2>4, <2>5
<1>8. ASSUME NEW j \in LiveIds', Adds(log'[j]), Mine(log'[j]) \notin disturbed',
             ~\E b \in Actors : Holding(b)' /\ act'[b].row.chg = log'[j].chg
      PROVE  rule'[Mine(log'[j])] = Status(log'[j].stamp)
  <2>1. j \in LiveIds /\ log'[j] = log[j] /\ log[j] \in Papers
    BY <1>1
  <2>2. CASE log[j].chg # r.chg
    <3>1. ~Held(log[j].chg)
      BY <1>2, <1>8, <2>1, <2>2 DEF Held
    <3>2. rule[Mine(log[j])] = Status(log[j].stamp)
      BY <1>1, <1>8, <2>1, <3>1 DEF Shows
    <3> QED
      BY <1>1, <1>5, <1>8, <2>1, <2>2, <3>2
  <2>3. CASE log[j].chg = r.chg
    <3>1. Copy(log[j], r)
      BY <1>4, <2>1, <2>3 DEF WellWritten
    <3>2. Adds(r) /\ Mine(r) = Mine(log[j]) /\ Mine(r) \notin disturbed
      BY <1>1, <1>8, <2>1, <3>1 DEF Copy, Adds, Mine
    <3>3. Mine(r) \in Uids(r.inv)
      BY <1>4, <3>2, MineIsNamed DEF IInv
    <3>4. r.chg \notin doubt
      BY <1>4, <3>2, <3>3 DEF WellWritten
    <3>5. act[a].id \in Ids /\ log[act[a].id] # NoRow /\ log[act[a].id].chg = r.chg
      BY <1>1, <3>4 DEF IInv, HandsFull, HandsCurrent
    <3>6. j = act[a].id
      BY <2>1, <2>3, <3>5 DEF IInv, EntriesDistinct, LiveIds
    <3>7. log[j].stamp = StampOf(act[a].row, act[a].verb)
      BY <1>1, <3>4, <3>6 DEF HeldOnce
    <3>8. rule[Mine(r)] = Status(r.stamp)
      BY <1>1, <3>2 DEF Shows
    <3>9. rule'[Mine(r)] = Status(StampOf(act[a].row, act[a].verb))
      BY <1>1, <1>3, <3>2, <3>8, OwnReplayed
    <3> QED
      BY <2>1, <3>2, <3>7, <3>9
  <2> QED
    BY <2>2, <2>3
<1> QED
  BY <1>6, <1>7, <1>8 DEF Shows, Held

\* A publish that is given up on, and commits, disturbs the rules it is about and no other.
LEMMA TimeoutShows ==
    ASSUME IInv, IInv', WellWritten, HeldOnce, Shows, NEW a \in Actors, SmsTimeout(a)
    PROVE  HeldOnce' /\ Shows'
<1> USE InPapers DEF Busy, InHand, Holding
<1> DEFINE r == act[a].row
           ops == OpsOf(act[a].row, act[a].verb)
<1>1. /\ act[a].pc = "sms" /\ log' = log /\ doubt \subseteq doubt'
      /\ disturbed' = disturbed \cup Uids(r.inv) /\ LiveIds' = LiveIds
      /\ act' = [act EXCEPT ![a].pc = "restore"]
  BY DEF SmsTimeout, LiveIds
<1>2. /\ act'[a].pc = "restore" /\ act'[a].row = r /\ act'[a].id = act[a].id
      /\ act'[a].verb = act[a].verb
      /\ \A b \in Actors \ {a} : act'[b] = act[b]
  BY <1>1 DEF IInv, TypeOK
<1>3. PICK fresh \in Fresh(ops) : rule' = Replay(ops, fresh)
  BY DEF SmsTimeout
<1>4. r \in Papers
  BY <1>1
<1>5. ASSUME NEW s \in Papers, Adds(s), Mine(s) \notin disturbed'
      PROVE  rule'[Mine(s)] = rule[Mine(s)]
  <2>1. Mine(s) \notin disturbed /\ Mine(s) \notin Uids(r.inv)
    BY <1>1, <1>5
  <2>2. Mine(s) \in Uids(s.inv)
    BY <1>5, MineIsNamed DEF IInv
  <2>3. s.chg # r.chg
    BY <1>4, <2>1, <2>2 DEF WellWritten, Copy
  <2> QED
    BY <1>1, <1>3, <1>5, <2>1, <2>3, OthersSpared
<1>6. \A b \in Actors : Holding(b) => Holding(b)'
  BY <1>2
<1>7. disturbed \subseteq disturbed'
  BY <1>1
<1> QED
  BY <1>1, <1>2, <1>5, <1>6, <1>7, QuietShows

\* A release puts back what the claim was made on, which is what the rule still is.
LEMMA RestoreShows ==
    ASSUME IInv, IInv', WellWritten, HeldOnce, Shows, NEW a \in Actors, Restore(a)
    PROVE  HeldOnce' /\ Shows'
<1> USE InPapers DEF Busy, InHand, Holding
<1> DEFINE r == act[a].row
           i == act[a].id
<1>1. /\ act[a].pc = "restore" /\ i \in Ids /\ r \in Row
      /\ rule' = rule /\ doubt \subseteq doubt' /\ disturbed \subseteq disturbed'
  BY DEF Restore, IInv, HandsFull
<1>2. act'[a].pc = "idle" /\ \A b \in Actors \ {a} : act'[b] = act[b]
  BY DEF Restore, IInv, TypeOK, Idle
<1>3. \A b \in Actors : Holding(b)' => Holding(b) /\ b # a /\ act'[b] = act[b]
  BY <1>2
<1>4. CASE log' = log /\ Uids(r.inv) \subseteq disturbed'
  <2>1. LiveIds' = LiveIds
    BY <1>4 DEF LiveIds
  <2>2. \A b \in Actors : Holding(b) /\ ~Holding(b)' => Uids(act[b].row.inv) \subseteq disturbed'
    BY <1>2, <1>4
  <2> QED
    BY <1>1, <1>2, <1>3, <1>4, <2>1, <2>2, QuietShows
<1>5. CASE log' = [log EXCEPT ![i] = Released(@, r.stamp)] /\ doubt' = doubt /\ disturbed' = disturbed
  <2>1. /\ \A j \in Ids \ {i} : log'[j] = log[j]
        /\ log[i] = NoRow => log'[i] = NoRow
        /\ log[i] # NoRow => log'[i] = [log[i] EXCEPT !.stamp = r.stamp]
    BY <1>1, <1>5 DEF Released, IInv, TypeOK
  <2>2. r \in Papers
    BY <1>1
  <2>3. log[i] # NoRow => /\ log[i] \in Row /\ i \in LiveIds /\ log[i] \in Papers
                          /\ log'[i].chg = log[i].chg /\ log'[i].outcome = log[i].outcome
                          /\ log'[i].inv = log[i].inv /\ log'[i].stamp = r.stamp
    BY <1>1, <2>1 DEF IInv, TypeOK, LiveIds, Row
  <2>4. \A j \in LiveIds' : j \in LiveIds
    BY <2>1 DEF LiveIds
  <2>5. ASSUME NEW b \in Actors, NEW c \in Actors, Holding(b)', Holding(c)',
               act'[b].row.chg = act'[c].row.chg, act'[b].row.chg \notin doubt'
        PROVE  b = c
    BY <1>1, <1>3, <2>5 DEF HeldOnce
  <2>6. ASSUME NEW b \in Actors, Holding(b)', act'[b].row.chg \notin doubt'
        PROVE  log'[act'[b].id].stamp = StampOf(act'[b].row, act'[b].verb)
    <3>1. Holding(b) /\ b # a /\ act'[b] = act[b] /\ act[b].row.chg \notin doubt
      BY <1>1, <1>3, <2>6
    <3>2. act[b].id \in Ids /\ log[act[b].id] # NoRow /\ log[act[b].id].chg = act[b].row.chg
      BY <3>1 DEF IInv, HandsFull, HandsCurrent
    <3>3. act[b].id # i
      <4> SUFFICES ASSUME act[b].id = i PROVE FALSE
        OBVIOUS
      <4>1. log[i] # NoRow /\ log[i].chg = act[b].row.chg
        BY <3>2
      <4>2. log[i].chg = r.chg
        BY <1>1, <3>1, <4>1 DEF IInv, HandsCurrent
      <4> QED
        BY <1>1, <3>1, <4>1, <4>2 DEF HeldOnce
    <3> QED
      BY <2>1, <3>1, <3>2, <3>3 DEF HeldOnce
  <2>7. ASSUME NEW b \in Actors, act'[b].pc \in {"record", "sms", "restore"},
               Adds(act'[b].row), Mine(act'[b].row) \notin disturbed'
        PROVE  rule'[Mine(act'[b].row)] = Status(act'[b].row.stamp)
    BY <1>1, <1>2, <2>7 DEF Shows
  <2>8. ASSUME NEW j \in LiveIds', Adds(log'[j]), Mine(log'[j]) \notin disturbed',
               ~\E b \in Actors : Holding(b)' /\ act'[b].row.chg = log'[j].chg
        PROVE  rule'[Mine(log'[j])] = Status(log'[j].stamp)
    <3>1. CASE j = i
      <4>1. log[i] # NoRow
        BY <2>4, <2>8, <3>1 DEF LiveIds
      <4>2. Adds(log[i]) /\ Mine(log[i]) \notin disturbed
        BY <1>1, <2>3, <2>8, <3>1, <4>1 DEF Adds, Mine
      <4>3. Mine(log[i]) \in Uids(log[i].inv)
        BY <2>3, <4>1, <4>2, MineIsNamed DEF IInv
      <4>4. log[i].chg \notin doubt
        BY <2>3, <4>1, <4>2, <4>3 DEF WellWritten
      <4>5. log[i].chg = r.chg
        BY <1>1, <4>1, <4>4 DEF IInv, HandsCurrent
      <4>6. Copy(log[i], r)
        BY <2>2, <2>3, <4>1, <4>5 DEF WellWritten
      <4>7. Adds(r) /\ Mine(r) = Mine(log[i])
        BY <4>2, <4>6 DEF Copy, Adds, Mine
      <4>8. rule[Mine(r)] = Status(r.stamp)
        BY <1>1, <4>2, <4>7 DEF Shows
      <4> QED
        BY <1>1, <2>3, <3>1, <4>1, <4>7, <4>8 DEF Mine
    <3>2. CASE j # i
      <4>1. j \in LiveIds /\ log'[j] = log[j] /\ log[j] \in Papers
        BY <2>1, <2>4, <2>8, <3>2 DEF LiveIds
      <4>2. Mine(log[j]) \in Uids(log[j].inv)
        BY <2>8, <4>1, MineIsNamed DEF IInv
      <4>3. log[j].chg \notin doubt
        BY <1>1, <2>8, <4>1, <4>2 DEF WellWritten
      <4>4. log[j].chg # r.chg
        <5> SUFFICES ASSUME log[j].chg = r.chg PROVE FALSE
          OBVIOUS
        <5>1. log[i] # NoRow /\ log[i].chg = r.chg
          BY <1>1, <4>3 DEF IInv, HandsCurrent
        <5> QED
          BY <1>1, <3>2, <4>1, <5>1 DEF IInv, EntriesDistinct, LiveIds
      <4>5. ~Held(log[j].chg)
        BY <1>2, <2>8, <4>1, <4>4 DEF Held
      <4> QED
        BY <1>1, <1>5, <2>8, <4>1, <4>5 DEF Shows
    <3> QED
      BY <3>1, <3>2
  <2> QED
    BY <2>5, <2>6, <2>7, <2>8 DEF HeldOnce, Shows, Held
<1> QED
  BY <1>4, <1>5 DEF Restore

LEMMA ShowsNext ==
    ASSUME IInv, IInv', WellWritten, HeldOnce, Shows, "nouid" \notin Events, [Next]_vars
    PROVE  HeldOnce' /\ Shows'
<1> USE InPapers DEF Busy, InHand, Holding
<1>1. ASSUME NEW a \in Actors, Writes(a), Next PROVE HeldOnce' /\ Shows'
  BY <1>1, WriteShows
<1>2. ASSUME NEW a \in Actors, Look(a) PROVE HeldOnce' /\ Shows'
  <2>1. /\ rule' = rule /\ doubt' = doubt /\ disturbed' = disturbed /\ log' = log
        /\ LiveIds' = LiveIds /\ act[a].pc = "idle"
    BY <1>2 DEF Look, LiveIds
  <2>2. act'[a].pc = "claim" /\ \A b \in Actors \ {a} : act'[b] = act[b]
    BY <1>2 DEF Look, IInv, TypeOK
  <2>3. \A b \in Actors : Holding(b) => Holding(b)'
    BY <2>1, <2>2
  <2> QED
    BY <2>1, <2>2, <2>3, QuietShows
<1>3. ASSUME NEW a \in Actors, SmsFail(a) PROVE HeldOnce' /\ Shows'
  <2>1. /\ rule' = rule /\ doubt' = doubt /\ disturbed' = disturbed /\ log' = log
        /\ LiveIds' = LiveIds /\ act[a].pc = "sms"
    BY <1>3 DEF SmsFail, LiveIds
  <2>2. /\ act'[a].pc = "restore" /\ act'[a].row = act[a].row /\ act'[a].id = act[a].id
        /\ act'[a].verb = act[a].verb /\ \A b \in Actors \ {a} : act'[b] = act[b]
    BY <1>3 DEF SmsFail, IInv, TypeOK
  <2>3. \A b \in Actors : Holding(b) => Holding(b)'
    BY <2>2
  <2> QED
    BY <2>1, <2>2, <2>3, QuietShows
<1>4. CASE DeleteEntry \/ ClearResolved
  <2>1. /\ rule' = rule /\ act' = act /\ doubt \subseteq doubt' /\ disturbed \subseteq disturbed'
        /\ \A i \in Ids : log'[i] # NoRow => log'[i] = log[i]
    BY <1>4 DEF DeleteEntry, ClearResolved, Forgotten
  <2>2. \A i \in LiveIds' : i \in LiveIds /\ log'[i] = log[i]
    BY <2>1 DEF LiveIds
  <2>3. \A b \in Actors : Holding(b) => Holding(b)'
    BY <2>1
  <2> QED
    BY <2>1, <2>2, <2>3, QuietShows
<1>5. CASE Crash
  <2>1. /\ rule' = rule /\ log' = log /\ LiveIds' = LiveIds
        /\ doubt \subseteq doubt' /\ disturbed \subseteq disturbed'
        /\ act' = [b \in Actors |-> Idle]
        /\ \A b \in Actors : Holding(b) => Uids(act[b].row.inv) \subseteq disturbed'
    BY <1>5 DEF Crash, LiveIds
  <2>2. \A b \in Actors : act'[b].pc = "idle"
    BY <2>1 DEF Idle
  <2> QED
    BY <2>1, <2>2, QuietShows
<1>6. CASE OutOfBand
  <2>1. /\ log' = log /\ LiveIds' = LiveIds /\ act' = act
        /\ doubt' = doubt /\ disturbed \subseteq disturbed'
    BY <1>6 DEF OutOfBand, LiveIds
  <2>2. \A u \in Rules : u \notin disturbed' => rule'[u] = rule[u]
    BY <1>6 DEF OutOfBand, IInv, TypeOK
  <2>3. \A r \in Papers : Adds(r) /\ Mine(r) \notin disturbed' => rule'[Mine(r)] = rule[Mine(r)]
    BY <2>2, MineIsNamed DEF IInv
  <2>4. \A b \in Actors : Holding(b) => Holding(b)'
    BY <2>1
  <2> QED
    BY <2>1, <2>3, <2>4, QuietShows
<1>7. CASE UNCHANGED vars
  <2>1. /\ rule' = rule /\ log' = log /\ LiveIds' = LiveIds /\ act' = act
        /\ doubt' = doubt /\ disturbed' = disturbed
    BY <1>7 DEF vars, LiveIds
  <2> QED
    BY <2>1 DEF HeldOnce, Shows, Held
<1> QED
  BY <1>1, <1>2, <1>3, <1>4, <1>5, <1>6, <1>7, RecordShows, ClaimShows, CommitShows,
     TimeoutShows, RestoreShows DEF Next, Writes

\* Papers, holders and rules agree in every state, where the SMS names the rules it adds.
Agreed == WellWritten /\ HeldOnce /\ Shows

LEMMA AgreedInit == Init => Agreed
<1> SUFFICES ASSUME Init PROVE HeldOnce /\ Shows
  BY WellWrittenInit DEF Agreed
<1>1. LiveIds = {} /\ \A a \in Actors : act[a].pc = "idle"
  BY DEF Init, LiveIds, Idle
<1> QED
  BY <1>1 DEF HeldOnce, Shows, Holding

LEMMA AlwaysAgreed ==
    ASSUME "nouid" \notin Events
    PROVE  Spec => []Agreed
<1>1. IInv /\ IInv' /\ Agreed /\ [Next]_vars => Agreed'
  BY WellWrittenNext, ShowsNext DEF Agreed, IInv
<1> QED
  BY <1>1, AgreedInit, Invariant, PTL DEF Spec

\* Where the SMS names the rules it adds: whatever threads, failures and crashes there are, the
\* entry of an added rule shows the status of that rule, but for rules that something other than
\* their own entry has moved (record, claim, revert_execute, restore).
THEOREM MatchesPolicy ==
    ASSUME "nouid" \notin Events
    PROVE  Spec => []LogMatchesPolicy
<1>1. ASSUME IInv, Agreed PROVE LogMatchesPolicy
  <2> SUFFICES ASSUME NEW i \in LiveIds, AddsRule(log[i]),
                      log[i].inv[1].uid \notin disturbed,
                      \A a \in Actors : Holding(a) => act[a].row.chg # log[i].chg
               PROVE  AddedRuleShown(log[i])
    BY DEF LogMatchesPolicy
  <2>1. log[i] \in Row /\ Adds(log[i]) /\ Plain(log[i].stamp)
    BY <1>1, InPapers DEF IInv, TypeOK, LiveIds, AddsRule, Adds, Agreed, WellWritten
  <2>2. rule[Mine(log[i])] = Status(log[i].stamp)
    BY <1>1, <2>1 DEF Agreed, Shows, Held, Mine
  <2> QED
    BY <2>1, <2>2, StatusIs
<1>2. IInv /\ Agreed => LogMatchesPolicy
  BY <1>1
<1> QED
  BY <1>2, AlwaysAgreed, Invariant, PTL

-----------------------------------------------------------------------------
(* Rules that were there before PolicyPilot. *)

\* What may still be replayed: a row a thread records or holds, and an entry not resolved.
Pending ==
    {act[a].row : a \in {x \in Actors : act[x].pc \in {"record", "sms", "restore"}}}
    \cup {log[i] : i \in {j \in LiveIds : ~log[j].stamp.resolved}}

\* While the disable of a rule may still be replayed the rule is not on, unless something else
\* has moved it, and it was disabled once.
Disabled(r) == r.outcome = "disable" /\ Mine(r) \notin disturbed

Resting ==
    /\ \A r \in Pending : Disabled(r) => rule[Mine(r)] # "on"
    /\ \A r, s \in Pending : Disabled(r) /\ Disabled(s) /\ Mine(r) = Mine(s) => r.chg = s.chg

LEMMA PendingPapers == Pending \subseteq Papers
  BY DEF Pending, Papers, Busy

\* A disabled rule that nothing else has disturbed was there before, and its change is not in doubt.
LEMMA DisabledForeign ==
    ASSUME IInv, WellWritten, NEW r \in Papers, Disabled(r)
    PROVE  Mine(r) \in Uids(r.inv) /\ Mine(r) \in Foreign /\ r.chg \notin doubt
<1>1. r \in Row /\ Shaped(r)
  BY PapersAreRows DEF WellWritten, IInv
<1>2. r.inv \in Seq(Op) /\ Len(r.inv) = 1 /\ Uids(r.inv) \subseteq Foreign \cup disturbed
  BY <1>1 DEF Shaped, Row, Disabled
<1>3. Mine(r) \in Uids(r.inv)
  BY <1>2 DEF Mine, Uids
<1> QED
  BY <1>2, <1>3 DEF Disabled, WellWritten

\* Only the rails disable anew: what is pending after another step was pending before it.
LEMMA PendingKept ==
    ASSUME IInv, IInv', WellWritten, WellWritten', Next, ~\E a \in Actors : Writes(a),
           NEW r \in Pending', r.outcome = "disable", Mine(r) \notin disturbed'
    PROVE  \E s \in Pending : Copy(r, s)
<1> USE InPapers DEF Busy, InHand, Holding
<1> DEFINE Old == \E s \in Pending : Copy(r, s)
<1>0. ASSUME r \in Pending PROVE Old
  BY <1>0 DEF Copy
<1>a. \/ \E b \in Actors : act'[b].pc \in {"record", "sms", "restore"} /\ r = act'[b].row
      \/ \E i \in LiveIds' : r = log'[i] /\ ~log'[i].stamp.resolved
  BY DEF Pending
<1>b. disturbed \subseteq disturbed' /\ doubt \subseteq doubt'
  BY Grows DEF IInv
\* What is in doubt does not come into it.
<1>c. \A s \in Papers : Copy(r, s) => s.chg \notin doubt
  <2> SUFFICES ASSUME NEW s \in Papers, Copy(r, s) PROVE s.chg \notin doubt
    OBVIOUS
  <2>1. Disabled(s)
    BY <1>b DEF Copy, Disabled, Mine
  <2> QED
    BY <2>1, DisabledForeign
<1>d. \A b \in Actors : act[b].pc \in {"record", "sms", "restore"} => act[b].row \in Pending
  BY DEF Pending
<1>e. \A i \in LiveIds : ~log[i].stamp.resolved => log[i] \in Pending
  BY DEF Pending
<1> HIDE DEF Old
<1>1. ASSUME NEW a \in Actors, Record(a) PROVE Old
  <2>1. /\ act[a].pc = "record" /\ act'[a].pc = "idle"
        /\ \A b \in Actors \ {a} : act'[b] = act[b]
    BY <1>1 DEF Record, IInv, TypeOK, Idle
  <2>2. \A i \in LiveIds' : log'[i] = act[a].row \/ (i \in LiveIds /\ log'[i] = log[i])
    BY <1>1 DEF Record, LiveIds, IInv, TypeOK
  <2> QED
    BY <1>0, <1>a, <1>d, <1>e, <2>1, <2>2
<1>2. ASSUME NEW a \in Actors, Look(a) PROVE Old
  <2>1. act'[a].pc = "claim" /\ \A b \in Actors \ {a} : act'[b] = act[b]
    BY <1>2 DEF Look, IInv, TypeOK
  <2>2. log' = log /\ LiveIds' = LiveIds
    BY <1>2 DEF Look, LiveIds
  <2> QED
    BY <1>0, <1>a, <1>d, <1>e, <2>1, <2>2
<1>3. ASSUME NEW a \in Actors, Claim(a) PROVE Old
  <2>1. act[a].pc = "claim" /\ act[a].id \in Ids
    BY <1>3 DEF Claim, IInv, HandsFull
  <2>2. CASE ~Claimable(log[act[a].id], act[a].row.stamp)
    <3>1. log' = log /\ act' = [act EXCEPT ![a] = Idle] /\ LiveIds' = LiveIds
      BY <1>3, <2>2 DEF Claim, LiveIds
    <3>2. act'[a].pc = "idle" /\ \A b \in Actors \ {a} : act'[b] = act[b]
      BY <3>1 DEF IInv, TypeOK, Idle
    <3> QED
      BY <1>0, <1>a, <1>d, <1>e, <3>1, <3>2
  <2>3. CASE Claimable(log[act[a].id], act[a].row.stamp)
    <3> DEFINE i == act[a].id
               st == StampOf(act[a].row, act[a].verb)
    <3>1. log' = [log EXCEPT ![i].stamp = st] /\ act' = [act EXCEPT ![a].pc = "sms"]
      BY <1>3, <2>3 DEF Claim
    <3>2. act'[a].row = act[a].row /\ \A b \in Actors \ {a} : act'[b] = act[b]
      BY <3>1 DEF IInv, TypeOK
    <3>3. log[i] # NoRow /\ log[i] \in Row /\ ~log[i].stamp.resolved /\ i \in LiveIds
      BY <2>1, <2>3 DEF Claimable, IInv, TypeOK, LiveIds
    <3> HIDE DEF st
    <3>4. log'[i] = [log[i] EXCEPT !.stamp = st] /\ \A j \in Ids \ {i} : log'[j] = log[j]
      BY <2>1, <3>1 DEF IInv, TypeOK
    <3>5. /\ log'[i].chg = log[i].chg /\ log'[i].outcome = log[i].outcome
          /\ log'[i].inv = log[i].inv
      BY <3>3, <3>4 DEF Row
    <3> HIDE DEF i
    <3>6. log[i] \in Pending /\ log[i] \in Papers /\ act[a].row \in Papers
      BY <1>e, <2>1, <3>3
    <3>7. ASSUME r = act'[a].row PROVE Old
      <4>1. Copy(r, act[a].row) /\ act[a].row.chg \notin doubt
        BY <1>c, <3>2, <3>6, <3>7 DEF Copy
      <4>2. log[i].chg = act[a].row.chg
        BY <2>1, <4>1 DEF IInv, HandsCurrent, i
      <4>3. Copy(act[a].row, log[i])
        BY <3>6, <4>2 DEF WellWritten
      <4> QED
        BY <3>6, <4>1, <4>3 DEF Old, Copy
    <3>8. ASSUME r = log'[i] PROVE Old
      BY <3>5, <3>6, <3>8 DEF Old, Copy
    <3>9. \A j \in LiveIds' : j = i \/ (j \in LiveIds /\ log'[j] = log[j])
      BY <3>4 DEF LiveIds
    <3> QED
      BY <1>0, <1>a, <1>d, <1>e, <3>2, <3>7, <3>8, <3>9
  <2> QED
    BY <2>2, <2>3
<1>4. ASSUME NEW a \in Actors, SmsCommit(a) \/ SmsFail(a) \/ SmsTimeout(a) PROVE Old
  <2>1. \A b \in Actors : act'[b].pc \in {"record", "sms", "restore"} =>
           act[b].pc \in {"record", "sms", "restore"} /\ act'[b].row = act[b].row
    BY <1>4 DEF SmsCommit, SmsFail, SmsTimeout, IInv, TypeOK, Idle
  <2>2. log' = log /\ LiveIds' = LiveIds
    BY <1>4 DEF SmsCommit, SmsFail, SmsTimeout, LiveIds
  <2> QED
    BY <1>0, <1>a, <1>d, <1>e, <2>1, <2>2
<1>5. ASSUME NEW a \in Actors, Restore(a) PROVE Old
  <2> DEFINE i == act[a].id
  <2>1. act[a].pc = "restore" /\ i \in Ids
    BY <1>5 DEF Restore, IInv, HandsFull
  <2>2. act'[a].pc = "idle" /\ \A b \in Actors \ {a} : act'[b] = act[b]
    BY <1>5 DEF Restore, IInv, TypeOK, Idle
  <2>3. \A j \in LiveIds' : \/ j \in LiveIds /\ log'[j] = log[j]
                            \/ /\ j = i /\ i \in LiveIds
                               /\ log'[i] = [log[i] EXCEPT !.stamp = act[a].row.stamp]
    BY <1>5, <2>1 DEF Restore, IInv, TypeOK, LiveIds, Released
  <2> HIDE DEF i
  <2>4. ASSUME i \in LiveIds, log'[i] = [log[i] EXCEPT !.stamp = act[a].row.stamp], r = log'[i]
        PROVE  Old
    <3>1. log[i] \in Row /\ log[i] \in Papers /\ log[i] # NoRow
      BY <2>4 DEF IInv, TypeOK, LiveIds
    <3>2. Copy(r, log[i])
      BY <2>4, <3>1 DEF Copy, Row
    <3>3. log[i].chg \notin doubt
      BY <1>c, <3>1, <3>2
    <3>4. log[i].chg = act[a].row.chg
      BY <2>1, <3>1, <3>3 DEF IInv, HandsCurrent, i
    <3>5. Copy(log[i], act[a].row) /\ act[a].row \in Pending
      BY <1>d, <2>1, <3>1, <3>4 DEF WellWritten
    <3> QED
      BY <3>2, <3>5 DEF Old, Copy
  <2> QED
    BY <1>0, <1>a, <1>d, <1>e, <2>2, <2>3, <2>4
<1>6. ASSUME DeleteEntry \/ ClearResolved PROVE Old
  <2>1. act' = act /\ \A i \in Ids : log'[i] # NoRow => log'[i] = log[i]
    BY <1>6 DEF DeleteEntry, ClearResolved, Forgotten
  <2> QED
    BY <1>0, <1>a, <1>d, <1>e, <2>1 DEF LiveIds
<1>7. ASSUME Crash \/ OutOfBand PROVE Old
  <2>1. log' = log /\ LiveIds' = LiveIds
    BY <1>7 DEF Crash, OutOfBand, LiveIds
  <2>2. \A b \in Actors : act'[b].pc # "idle" => act'[b] = act[b]
    BY <1>7 DEF Crash, OutOfBand, Idle
  <2> QED
    BY <1>0, <1>a, <1>d, <1>e, <2>1, <2>2
<1> QED
  BY <1>1, <1>2, <1>3, <1>4, <1>5, <1>6, <1>7 DEF Next, Writes, Old

\* A replay turns a rule on that was there before, or takes it away, only for the change that
\* disabled it.
LEMMA ForeignMoved ==
    ASSUME IInv, WellWritten, NEW a \in Actors, Holding(a),
           NEW fresh \in Fresh(OpsOf(act[a].row, act[a].verb)),
           NEW u \in Foreign, u \notin disturbed,
           LET now == Replay(OpsOf(act[a].row, act[a].verb), fresh)[u]
           IN  rule[u] # now /\ now \in {"on", "gone"}
    PROVE  /\ act[a].row.outcome = "disable" /\ u = Mine(act[a].row)
           /\ act[a].row.chg \notin doubt
<1> USE InPapers DEF Busy, Holding
<1> DEFINE ops == OpsOf(act[a].row, act[a].verb)
<1>1. u \in Rules /\ rule[u] # "unused" /\ u \notin fresh
  BY RulesAssumption DEF WellWritten, Fresh
<1>2. \E k \in {"delete", "enable", "restore", "disable"} : u \in Named(ops, k)
  <2> HIDE DEF ops
  <2>1. Replay(ops, fresh)[u] # rule[u]
    BY DEF ops
  <2> QED
    BY <1>1, <2>1 DEF Replay
<1>3. act[a].row \in Papers
  OBVIOUS
<1>4. Adds(act[a].row) => Mine(act[a].row) \notin Foreign
  BY <1>3, MineIsNamed DEF IInv
<1> QED
  BY <1>2, <1>4, OpsReach

\* A committed reenable leaves nothing of its change to replay.
LEMMA CommitRests ==
    ASSUME IInv, IInv', WellWritten, HeldOnce, NEW a \in Actors, SmsCommit(a),
           act[a].row.outcome = "disable", act[a].row.chg \notin doubt,
           NEW r \in Pending', r.chg = act[a].row.chg
    PROVE  FALSE
<1> USE DEF Busy, InHand, Holding
<1>1. act[a].pc = "sms" /\ log' = log /\ LiveIds' = LiveIds
  BY DEF SmsCommit, LiveIds
<1>2. act'[a].pc = "idle" /\ \A b \in Actors \ {a} : act'[b] = act[b]
  BY DEF SmsCommit, IInv, TypeOK, Idle
<1>3. ASSUME NEW b \in Actors, act'[b].pc \in {"record", "sms", "restore"}, r = act'[b].row
      PROVE  FALSE
  <2>1. b # a /\ act'[b] = act[b]
    BY <1>2, <1>3
  <2> QED
    BY <1>1, <1>3, <2>1 DEF HeldOnce, IInv, RecordsFresh
<1>4. ASSUME NEW i \in LiveIds', r = log'[i], ~log'[i].stamp.resolved PROVE FALSE
  <2>1. act[a].id \in Ids /\ log[act[a].id] # NoRow /\ log[act[a].id].chg = act[a].row.chg
    BY <1>1 DEF IInv, HandsFull, HandsCurrent
  <2>2. i = act[a].id
    BY <1>1, <1>4, <2>1 DEF IInv, EntriesDistinct, LiveIds
  <2>3. log[act[a].id].stamp.resolved
    BY <1>1 DEF IInv, HeldIsResolved, ClosesAtOnce
  <2> QED
    BY <1>1, <1>4, <2>2, <2>3
<1> QED
  BY <1>3, <1>4 DEF Pending

LEMMA RestingNext ==
    ASSUME IInv, IInv', Agreed, Agreed', Resting, "nouid" \notin Events, [Next]_vars
    PROVE  Resting'
<1> USE DEF Busy, InHand, Holding, Agreed
<1>1. ASSUME NEW a \in Actors, Writes(a), Next PROVE Resting'
  <2>1. PICK new \in Row : RailWrites(a, new) /\ Shaped(new)'
    BY <1>1, RailsWrite DEF IInv
  <2>2. /\ act[a].pc = "idle" /\ act'[a].pc = "record" /\ act'[a].row = new
        /\ \A b \in Actors \ {a} : act'[b] = act[b]
        /\ log' = log /\ LiveIds' = LiveIds
    BY <2>1, OneMore DEF IInv
  <2>3. \A r \in Pending' : r \in Pending \/ r = new
    BY <2>2 DEF Pending
  <2>4. disturbed \subseteq disturbed'
    BY <1>1, Grows DEF IInv
  <2>5. new.outcome = "disable" => rule[Mine(new)] = "on" /\ rule'[Mine(new)] = "off"
    BY <2>1 DEF RailWrites
  <2>6. ASSUME NEW r \in Pending, Disabled(r)' PROVE rule[Mine(r)] # "on" /\ rule'[Mine(r)] # "on"
    <3>1. Disabled(r)
      BY <2>4, <2>6 DEF Disabled, Mine
    <3>2. Mine(r) \in Foreign /\ Mine(r) \in Rules /\ rule[Mine(r)] # "unused"
      BY <3>1, PendingPapers, DisabledForeign, RulesAssumption DEF WellWritten
    <3>3. rule[Mine(r)] # "on"
      BY <3>1 DEF Resting
    <3>4. rule'[Mine(r)] # rule[Mine(r)] => rule'[Mine(r)] # "on"
      BY <2>1, <3>2 DEF RailWrites
    <3> QED
      BY <3>3, <3>4
  <2>7. ASSUME NEW r \in Pending', Disabled(r)' PROVE rule'[Mine(r)] # "on"
    BY <2>3, <2>5, <2>6, <2>7 DEF Disabled
  <2>8. ASSUME NEW r \in Pending', NEW s \in Pending', Disabled(r)', Disabled(s)', Mine(r) = Mine(s)
        PROVE  r.chg = s.chg
    <3>1. CASE r \in Pending /\ s \in Pending
      <4>1. Disabled(r) /\ Disabled(s)
        BY <2>4, <2>8 DEF Disabled, Mine
      <4> QED
        BY <2>8, <3>1, <4>1 DEF Resting
    <3>2. CASE r = new /\ s = new
      BY <3>2
    <3>3. CASE r = new /\ s \in Pending
      BY <2>5, <2>6, <2>8, <3>3 DEF Disabled
    <3>4. CASE r \in Pending /\ s = new
      BY <2>5, <2>6, <2>8, <3>4 DEF Disabled
    <3> QED
      BY <2>3, <3>1, <3>2, <3>3, <3>4
  <2>9. \A r : Mine(r)' = Mine(r)
    BY DEF Mine
  <2> QED
    BY <2>7, <2>8, <2>9 DEF Resting
<1>2. CASE Next /\ ~\E a \in Actors : Writes(a)
  <2>1. disturbed \subseteq disturbed'
    BY <1>2, Grows DEF IInv
  <2>2. \A r \in Pending' : Disabled(r)' => \E s \in Pending : Copy(r, s) /\ Disabled(s)
    <3> SUFFICES ASSUME NEW r \in Pending', Disabled(r)'
                 PROVE  \E s \in Pending : Copy(r, s) /\ Disabled(s)
      OBVIOUS
    <3>1. r.outcome = "disable" /\ Mine(r) \notin disturbed'
      BY DEF Disabled, Mine
    <3>2. PICK s \in Pending : Copy(r, s)
      BY <1>2, <3>1, PendingKept
    <3>3. Disabled(s)
      BY <2>1, <3>1, <3>2 DEF Disabled, Copy, Mine
    <3> QED
      BY <3>2, <3>3
  <2>3. ASSUME NEW r \in Pending', NEW q \in Pending', Disabled(r)', Disabled(q)', Mine(r) = Mine(q)
        PROVE  r.chg = q.chg
    <3>1. PICK s \in Pending, t \in Pending : /\ Copy(r, s) /\ Disabled(s)
                                              /\ Copy(q, t) /\ Disabled(t)
      BY <2>2, <2>3
    <3> QED
      BY <2>3, <3>1 DEF Resting, Copy, Mine
  <2>4. ASSUME NEW r \in Pending', Disabled(r)' PROVE rule'[Mine(r)] # "on"
    <3>1. PICK s \in Pending : Copy(r, s) /\ Disabled(s)
      BY <2>2, <2>4
    <3> DEFINE u == Mine(r)
    <3>2. Mine(s) = u /\ s.chg = r.chg
      BY <3>1 DEF Copy, Mine
    <3>3. u \in Foreign /\ u \in Rules /\ u \in Uids(s.inv) /\ u \notin disturbed /\ u \notin disturbed'
      BY <2>4, <3>1, <3>2, PendingPapers, DisabledForeign, RulesAssumption DEF Disabled, Mine
    <3>4. rule[u] # "on"
      BY <3>1, <3>2 DEF Resting
    <3> HIDE DEF u
    <3>5. CASE rule' = rule
      BY <3>4, <3>5 DEF u
    <3>6. CASE OutOfBand
      <4>1. rule'[u] = rule[u] \/ rule'[u] = "gone"
        BY <3>3, <3>6 DEF OutOfBand, IInv, TypeOK
      <4> QED
        BY <3>4, <4>1 DEF u
    <3>7. ASSUME NEW a \in Actors, SmsCommit(a) \/ SmsTimeout(a), rule'[u] = "on" PROVE FALSE
      <4>1. act[a].pc = "sms" /\ (SmsTimeout(a) => Uids(act[a].row.inv) \subseteq disturbed')
        BY <3>7 DEF SmsCommit, SmsTimeout
      <4>2. PICK fresh \in Fresh(OpsOf(act[a].row, act[a].verb)) :
               rule' = Replay(OpsOf(act[a].row, act[a].verb), fresh)
        BY <3>7 DEF SmsCommit, SmsTimeout
      <4>3. /\ act[a].row.outcome = "disable" /\ u = Mine(act[a].row)
            /\ act[a].row.chg \notin doubt
        BY <3>3, <3>4, <3>7, <4>1, <4>2, ForeignMoved
      <4>4. act[a].row \in Pending
        BY <4>1 DEF Pending
      <4>5. Disabled(act[a].row)
        BY <3>3, <4>3 DEF Disabled
      <4>6. s.chg = act[a].row.chg
        BY <3>1, <3>2, <4>3, <4>4, <4>5 DEF Resting
      <4>7. CASE SmsCommit(a)
        BY <2>4, <3>2, <4>3, <4>6, <4>7, CommitRests
      <4>8. CASE SmsTimeout(a)
        BY <3>3, <4>1, <4>3, <4>4, <4>5, <4>8, PendingPapers, DisabledForeign
      <4> QED
        BY <3>7, <4>7, <4>8
    <3>8. \/ rule' = rule \/ OutOfBand
          \/ \E a \in Actors : SmsCommit(a) \/ SmsTimeout(a)
      BY <1>2 DEF Next, Writes, Record, Look, Claim, SmsFail, Restore, DeleteEntry,
                  ClearResolved, Forgotten, Crash
    <3> QED
      BY <3>5, <3>6, <3>7, <3>8 DEF u
  <2>5. \A r : Mine(r)' = Mine(r)
    BY DEF Mine
  <2> QED
    BY <2>3, <2>4, <2>5 DEF Resting
<1>3. CASE UNCHANGED vars
  <2>1. Pending' = Pending
    BY <1>3 DEF vars, Pending, LiveIds
  <2> QED
    BY <1>3, <2>1 DEF vars, Resting, Disabled, Mine
<1> QED
  BY <1>1, <1>2, <1>3

LEMMA RestingInit == Init => Resting
<1> SUFFICES ASSUME Init PROVE Resting
  OBVIOUS
<1>1. Pending = {}
  BY DEF Init, Pending, LiveIds, Idle
<1> QED
  BY <1>1 DEF Resting

\* Where the SMS names the rules it adds: no step takes away a rule in force that was there before
\* PolicyPilot, unless an administrator does, or a publish of that rule's disable was given up
\* on, whatever else is applied, recorded, claimed and replayed beside it (delete_rule,
\* revert_execute).
THEOREM ForeignSurvive ==
    ASSUME "nouid" \notin Events
    PROVE  Spec => ForeignRulesSurvive
<1>1. ASSUME IInv, IInv', Agreed, Agreed', Resting, [Next]_vars
      PROVE  [\A u \in Foreign \ disturbed' : rule[u] = "on" => rule'[u] # "gone"]_vars
  <2> SUFFICES ASSUME Next, NEW u \in Foreign \ disturbed', rule[u] = "on", rule'[u] = "gone"
               PROVE  FALSE
    BY <1>1 DEF vars
  <2>1. u \in Rules /\ u \notin disturbed /\ u \notin disturbed'
    BY <1>1, Grows, RulesAssumption DEF IInv
  <2>2. ASSUME NEW a \in Actors, Writes(a) PROVE FALSE
    BY <1>1, <2>1, <2>2 DEF Writes, ApplyCreate, ApplyEdit, RemoveDeny, RemoveDisable,
       CleanupDisable, CleanupDelete, IInv, TypeOK
  <2>3. CASE OutOfBand
    BY <1>1, <2>1, <2>3 DEF OutOfBand, IInv, TypeOK
  <2>4. ASSUME NEW a \in Actors, SmsCommit(a) \/ SmsTimeout(a) PROVE FALSE
    <3>1. act[a].pc = "sms"
      BY <2>4 DEF SmsCommit, SmsTimeout
    <3>2. PICK fresh \in Fresh(OpsOf(act[a].row, act[a].verb)) :
             rule' = Replay(OpsOf(act[a].row, act[a].verb), fresh)
      BY <2>4 DEF SmsCommit, SmsTimeout
    <3>3. act[a].row.outcome = "disable" /\ u = Mine(act[a].row)
      BY <1>1, <2>1, <3>1, <3>2, ForeignMoved DEF Agreed, Holding
    <3>4. act[a].row \in Pending /\ Disabled(act[a].row)
      BY <2>1, <3>1, <3>3 DEF Pending, Disabled
    <3> QED
      BY <1>1, <3>3, <3>4 DEF Resting
  <2>5. \/ rule' = rule \/ OutOfBand \/ \E a \in Actors : Writes(a)
        \/ \E a \in Actors : SmsCommit(a) \/ SmsTimeout(a)
    BY DEF Next, Writes, Record, Look, Claim, SmsFail, Restore, DeleteEntry,
           ClearResolved, Forgotten, Crash
  <2> QED
    BY <2>2, <2>3, <2>4, <2>5
<1>2. IInv /\ IInv' /\ Agreed /\ Agreed' /\ Resting /\ [Next]_vars => Resting'
  BY RestingNext
<1>3. IInv /\ IInv' /\ Agreed /\ Agreed' /\ Resting /\ [Next]_vars
        => [\A u \in Foreign \ disturbed' : rule[u] = "on" => rule'[u] # "gone"]_vars
  BY <1>1
<1> QED
  BY <1>2, <1>3, RestingInit, AlwaysAgreed, Invariant, PTL DEF Spec, ForeignRulesSurvive

-----------------------------------------------------------------------------
(* Objects. *)

(* What a name is taken for. *)

\* What compares as more than near has its score.
Scored(all) == \A o \in all : o.level = "fuzzy" \/ (o.level \in {"exact", "normalized"} /\ o.score \in {97, 100})

\* A set has subsets of every size up to its own.
LEMMA SubsetsOfSize ==
    ASSUME NEW S, IsFiniteSet(S), NEW k \in Nat, k <= Cardinality(S)
    PROVE  kSubset(k, S) # {}
<1> DEFINE n == Cardinality(S)
<1>1. n \in Nat
  BY FS_CardinalityType
<1>2. PICK f : f \in Bijection(1..n, S)
  BY FS_CardinalityType DEF ExistsBijection
<1>3. k <= n
  OBVIOUS
<1> HIDE DEF n
<1> DEFINE g == [i \in 1..k |-> f[i]]
           T == {f[i] : i \in 1..k}
<1>4. T \subseteq S
  BY <1>1, <1>2, <1>3 DEF Bijection, Injection, Surjection
<1>5. g \in Bijection(1..k, T)
  <2>1. g \in [1..k -> T]
    OBVIOUS
  <2>2. \A a, b \in 1..k : g[a] = g[b] => a = b
    BY <1>1, <1>2, <1>3 DEF Bijection, Injection, IsInjective
  <2>3. \A t \in T : \E a \in 1..k : g[a] = t
    OBVIOUS
  <2> QED BY <2>1, <2>2, <2>3 DEF Bijection, Injection, Surjection, IsInjective
<1>6. Cardinality(T) = k
  <2>1. IsFiniteSet(1..k) /\ Cardinality(1..k) = k
    BY FS_Interval
  <2>2. ExistsBijection(1..k, T)
    BY <1>5 DEF ExistsBijection
  <2> HIDE DEF T
  <2> QED BY <2>1, <2>2, FS_Bijection
<1> QED BY <1>4, <1>6 DEF kSubset

\* The only one of a complete answer: nothing else in it is written as alike.
LEMMA OnlyOneIs ==
    ASSUME NEW cs, IsFiniteSet(cs), NEW cut, NEW c \in OnlyOne(cs, cut)
    PROVE  ~cut /\ c.level \in {"exact", "normalized"} /\ At(cs, c.level) = {c}
<1>1. ~cut
  BY DEF OnlyOne
<1>2. \A level : IsFiniteSet(At(cs, level))
  BY FS_Subset DEF At
<1>3. \A level : Cardinality(At(cs, level)) = 1 => \E x : At(cs, level) = {x}
  BY <1>2, FS_Singleton
<1>4. CASE Cardinality(At(cs, "exact")) = 1
  <2>1. PICK x : At(cs, "exact") = {x}
    BY <1>3, <1>4
  <2>2. c = x /\ c.level = "exact"
    BY <1>1, <1>4, <2>1 DEF OnlyOne, At
  <2> QED BY <1>1, <2>1, <2>2
<1>5. CASE Cardinality(At(cs, "exact")) # 1
  <2>1. Cardinality(At(cs, "normalized")) = 1 /\ c \in At(cs, "normalized")
    BY <1>1, <1>5 DEF OnlyOne
  <2>2. PICK x : At(cs, "normalized") = {x}
    BY <1>3, <2>1
  <2>3. c = x /\ c.level = "normalized"
    BY <2>1, <2>2 DEF At
  <2> QED BY <1>1, <2>2, <2>3
<1> QED BY <1>4, <1>5

\* An answer that is not cut is whole, and none is empty unless there is nothing.
LEMMA WholeAnswer ==
    ASSUME NEW all, IsFiniteSet(all), NEW limit \in Nat \ {0}, NEW a \in Answers(all, limit)
    PROVE  /\ a.ok /\ a.objs \subseteq all /\ IsFiniteSet(a.objs)
           /\ ~a.cut => a.objs = all
           /\ a.objs = {} => all = {}
<1> DEFINE pages == IF Cardinality(all) <= limit THEN {all} ELSE kSubset(limit, all)
<1>1. PICK p \in pages : a = [ok |-> TRUE, objs |-> p, cut |-> Cardinality(p) >= limit]
  BY DEF Answers
<1>2. Cardinality(all) \in Nat
  BY FS_CardinalityType
<1>3. p \subseteq all
  BY DEF kSubset
<1>4. IsFiniteSet(p)
  BY <1>3, FS_Subset
<1>5. CASE Cardinality(all) <= limit
  BY <1>1, <1>3, <1>4, <1>5
<1>6. CASE ~(Cardinality(all) <= limit)
  <2>1. Cardinality(p) = limit
    BY <1>6 DEF kSubset
  <2>2. p # {}
    BY <2>1, FS_EmptySet
  <2>3. a.cut
    <3>1. limit >= limit
      OBVIOUS
    <3> QED BY <1>1, <2>1, <3>1
  <2> QED BY <1>1, <1>3, <1>4, <2>2, <2>3
<1> QED BY <1>5, <1>6

\* What an index has of a class, when the page is not cut.
LEMMA WholeOfIndex ==
    ASSUME NEW all, IsFiniteSet(all), NEW kind, NEW a \in IndexAnswers(all, kind, TRUE)
    PROVE  /\ IsFiniteSet(a.objs)
           /\ a.objs \subseteq {x \in all : x.kind \in Types(kind)}
           /\ ~a.cut => a.objs = {x \in all : x.kind \in Indexed \cap Types(kind) /\ x.found}
<1> DEFINE found == {x \in all : x.kind \in Indexed /\ x["found"]}
           kept(s) == {x \in s : x.kind \in Types(kind)}
<1>1. PICK b \in Answers(found, AppLimit) : a = [b EXCEPT !.objs = {x \in @ : x.kind \in Types(kind)}]
  BY DEF IndexAnswers, Asked
<1>2. b = [ok |-> b.ok, objs |-> b.objs, cut |-> b.cut]
  <2>1. PICK p : b = [ok |-> TRUE, objs |-> p, cut |-> Cardinality(p) >= AppLimit]
    BY DEF Answers
  <2> QED BY <2>1
<1>3. a.cut = b.cut /\ a.objs = kept(b.objs)
  BY <1>1, <1>2
<1>4. IsFiniteSet(found)
  BY FS_Subset
<1> HIDE DEF found
<1>5. /\ IsFiniteSet(b.objs) /\ b.objs \subseteq found
      /\ ~b.cut => b.objs = found
  BY <1>4, WholeAnswer, LimitsAssumption
<1>6. IsFiniteSet(a.objs)
  BY <1>3, <1>5, FS_Subset
<1>7. a.objs \subseteq {x \in all : x.kind \in Types(kind)}
  BY <1>3, <1>5 DEF found
<1>8. ~a.cut => a.objs = {x \in all : x.kind \in Indexed \cap Types(kind) /\ x.found}
  BY <1>3, <1>5 DEF found
<1> QED BY <1>6, <1>7, <1>8

\* Of what the server finds of an application or a service, a name is taken for the one that is written as alike.
LEMMA TakenIsOnly ==
    ASSUME NEW all, IsFiniteSet(all), NEW kind,
           NEW m \in TakenFor(all, kind, TRUE), NEW c \in m, c.level # "fuzzy"
    PROVE  At(Findable(all, IF c.kind = "service" THEN {"service"} ELSE {"app", "category"}), c.level) = {c}
<1> DEFINE of(kinds, how) == {x \in all : x.kind \in kinds /\ x[how]}
<1>1. \A kinds, how : IsFiniteSet(of(kinds, how))
  BY FS_Subset
<1>2. CASE kind # "term"
  <2>1. PICK a \in ServiceAnswers(all, TRUE) : m = ResolveService(a)
    BY <1>2 DEF TakenFor
  <2>6. /\ IsFiniteSet(a.objs)
        /\ ~a.cut => a.objs = {x \in all : x.kind \in Indexed \cap Types("service") /\ x.found}
    BY <2>1, WholeOfIndex DEF ServiceAnswers
  <2>7. ~a.cut /\ At(a.objs, c.level) = {c}
    BY <2>1, <2>6, OnlyOneIs DEF ResolveService
  <2>8. a.objs = {x \in all : x.kind \in {"service"} /\ x.found}
    BY <2>6, <2>7 DEF Indexed, Types
  <2>9. c \in a.objs
    BY <2>7 DEF At
  <2>10. Findable(all, {"service"}) = a.objs /\ c.kind = "service"
    BY <2>8, <2>9 DEF Findable
  <2> QED BY <2>7, <2>10
<1>3. CASE kind = "term"
  <2> DEFINE kinds == {"app", "category"}
  <2>1. PICK a \in AppAnswers(all, TRUE) : m = ResolveApp(a[1], a[2])
    BY <1>3 DEF TakenFor
  <2> DEFINE by(how) == Answers(of({"app"}, how), AppLimit) \X Answers(of({"category"}, how), CatLimit)
             nothing(b) == b[1].objs = {} /\ b[2].objs = {}
             cs == a[1].objs \cup a[2].objs
             cut == a[1].cut \/ a[2].cut
  <2>2. \/ a \in by("found") /\ ~nothing(a)
        \/ a \in by("near") /\ \E b \in by("found") : nothing(b)
    BY <2>1 DEF AppAnswers, Asked
  <2>3. ASSUME NEW how \in {"found", "near"}, NEW b \in by(how)
        PROVE  /\ IsFiniteSet(b[1].objs) /\ IsFiniteSet(b[2].objs)
               /\ ~(b[1].cut \/ b[2].cut) => b[1].objs \cup b[2].objs = of(kinds, how)
               /\ nothing(b) => of(kinds, how) = {}
               /\ b[1].objs \cup b[2].objs \subseteq of(kinds, how)
    <3>1. b[1] \in Answers(of({"app"}, how), AppLimit) /\ b[2] \in Answers(of({"category"}, how), CatLimit)
      OBVIOUS
    <3> HIDE DEF of
    <3>2. /\ IsFiniteSet(b[1].objs) /\ b[1].objs \subseteq of({"app"}, how)
          /\ ~b[1].cut => b[1].objs = of({"app"}, how)
          /\ b[1].objs = {} => of({"app"}, how) = {}
      BY <3>1, <1>1, WholeAnswer, LimitsAssumption
    <3>3. /\ IsFiniteSet(b[2].objs) /\ b[2].objs \subseteq of({"category"}, how)
          /\ ~b[2].cut => b[2].objs = of({"category"}, how)
          /\ b[2].objs = {} => of({"category"}, how) = {}
      BY <3>1, <1>1, WholeAnswer, LimitsAssumption
    <3>4. of(kinds, how) = of({"app"}, how) \cup of({"category"}, how)
      BY DEF of
    <3> QED BY <3>2, <3>3, <3>4
  <2>4. IsFiniteSet(cs)
    BY <2>2, <2>3, FS_Union
  <2>5. c \in OnlyOne(cs, cut)
    <3>1. ~Corrected(cs) \/ Best(cs).level = "fuzzy"
      BY DEF Corrected
    <3> QED BY <2>1, <3>1 DEF ResolveApp
  <2>6. ~cut /\ At(cs, c.level) = {c}
    BY <2>4, <2>5, OnlyOneIs
  <2>7. c \in cs
    BY <2>6 DEF At
  <2>8. c.kind \in kinds
    BY <2>2, <2>3, <2>7
  <2>9. Findable(all, kinds) = cs
    <3>1. CASE a \in by("found") /\ ~nothing(a)
      BY <3>1, <2>3, <2>6 DEF Findable
    <3>2. CASE a \in by("near") /\ \E b \in by("found") : nothing(b)
      <4>1. of(kinds, "found") = {}
        BY <3>2, <2>3
      <4>2. cs = of(kinds, "near")
        BY <3>2, <2>3, <2>6
      <4> QED BY <4>1, <4>2 DEF Findable
    <3> QED BY <2>2, <3>1, <3>2
  <2> QED BY <2>6, <2>8, <2>9
<1> QED BY <1>2, <1>3

\* What the commands list of a class, when none fails at once.
LEMMA KnownIsAll ==
    ASSUME NEW all, NEW kind, kind \notin {"time", "data"}, NEW a \in Known(all, kind, TRUE)
    PROVE  \/ a.ok /\ ~a.cut /\ a.objs = {x \in all : x.kind \in IF kind = "gateway" THEN {kind} ELSE Types(kind)}
           \/ ~a.ok /\ a.objs = {}
<1> DEFINE from(i) == {c \in all : \E j \in i..Len(Commands(kind)) : c.kind = Commands(kind)[j]}
<1>1. a = Listed(from(1)) \/ a = Failed
  BY DEF Known
<1>2. CASE a = Failed
  BY <1>2 DEF Failed
<1>3. CASE a = Listed(from(1))
  <2>1. a.ok /\ ~a.cut /\ a.objs = from(1)
    BY <1>3 DEF Listed
  <2>2. CASE kind = "vpn"
    <3>1. Commands(kind) = <<"meshed", "star", "remote">>
      BY <2>2 DEF Commands
    <3>2. from(1) = {c \in all : \E j \in 1..3 : c.kind = <<"meshed", "star", "remote">>[j]}
      BY <3>1
    <3>3. \A c : (\E j \in 1..3 : c.kind = <<"meshed", "star", "remote">>[j]) <=> c.kind \in {"meshed", "star", "remote"}
      <4>1. 1..3 = {1, 2, 3}
        OBVIOUS
      <4> QED BY <4>1
    <3>4. from(1) = {x \in all : x.kind \in {"meshed", "star", "remote"}}
      BY <3>2, <3>3
    <3> QED BY <2>1, <2>2, <3>4 DEF Types
  <2>3. CASE kind # "vpn"
    <3>1. Commands(kind) = <<kind>>
      BY <2>3 DEF Commands
    <3>2. from(1) = {c \in all : c.kind = kind}
      <4>1. 1..1 = {1}
        OBVIOUS
      <4> QED BY <3>1, <4>1
    <3> QED BY <1>3, <2>1, <2>3, <3>2 DEF Types
  <2> QED BY <2>2, <2>3
<1> QED BY <1>1, <1>2, <1>3

\* The same of what the name of a column's object, or of an identity, is taken for.
LEMMA ColumnIsOnly ==
    ASSUME NEW all, IsFiniteSet(all),
           Scored(all),
           NEW kind, NEW m \in ColumnTakenFor(all, kind, TRUE), NEW c \in m, c.level # "fuzzy"
    PROVE  At(Compared(all, kind), c.level) = {c}
<1>1. CASE kind \in {"time", "data"}
  <2>1. PICK a \in IndexAnswers(all, kind, TRUE) : m = OnlyOne(a.objs, a.cut)
    BY <1>1 DEF ColumnTakenFor, ResolveTyped
  <2>2. /\ IsFiniteSet(a.objs)
        /\ ~a.cut => a.objs = {x \in all : x.kind \in Indexed \cap Types(kind) /\ x.found}
    BY WholeOfIndex
  <2>3. ~a.cut /\ At(a.objs, c.level) = {c}
    BY <2>1, <2>2, OnlyOneIs
  <2>4. a.objs = {x \in all : x.kind \in Types(kind) /\ x.found}
    BY <1>1, <2>2, <2>3 DEF Indexed, Types
  <2>5. Compared(all, kind) = a.objs
    BY <1>1, <2>4 DEF Compared
  <2> QED BY <2>3, <2>5
<1>2. CASE kind = "message"
  <2>1. PICK a \in IndexAnswers(all, "message", TRUE) :
          LET near == {x \in a.objs : x.score >= 40}
          IN  m = IF OnlyOne(near, a.cut) = {} /\ ~a.cut /\ Cardinality(near) = 1 THEN near
                  ELSE OnlyOne(near, a.cut)
    BY <1>2 DEF ColumnTakenFor, ResolveMessage
  <2> DEFINE near == {x \in a.objs : x.score >= 40}
  <2>2. /\ IsFiniteSet(a.objs)
        /\ a.objs \subseteq {x \in all : x.kind \in Types("message")}
        /\ ~a.cut => a.objs = {x \in all : x.kind \in Indexed \cap Types("message") /\ x.found}
    BY WholeOfIndex
  <2>3. IsFiniteSet(near)
    BY <2>2, FS_Subset
  <2>4. \A level : level # "fuzzy" => At(near, level) = At(a.objs, level)
    BY <2>2 DEF At, Scored
  <2>5. c \in near
    <3>1. CASE m = near
      BY <3>1
    <3>2. CASE m = OnlyOne(near, a.cut)
      BY <3>2, <2>3, OnlyOneIs DEF At
    <3> QED BY <2>1, <3>1, <3>2
  <2> HIDE DEF near
  <2>6. c \in OnlyOne(near, a.cut)
    <3>1. SUFFICES ASSUME m = near, OnlyOne(near, a.cut) = {}, ~a.cut, Cardinality(near) = 1
                   PROVE  FALSE
      BY <2>1 DEF near
    <3>2. PICK x : near = {x}
      BY <2>3, <3>1, FS_Singleton
    <3>3. near = {c}
      BY <3>1, <3>2
    <3>4. Cardinality(near) = 1
      BY <3>1
    <3>7. c.level \in {"exact", "normalized"}
      BY <2>2, <2>5 DEF near, Scored
    <3>5. CASE c.level = "exact"
      <4>1. At(near, "exact") = near
        BY <3>3, <3>5 DEF At
      <4> QED BY <3>1, <3>3, <4>1 DEF OnlyOne
    <3>6. CASE c.level = "normalized"
      <4>1. At(near, "exact") = {} /\ At(near, "normalized") = near
        BY <3>3, <3>6 DEF At
      <4>2. Cardinality(At(near, "exact")) # 1
        BY <4>1, FS_EmptySet
      <4> QED BY <3>1, <3>3, <4>1, <4>2 DEF OnlyOne
    <3> QED BY <3>5, <3>6, <3>7
  <2>7. ~a.cut /\ At(near, c.level) = {c}
    BY <2>3, <2>6, OnlyOneIs
  <2>8. Compared(all, kind) = a.objs
    BY <1>2, <2>2, <2>7 DEF Compared, Indexed, Types
  <2> QED BY <2>4, <2>7, <2>8
<1>3. CASE kind = "limit"
  <2> DEFINE limits == {x \in all : x.kind = "limit"}
  <2>1. m = OnlyOne(limits, FALSE)
    <3>1. LimitAnswers(limits, TRUE) = {Listed(limits)}
      BY DEF LimitAnswers
    <3>2. ColumnTakenFor(all, "limit", TRUE) = {OnlyOne(a.objs, FALSE) : a \in LimitAnswers(limits, TRUE)}
      BY DEF ColumnTakenFor, ResolveLimit
    <3>3. Listed(limits).objs = limits
      BY DEF Listed
    <3> QED BY <1>3, <3>1, <3>2, <3>3
  <2>2. IsFiniteSet(limits)
    BY FS_Subset
  <2>3. At(limits, c.level) = {c}
    <3> HIDE DEF limits
    <3> QED BY <2>1, <2>2, OnlyOneIs
  <2>4. Compared(all, kind) = limits
    BY <1>3 DEF Compared, Types
  <2> QED BY <2>3, <2>4
<1>4. CASE kind \in {"gateway", "vpn"}
  <2>1. PICK a \in Known(all, kind, TRUE) : m = OnlyOne(a.objs, FALSE)
    BY <1>4 DEF ColumnTakenFor, ResolveEnumerated
  <2>2. \/ a.objs = {x \in all : x.kind \in IF kind = "gateway" THEN {kind} ELSE Types(kind)}
        \/ a.objs = {}
    BY <1>4, <2>1, KnownIsAll
  <2>3. a.objs \subseteq all
    BY <2>2
  <2>4. IsFiniteSet(a.objs)
    BY <2>3, FS_Subset
  <2>5. At(a.objs, c.level) = {c}
    BY <2>1, <2>4, OnlyOneIs
  <2>6. a.objs # {}
    BY <2>5 DEF At
  <2>7. Compared(all, kind) = a.objs
    BY <1>4, <2>2, <2>6 DEF Compared
  <2> QED BY <2>5, <2>7
<1>5. CASE kind \notin {"time", "data", "message", "limit", "gateway", "vpn"}
  <2> DEFINE found == {x \in all : x.kind \in {kind} /\ x["found"]}
  <2>1. PICK a \in Answers(found, AppLimit) : m = OnlyOne(a.objs, a.cut)
    BY <1>5 DEF ColumnTakenFor, ResolveIdentity, Asked
  <2>2. IsFiniteSet(found)
    BY FS_Subset
  <2> HIDE DEF found
  <2>3. IsFiniteSet(a.objs) /\ (~a.cut => a.objs = found)
    BY <2>2, WholeAnswer, LimitsAssumption
  <2>4. ~a.cut /\ At(a.objs, c.level) = {c}
    BY <2>1, <2>3, OnlyOneIs
  <2>5. Compared(all, kind) = found
    BY <1>5 DEF Compared, Types, found
  <2> QED BY <2>3, <2>4, <2>5
<1> QED BY <1>1, <1>2, <1>3, <1>4, <1>5

\* Whether a name may be written is yes or no.
LEMMA MayIsYesOrNo ==
    ASSUME NEW all, NEW kind, NEW name, NEW sure, NEW may \in MayBeWritten(all, kind, name, sure)
    PROVE  may \in BOOLEAN
<1> DEFINE typed(ks) == {a # "no" : a \in TypedLookup(all, name, ks, sure)}
           listed(a) == ~a.ok \/ \E c \in a.objs : c.name = name
<1>1. \A ks : typed(ks) \subseteq BOOLEAN
  OBVIOUS
<1>2. CASE kind = "message"
  BY <1>2 DEF MayBeWritten
<1>3. CASE kind \in {"time", "data"}
  <2>1. may \in typed(LookedUp(kind))
    BY <1>3 DEF MayBeWritten
  <2> QED BY <1>1, <2>1
<1>4. CASE kind = "gateway"
  <2>1. PICK a \in Known(all, kind, sure) : may \in IF listed(a) THEN {TRUE} ELSE typed(LookedUp(kind))
    BY <1>4 DEF MayBeWritten
  <2> QED BY <1>1, <2>1
<1>5. CASE kind \notin {"message", "time", "data", "gateway"}
  <2>1. PICK a \in Known(all, kind, sure) : may = listed(a)
    BY <1>5 DEF MayBeWritten
  <2> QED BY <2>1
<1> QED BY <1>2, <1>3, <1>4, <1>5

\* A lookup that finds nothing when its queries do not fail lost what there is on a page.
LEMMA NotFoundIsCrowded ==
    ASSUME NEW all, NEW name, NEW ks, "no" \in TypedLookup(all, name, ks, TRUE),
           NEW o \in all, o.kind \in ks, o.name = name
    PROVE  Crowded(all, o.kind, name)
<1>1. PICK v \in [ks -> {"yes", "no", "failed"}] :
        /\ \A k \in ks : v[k] \in Verdicts(all, k, name, TRUE)
        /\ "no" = IF \E k \in ks : v[k] = "yes" THEN "yes"
                  ELSE IF \E k \in ks : v[k] = "no" THEN "no" ELSE "unknown"
  BY DEF TypedLookup
<1>2. v[o.kind] # "yes"
  BY <1>1
<1>3. v[o.kind] \in Verdicts(all, o.kind, name, TRUE)
  BY <1>1
<1> QED BY <1>2, <1>3 DEF Verdicts

\* A name that a column is refused is that of no object of its class, or was lost on a page.
LEMMA RefusedHasNone ==
    ASSUME NEW all, NEW kind, NEW name, FALSE \in MayBeWritten(all, kind, name, TRUE)
    PROVE  \A o \in all : o.kind \in Types(kind) /\ o.name = name =>
               o.kind \in LookedUp(kind) /\ Crowded(all, o.kind, name)
<1> SUFFICES ASSUME NEW o \in all, o.kind \in Types(kind), o.name = name
             PROVE  o.kind \in LookedUp(kind) /\ Crowded(all, o.kind, name)
  OBVIOUS
<1> DEFINE typed(ks) == {a # "no" : a \in TypedLookup(all, name, ks, TRUE)}
           listed(a) == ~a.ok \/ \E c \in a.objs : c.name = name
<1>1. \A ks : FALSE \in typed(ks) => "no" \in TypedLookup(all, name, ks, TRUE)
  OBVIOUS
<1>2. kind # "message"
  BY DEF MayBeWritten
<1>3. CASE kind \in {"time", "data"}
  <2>1. FALSE \in typed(LookedUp(kind))
    BY <1>3 DEF MayBeWritten
  <2>2. o.kind \in LookedUp(kind)
    BY <1>3 DEF LookedUp
  <2> QED BY <1>1, <2>1, <2>2, NotFoundIsCrowded
<1>4. CASE kind = "gateway"
  <2>1. PICK a \in Known(all, kind, TRUE) : FALSE \in IF listed(a) THEN {TRUE} ELSE typed(LookedUp(kind))
    BY <1>4 DEF MayBeWritten
  <2>2. ~listed(a) /\ FALSE \in typed(LookedUp(kind))
    BY <2>1
  <2>3. a.objs = {x \in all : x.kind \in {"gateway"}}
    BY <1>4, <2>2, KnownIsAll
  <2>4. o.kind = "group"
    BY <1>4, <2>2, <2>3 DEF Types
  <2>5. o.kind \in LookedUp(kind)
    BY <1>4, <2>4 DEF LookedUp
  <2> QED BY <1>1, <2>2, <2>5, NotFoundIsCrowded
<1>5. CASE kind \notin {"time", "data", "gateway"}
  <2>1. PICK a \in Known(all, kind, TRUE) : ~listed(a)
    BY <1>2, <1>5 DEF MayBeWritten
  <2>2. a.objs = {x \in all : x.kind \in Types(kind)}
    BY <1>5, <2>1, KnownIsAll
  <2> QED BY <2>1, <2>2
<1> QED BY <1>3, <1>4, <1>5

-----------------------------------------------------------------------------
(* What a lookup finds. *)

LEMMA PageWithin ==
    ASSUME NEW found, IsFiniteSet(found)
    PROVE  Page(found) \subseteq found
<1>1. PageSize \in Nat /\ Cardinality(found) \in Nat
  BY ServerAssumption, FS_CardinalityType
<1>2. CASE Cardinality(found) <= PageSize
  BY <1>2 DEF Page
<1>3. CASE ~(Cardinality(found) <= PageSize)
  <2>1. kSubset(PageSize, found) # {}
    BY <1>1, <1>3, SubsetsOfSize
  <2>2. Page(found) \in kSubset(PageSize, found)
    BY <1>3, <2>1 DEF Page
  <2> QED BY <2>2 DEF kSubset
<1> QED BY <1>2, <1>3

LEMMA FirstIsOne ==
    ASSUME NEW found, found # {}
    PROVE  First(found) \in found
<1>1. \A o : Rank(o) \in {0, 1, 2, 9}
  BY DEF Rank
<1>2. \E o \in found : \A p \in found : Rank(o) <= Rank(p)
  <2>1. CASE \E o \in found : Rank(o) = 0
    BY <1>1, <2>1
  <2>2. CASE (\A o \in found : Rank(o) # 0) /\ \E o \in found : Rank(o) = 1
    BY <1>1, <2>2
  <2>3. CASE (\A o \in found : Rank(o) \notin {0, 1}) /\ \E o \in found : Rank(o) = 2
    BY <1>1, <2>3
  <2>4. CASE \A o \in found : Rank(o) \notin {0, 1, 2}
    <3>1. PICK o \in found : TRUE
      OBVIOUS
    <3>2. \A p \in found : Rank(o) <= Rank(p)
      BY <1>1, <2>4
    <3> QED BY <3>2
  <2> QED BY <2>1, <2>2, <2>3, <2>4
<1> QED BY <1>2 DEF First

\* An object of the server as ServerAssumption has it, for the part of a request.
Proper(o, q) ==
    /\ o.is \in {"address", "infra"} => o.iv \subseteq Int \X Int
    /\ o.is = "typed" /\ o.typed.kind = "domain" /\ q.kind = "domain" /\ o.name = q.new => o.typed.base = q.base

\* The kinds of services and applications are not those of endpoints.
Endpoint(q) ==
    /\ q.kind \notin {"port", "named", "term", "service"}
    /\ q.kind = "ip" => q.scope \in Int \X Int

\* What an endpoint is looked up as stands for what was asked, unless it has a second scope.
LEMMA FoundMeans ==
    ASSUME NEW all, IsFiniteSet(all), NEW q, Endpoint(q), \A o \in all : Proper(o, q),
           NEW o, o = Lookup(all, q), o # None
    PROVE  o.is # "port" /\ (OneScope(o) => MeaningOf(o) = Meaning(q))
<1>1. CASE q.kind = "any"
  <2>1. o = [name |-> "Any", is |-> "any"]
    BY <1>1 DEF Lookup, AnyObject
  <2> QED BY <1>1, <2>1 DEF MeaningOf, Meaning, Reach
<1>2. CASE q.kind = "internet"
  <2>1. o = [name |-> "Internet", is |-> "typed", typed |-> [kind |-> "internet"]]
    BY <1>2 DEF Lookup, Internet
  <2> QED BY <1>2, <2>1 DEF MeaningOf, Meaning
<1>3. CASE q.kind = "ip"
  <2> DEFINE holding == {x \in all : x.is \in {"address", "infra", "wildcard"} /\ q.scope[1] \in Reach(x)}
             exact == {x \in Containing(all, q.scope[1]) : Span(x) = q.scope}
  <2>1. Containing(all, q.scope[1]) \subseteq holding
    <3>1. IsFiniteSet(holding)
      BY FS_Subset
    <3> HIDE DEF holding
    <3>2. Containing(all, q.scope[1]) = Page(holding)
      BY DEF Containing, holding
    <3> QED BY <3>1, <3>2, PageWithin
  <2>2. o = IF exact = {} THEN None ELSE First(exact)
    BY <1>3 DEF Lookup, LookupAddress
  <2>3. o \in exact
    BY <2>2, FirstIsOne
  <2>4. o \in all /\ o.is \in {"address", "infra", "wildcard"} /\ Span(o) = q.scope
    BY <2>1, <2>3
  <2>5. ASSUME OneScope(o) PROVE MeaningOf(o) = Meaning(q)
    <3>1. o.is \in {"address", "infra"}
      BY <2>4, <2>5 DEF OneScope
    <3>2. PICK i \in o.iv : o.iv = {i}
      BY <2>5, <3>1 DEF OneScope
    <3>3. i \in Int \X Int
      BY <2>4, <3>1, <3>2 DEF Proper
    <3>4. Span(o) = i
      BY <3>1, <3>2, <3>3 DEF Span
    <3>5. o.iv = {q.scope}
      BY <2>4, <3>2, <3>4
    <3> QED BY <1>3, <3>1, <3>5 DEF MeaningOf, Meaning, Reach
  <2> QED BY <2>4, <2>5
<1>4. CASE q.kind \notin {"any", "internet", "ip"}
  <2>1. o = LookupTyped(all, q)
    BY <1>4 DEF Lookup, Endpoint
  <2>2. /\ o \in all /\ o.is = "typed" /\ o.typed.kind = q.kind /\ o.name = q.new
        /\ q.kind = "domain" => o.typed.sub = q.sub
    BY <2>1 DEF LookupTyped, SameName
  <2>3. CASE q.kind = "domain"
    <3>1. o.typed.base = q.base /\ o.typed.sub = q.sub
      BY <2>2, <2>3 DEF Proper
    <3> QED BY <2>2, <2>3, <3>1 DEF MeaningOf, Meaning, Covering
  <2>4. CASE q.kind # "domain"
    BY <1>4, <2>2, <2>4 DEF MeaningOf, Meaning
  <2> QED BY <2>2, <2>3, <2>4
<1> QED BY <1>1, <1>2, <1>3, <1>4

\* A host that has the address, and no second one.
LEMMA HostMeans ==
    ASSUME NEW all, NEW q, q.kind = "ip", NEW o, o = LookupHost(all, q.scope), o # None
    PROVE  o.is # "port" /\ (OneScope(o) => MeaningOf(o) = Meaning(q))
<1>1. o.is = "address" /\ q.scope \in o.iv
  BY DEF LookupHost
<1>2. OneScope(o) => o.iv = {q.scope}
  BY <1>1 DEF OneScope
<1> QED BY <1>1, <1>2 DEF MeaningOf, Meaning, Reach

\* What is created for an endpoint.
LEMMA NewMeans ==
    ASSUME NEW q, Endpoint(q), q.kind \in Creatable
    PROVE  NewObject(q).is # "port" /\ NewObject(q).name = q.new /\ MeaningOf(NewObject(q)) = Meaning(q)
<1>1. CASE q.kind = "ip"
  <2>1. NewObject(q) = [name |-> q.new, is |-> "address", iv |-> {q.scope}, type |-> IF Single(q.scope) THEN "host" ELSE "network"]
    BY <1>1 DEF NewObject
  <2> QED BY <1>1, <2>1 DEF MeaningOf, Meaning, Reach
<1>2. CASE q.kind = "domain"
  <2>1. NewObject(q) = [name |-> q.new, is |-> "typed", typed |-> [kind |-> "domain", base |-> q.base, sub |-> q.sub]]
    BY <1>2 DEF NewObject
  <2> QED BY <1>2, <2>1 DEF MeaningOf, Meaning, Covering
<1>3. CASE q.kind = "dynamic"
  <2>1. NewObject(q) = [name |-> q.new, is |-> "typed", typed |-> [kind |-> q.kind]]
    BY <1>3 DEF NewObject
  <2> QED BY <1>3, <2>1 DEF MeaningOf, Meaning
<1> QED BY <1>1, <1>2, <1>3 DEF Creatable, Endpoint

\* The endpoint's new object is no service.
LEMMA NewIsNoPort ==
    ASSUME NEW q, Endpoint(q)
    PROVE  NewObject(q).is \notin {"port", "named"}
<1>1. CASE q.kind = "ip"
  BY <1>1 DEF NewObject
<1>2. CASE q.kind = "domain"
  BY <1>2 DEF NewObject
<1>3. CASE q.kind \notin {"ip", "domain"}
  BY <1>3 DEF NewObject, Endpoint
<1> QED BY <1>1, <1>2, <1>3

\* A service is looked up as a service, and what was made for the endpoint makes no difference.
LEMMA ServiceFound ==
    ASSUME NEW all, IsFiniteSet(all), NEW made, NEW q, NEW p, Endpoint(p), made \subseteq {NewObject(p)},
           q.kind \in {"port", "named"}
    PROVE  /\ Lookup(all \cup made, q) = Lookup(all, q)
           /\ Lookup(all, q) # None => Lookup(all, q) \notin made
<1>1. \A o \in made : o.is \notin {"port", "named"}
  BY NewIsNoPort
<1>2. CASE q.kind = "port"
  <2> DEFINE same(s) == {o \in s : o.is = "port" /\ o.port = q.port}
  <2>1. same(all \cup made) = same(all)
    BY <1>1
  <2>2. \A s : Lookup(s, q) = IF Page(same(s)) = {} THEN None ELSE CHOOSE o \in Page(same(s)) : TRUE
    BY <1>2 DEF Lookup, LookupService
  <2>3. IsFiniteSet(same(all))
    BY FS_Subset
  <2>4. Page(same(all)) \subseteq same(all)
    <3> HIDE DEF same
    <3> QED BY <2>3, PageWithin
  <2>5. Lookup(all, q) # None => Lookup(all, q).is = "port"
    <3>1. Lookup(all, q) # None => Lookup(all, q) \in Page(same(all))
      BY <2>2
    <3> QED BY <2>4, <3>1
  <2> QED BY <1>1, <2>1, <2>2, <2>5
<1>3. CASE q.kind = "named"
  <2>1. \A s : Lookup(s, q) = [name |-> q.new, is |-> "named"]
    BY <1>3 DEF Lookup
  <2> QED BY <1>1, <2>1
<1> QED BY <1>2, <1>3

-----------------------------------------------------------------------------
(* The invariant. *)

Early == {"asking", "layer", "names", "review", "decided"}

Stages == Early \cup {"source", "service", "column", "write", "done", "failed", "refused"}

JobShaped ==
    /\ job = [at |-> job.at, asks |-> job.asks, src |-> job.src, svc |-> job.svc, column |-> job.column,
              mode |-> job.mode, made |-> job.made, layer |-> job.layer, layers |-> job.layers,
              sure |-> job.sure, taken |-> job.taken, use |-> job.use]
    /\ job.use = [c \in {"src", "svc"} |-> job.use[c]]
    /\ job.at \in Stages /\ job.sure \in BOOLEAN

\* The parts of the request, and the objects that are there for them.
PartsKnown ==
    /\ Endpoint(job.src)
    /\ job.svc.kind \in {"port", "named", "term", "service"}
    /\ job.at \in {"decided", "source", "service"} => job.svc.kind \in {"port", "named"}
    /\ \E start \in Starts : job.src = start.request.src \/ job.src.kind = "access-role"

ServerKnown ==
    /\ edits \in 0..MaxEdits
    /\ job.at # "done" => IsFiniteSet(objs)
    /\ job.at \in Early \cup {"source"} => \A o \in objs : Proper(o, job.src)
    /\ job.at = "asking" => Scored(Comparable)

\* How far the request is tells what it has found and made.
Placed ==
    /\ job.at \in Early \cup {"source"} => job.use["src"] = None /\ job.use["svc"] = None /\ job.made = {}
    /\ job.at = "service" => job.use["svc"] = None /\ job.made \subseteq {NewObject(job.src)}
    /\ job.taken # None => job.at \in {"layer", "failed"}
    /\ job.at \in Early \ {"decided"} => shown = None

UseMeans ==
    job.use["src"] # None =>
        /\ job.use["src"].is # "port"
        /\ OneScope(job.use["src"]) => MeaningOf(job.use["src"]) = Meaning(job.src)

\* With nobody in between, the preview is what a lookup still finds, and what was used agrees with it.
ShownStands ==
    edits = MaxEdits /\ shown # None =>
        /\ job.at \in Early \cup {"source", "service"} =>
               shown["src"] = Told(objs, job.src) /\ shown["svc"] = Told(objs, job.svc)
        /\ \A c \in {"src", "svc"} : job.use[c] # None =>
               /\ shown[c].exists => job.use[c].name = shown[c].name
               /\ job.use[c] \in job.made => ~shown[c].exists /\ job.use[c].name = shown[c].name

ObjectsInv ==
    JobShaped /\ PartsKnown /\ ServerKnown /\ Placed /\ UseMeans /\ ShownStands /\ NeverAGuess /\ RefusedIsMissing

LEMMA ObjectsBegins == ObjectsInit => ObjectsInv
<1> SUFFICES ASSUME ObjectsInit PROVE ObjectsInv
  OBVIOUS
<1>1. PICK start \in Starts :
        /\ objs = start.objs
        /\ job = [at |-> IF start.request.asks = None THEN "layer" ELSE "asking", asks |-> start.request.asks,
                  src |-> start.request.src, svc |-> start.request.svc,
                  column |-> start.request.column, mode |-> None, made |-> {}, layer |-> None, layers |-> {},
                  sure |-> FALSE, taken |-> None, use |-> [src |-> None, svc |-> None]]
  BY DEF ObjectsInit
<1>2. shown = None /\ edits = MaxEdits
  BY DEF ObjectsInit
<1>3. JobShaped
  BY <1>1 DEF JobShaped, Stages, Early
<1>4. PartsKnown
  BY <1>1, RequestsAssumption DEF PartsKnown, Endpoint
<1>5. ServerKnown
  <2>1. IsFiniteSet(objs) /\ edits \in 0..MaxEdits
    BY <1>1, <1>2, ServerAssumption
  <2>2. \A o \in objs : Proper(o, job.src)
    BY <1>1, ServerAssumption DEF Proper
  <2>3. Scored(Comparable)
    BY <1>1, ServerAssumption DEF Scored, Comparable
  <2> QED BY <2>1, <2>2, <2>3 DEF ServerKnown
<1>6. Placed /\ UseMeans
  BY <1>1, <1>2 DEF Placed, UseMeans
<1>7. ShownStands
  BY <1>2 DEF ShownStands
<1>8. NeverAGuess /\ RefusedIsMissing
  BY <1>1 DEF NeverAGuess, RefusedIsMissing
<1> QED BY <1>3, <1>4, <1>5, <1>6, <1>7, <1>8 DEF ObjectsInv

-----------------------------------------------------------------------------
(* The names. *)

LEMMA KeptByCorrelateName == ObjectsInv /\ CorrelateName => ObjectsInv'
<1> SUFFICES ASSUME ObjectsInv, CorrelateName PROVE ObjectsInv'
  OBVIOUS
<1>0. JobShaped /\ PartsKnown /\ ServerKnown /\ Placed /\ UseMeans /\ ShownStands /\ NeverAGuess /\ RefusedIsMissing
  BY DEF ObjectsInv
<1>1. job.at = "asking" /\ UNCHANGED <<objs, cell, catalogue, shown, written, edits>>
  BY DEF CorrelateName
<1>2. PICK sure \in BOOLEAN :
        \E m \in ColumnTakenFor(Comparable, job.asks, sure) :
          \/ job' = [job EXCEPT !.at = "review"]
          \/ \E c \in m :
               job' = IF job.asks = "access-role"
                      THEN [job EXCEPT !.at = "layer", !.sure = sure, !.taken = c, !.src = [kind |-> job.asks, new |-> c.name]]
                      ELSE [job EXCEPT !.at = "layer", !.sure = sure, !.taken = c, !.column = [kind |-> job.asks, name |-> c.name]]
  BY <1>0 DEF CorrelateName, JobShaped
<1>3. job.use["src"] = None /\ job.use["svc"] = None /\ job.made = {} /\ job.taken = None
  BY <1>0, <1>1 DEF Placed, Early
<1>4. CASE job' = [job EXCEPT !.at = "review"]
  <2>1. /\ job'.at = "review" /\ job'.use = job.use /\ job'.made = job.made /\ job'.src = job.src
        /\ job'.svc = job.svc /\ job'.layer = job.layer /\ job'.layers = job.layers /\ job'.taken = job.taken
    BY <1>0, <1>4 DEF JobShaped
  <2>2. JobShaped'
    BY <1>0, <1>4 DEF JobShaped, Stages, Early
  <2>3. PartsKnown' /\ ServerKnown' /\ Placed' /\ UseMeans' /\ ShownStands'
    BY <1>0, <1>1, <1>3, <2>1 DEF PartsKnown, ServerKnown, Placed, UseMeans, ShownStands, Early
  <2>4. NeverAGuess' /\ RefusedIsMissing'
    BY <1>0, <1>1, <1>3, <2>1 DEF NeverAGuess, RefusedIsMissing
  <2> QED BY <2>2, <2>3, <2>4 DEF ObjectsInv
<1>5. ASSUME NEW m \in ColumnTakenFor(Comparable, job.asks, sure), NEW c \in m,
             job' = IF job.asks = "access-role"
                    THEN [job EXCEPT !.at = "layer", !.sure = sure, !.taken = c, !.src = [kind |-> job.asks, new |-> c.name]]
                    ELSE [job EXCEPT !.at = "layer", !.sure = sure, !.taken = c, !.column = [kind |-> job.asks, name |-> c.name]]
      PROVE  ObjectsInv'
  <2>1. /\ job'.at = "layer" /\ job'.use = job.use /\ job'.made = job.made /\ job'.taken = c /\ job'.sure = sure
        /\ job'.asks = job.asks /\ job'.svc = job.svc /\ job'.layer = job.layer /\ job'.layers = job.layers
        /\ job'.src = job.src \/ job'.src = [kind |-> "access-role", new |-> c.name]
    BY <1>0, <1>5 DEF JobShaped
  <2>2. JobShaped'
    BY <1>0, <1>5 DEF JobShaped, Stages, Early
  <2>3. Endpoint(job.src)'
    BY <1>0, <2>1 DEF PartsKnown, Endpoint
  <2>4. PartsKnown'
    BY <1>0, <2>1, <2>3 DEF PartsKnown
  <2>5. \A o \in objs' : Proper(o, job'.src)
    BY <1>0, <1>1, <2>1 DEF ServerKnown, Proper, Early
  <2>6. ServerKnown'
    BY <1>0, <1>1, <2>1, <2>5 DEF ServerKnown
  <2>7. Placed' /\ UseMeans'
    BY <1>0, <1>1, <1>3, <2>1 DEF Placed, UseMeans, Early
  <2>8. ShownStands'
    BY <1>0, <1>1, <2>1 DEF ShownStands, Placed, Early
  <2>9. sure /\ c.level # "fuzzy" => At(Compared(Comparable, job.asks), c.level) = {c}
    <3>1. PICK all : all = Comparable
      OBVIOUS
    <3>2. IsFiniteSet(all) /\ Scored(all)
      <4>1. IsFiniteSet(Comparable)
        BY <1>0, <1>1, FS_Subset DEF ServerKnown, Comparable
      <4> QED BY <1>0, <1>1, <3>1, <4>1 DEF ServerKnown
    <3>3. PICK kind : kind = job.asks
      OBVIOUS
    <3>4. SUFFICES ASSUME sure = TRUE, c.level # "fuzzy" PROVE At(Compared(all, kind), c.level) = {c}
      BY <3>1, <3>3
    <3>5. m \in ColumnTakenFor(all, kind, TRUE)
      BY <3>1, <3>3, <3>4
    <3>6. \A n \in ColumnTakenFor(all, kind, TRUE) : \A d \in n : d.level # "fuzzy" => At(Compared(all, kind), d.level) = {d}
      BY <3>2, ColumnIsOnly
    <3> QED BY <3>4, <3>5, <3>6
  <2>10. Comparable' = Comparable
    BY <1>1 DEF Comparable
  <2>11. NeverAGuess'
    BY <1>0, <2>1, <2>9, <2>10 DEF NeverAGuess
  <2>12. RefusedIsMissing'
    BY <2>1 DEF RefusedIsMissing
  <2> QED BY <2>2, <2>4, <2>6, <2>7, <2>8, <2>11, <2>12 DEF ObjectsInv
<1> QED BY <1>2, <1>4, <1>5

\* A request that fails keeps what it found, and forgets what it made.
LEMMA KeptByFail ==
    ASSUME ObjectsInv, job.at # "done", Fail, UNCHANGED <<objs, catalogue, shown, edits>>
    PROVE  ObjectsInv'
<1>0. JobShaped /\ PartsKnown /\ ServerKnown /\ Placed /\ UseMeans /\ ShownStands /\ NeverAGuess /\ RefusedIsMissing
  BY DEF ObjectsInv
<1>1. job' = [job EXCEPT !.at = "failed", !.made = {}]
  BY DEF Fail
<1>2. /\ job'.at = "failed" /\ job'.made = {} /\ job'.use = job.use /\ job'.taken = job.taken /\ job'.sure = job.sure
      /\ job'.asks = job.asks /\ job'.src = job.src /\ job'.svc = job.svc
      /\ job'.layer = job.layer /\ job'.layers = job.layers
  BY <1>0, <1>1 DEF JobShaped
<1>3. JobShaped'
  BY <1>0, <1>1 DEF JobShaped, Stages
<1>4. PartsKnown' /\ Placed' /\ UseMeans'
  BY <1>0, <1>2 DEF PartsKnown, Placed, UseMeans, Endpoint, Early
<1>5. ServerKnown'
  BY <1>0, <1>2 DEF ServerKnown, Early
<1>6. ShownStands'
  BY <1>0, <1>2 DEF ShownStands, Early
<1>7. Comparable' = Comparable
  BY DEF Comparable
<1>8. NeverAGuess' /\ RefusedIsMissing'
  BY <1>0, <1>2, <1>7 DEF NeverAGuess, RefusedIsMissing
<1> QED BY <1>3, <1>4, <1>5, <1>6, <1>8 DEF ObjectsInv

LEMMA KeptByFindLayer == ObjectsInv /\ FindLayer => ObjectsInv'
<1> SUFFICES ASSUME ObjectsInv, FindLayer PROVE ObjectsInv'
  OBVIOUS
<1>0. JobShaped /\ PartsKnown /\ ServerKnown /\ Placed /\ UseMeans /\ ShownStands /\ NeverAGuess /\ RefusedIsMissing
  BY DEF ObjectsInv
<1>1. job.at = "layer" /\ UNCHANGED <<objs, cell, catalogue, shown, written, edits>>
  BY DEF FindLayer
<1>2. \/ Fail
      \/ \E ls \in Layers : \E l \in LayersNamed(ls) :
           job' = [job EXCEPT !.at = "names", !.layer = l, !.layers = ls, !.taken = None, !.sure = FALSE]
  BY DEF FindLayer
<1>3. CASE Fail
  BY <1>1, <1>3, KeptByFail
<1>4. ASSUME NEW ls \in Layers, NEW l \in LayersNamed(ls),
             job' = [job EXCEPT !.at = "names", !.layer = l, !.layers = ls, !.taken = None, !.sure = FALSE]
      PROVE  ObjectsInv'
  <2>1. /\ job'.at = "names" /\ job'.made = job.made /\ job'.use = job.use /\ job'.taken = None /\ job'.sure = FALSE
        /\ job'.src = job.src /\ job'.svc = job.svc /\ job'.layer = l /\ job'.layers = ls
    BY <1>0, <1>4 DEF JobShaped
  <2>2. JobShaped'
    BY <1>0, <1>4 DEF JobShaped, Stages, Early
  <2>3. PartsKnown' /\ ServerKnown' /\ Placed' /\ UseMeans'
    BY <1>0, <1>1, <2>1 DEF PartsKnown, ServerKnown, Placed, UseMeans, Endpoint, Early
  <2>4. ShownStands'
    BY <1>0, <1>1, <2>1 DEF ShownStands, Placed, Early
  <2>5. l.level = "normalized" => Cardinality(At(ls, "normalized")) = 1
    BY DEF LayersNamed, At
  <2>6. NeverAGuess' /\ RefusedIsMissing'
    BY <2>1, <2>5 DEF NeverAGuess, RefusedIsMissing
  <2> QED BY <2>2, <2>3, <2>4, <2>6 DEF ObjectsInv
<1> QED BY <1>2, <1>3, <1>4

\* An object is expanded or not.
LEMMA ExpandedOrNot == ASSUME NEW service PROVE Expansions(service) \subseteq BOOLEAN
BY DEF Expansions

LEMMA KeptByCorrelated == ObjectsInv /\ Correlated => ObjectsInv'
<1> SUFFICES ASSUME ObjectsInv, Correlated PROVE ObjectsInv'
  OBVIOUS
<1>0. JobShaped /\ PartsKnown /\ ServerKnown /\ Placed /\ UseMeans /\ ShownStands /\ NeverAGuess /\ RefusedIsMissing
  BY DEF ObjectsInv
<1>1. job.at = "names" /\ UNCHANGED <<objs, cell, shown, written, edits>>
  BY DEF Correlated
<1> DEFINE decided == [job EXCEPT !.at = "decided", !.layer = None, !.layers = {}]
<1>2. \/ job.svc.kind = "port" /\ job' = decided
      \/ \E all \in Catalogues, sure \in BOOLEAN : \E m \in TakenFor(all, job.svc.kind, sure) :
           \/ job' = [decided EXCEPT !.at = "review"]
           \/ \E c \in m, expanded \in BOOLEAN :
                /\ catalogue' = all
                /\ job' = [decided EXCEPT !.sure = sure,
                                          !.svc = [kind |-> "named", new |-> c.name, is |-> c, expanded |-> expanded]]
  <2> DEFINE named(c, expanded) == [kind |-> "named", new |-> c.name, is |-> c, expanded |-> expanded]
  <2>1. \/ job.svc.kind = "port" /\ job' = decided
        \/ \E all \in Catalogues, sure \in BOOLEAN : \E m \in TakenFor(all, job.svc.kind, sure) :
             \/ job' = [decided EXCEPT !.at = "review"]
             \/ \E c \in m : \E expanded \in Expansions(c.obj) :
                  /\ catalogue' = all
                  /\ job' = IF Concrete(named(c, expanded)) THEN [decided EXCEPT !.sure = sure, !.svc = named(c, expanded)]
                            ELSE [decided EXCEPT !.at = "review"]
    BY Zenon DEF Correlated
  <2>3. CASE job.svc.kind = "port" /\ job' = decided
    BY <2>3
  <2>4. CASE ~(job.svc.kind = "port" /\ job' = decided)
    <3>1. PICK all \in Catalogues, sure \in BOOLEAN : \E m \in TakenFor(all, job.svc.kind, sure) :
             \/ job' = [decided EXCEPT !.at = "review"]
             \/ \E c \in m : \E expanded \in Expansions(c.obj) :
                  /\ catalogue' = all
                  /\ job' = IF Concrete(named(c, expanded)) THEN [decided EXCEPT !.sure = sure, !.svc = named(c, expanded)]
                            ELSE [decided EXCEPT !.at = "review"]
      BY <2>1, <2>4
    <3>2. PICK m \in TakenFor(all, job.svc.kind, sure) :
             \/ job' = [decided EXCEPT !.at = "review"]
             \/ \E c \in m : \E expanded \in Expansions(c.obj) :
                  /\ catalogue' = all
                  /\ job' = IF Concrete(named(c, expanded)) THEN [decided EXCEPT !.sure = sure, !.svc = named(c, expanded)]
                            ELSE [decided EXCEPT !.at = "review"]
      BY <3>1
    <3>3. \/ job' = [decided EXCEPT !.at = "review"]
          \/ \E c \in m, expanded \in BOOLEAN :
               catalogue' = all /\ job' = [decided EXCEPT !.sure = sure, !.svc = named(c, expanded)]
      <4>1. CASE job' = [decided EXCEPT !.at = "review"]
        BY <4>1
      <4>2. CASE job' # [decided EXCEPT !.at = "review"]
        <5>1. PICK c \in m : \E expanded \in Expansions(c.obj) :
                /\ catalogue' = all
                /\ job' = IF Concrete(named(c, expanded)) THEN [decided EXCEPT !.sure = sure, !.svc = named(c, expanded)]
                          ELSE [decided EXCEPT !.at = "review"]
          BY <3>2, <4>2
        <5>2. PICK expanded \in Expansions(c.obj) :
                /\ catalogue' = all
                /\ job' = IF Concrete(named(c, expanded)) THEN [decided EXCEPT !.sure = sure, !.svc = named(c, expanded)]
                          ELSE [decided EXCEPT !.at = "review"]
          BY <5>1
        <5>3. expanded \in BOOLEAN /\ catalogue' = all
          BY <5>2, ExpandedOrNot
        <5>4. job' = [decided EXCEPT !.sure = sure, !.svc = named(c, expanded)]
          <6> HIDE DEF named, decided
          <6> QED BY <4>2, <5>2
        <5> HIDE DEF named, decided
        <5> QED BY <5>3, <5>4
      <4> QED BY <4>1, <4>2
    <3> QED BY <3>3
  <2> QED BY <2>3, <2>4
<1>3. job.taken = None /\ shown = None
  BY <1>0, <1>1 DEF Placed, Early
\* What follows when the layer is found and nothing was told before.
<1>4. ASSUME job'.at \in {"decided", "review"}, JobShaped', job'.layer = None, job'.taken = None, job'.made = job.made,
             job'.use = job.use, job'.src = job.src, job'.svc.kind \in {"port", "named", "term", "service"},
             job'.at = "decided" => job'.svc.kind \in {"port", "named"},
             job'.at = "decided" /\ job'.svc.kind = "named" /\ job'.sure /\ job'.svc.is.level # "fuzzy" => Unique(job.svc.is)'
      PROVE  ObjectsInv'
  <2>1. PartsKnown' /\ ServerKnown' /\ Placed' /\ UseMeans'
    BY <1>0, <1>1, <1>3, <1>4 DEF PartsKnown, ServerKnown, Placed, UseMeans, Endpoint, Early
  <2>2. ShownStands'
    BY <1>1, <1>3 DEF ShownStands
  <2>3. NeverAGuess' /\ RefusedIsMissing'
    BY <1>4 DEF NeverAGuess, RefusedIsMissing
  <2> QED BY <1>4, <2>1, <2>2, <2>3 DEF ObjectsInv
<1>5. CASE job.svc.kind = "port" /\ job' = decided
  <2>1. /\ job'.at = "decided" /\ job'.layer = None /\ job'.taken = None /\ job'.made = job.made
        /\ job'.use = job.use /\ job'.src = job.src /\ job'.svc = job.svc
    BY <1>0, <1>3, <1>5 DEF JobShaped
  <2>2. JobShaped'
    BY <1>0, <1>5 DEF JobShaped, Stages, Early
  <2> QED BY <1>4, <1>5, <2>1, <2>2
<1>6. CASE job' = [decided EXCEPT !.at = "review"]
  <2>1. /\ job'.at = "review" /\ job'.layer = None /\ job'.taken = None /\ job'.made = job.made
        /\ job'.use = job.use /\ job'.src = job.src /\ job'.svc = job.svc
    BY <1>0, <1>3, <1>6 DEF JobShaped
  <2>2. JobShaped'
    BY <1>0, <1>6 DEF JobShaped, Stages, Early
  <2> QED BY <1>0, <1>4, <2>1, <2>2 DEF PartsKnown
<1>7. ASSUME NEW all \in Catalogues, NEW sure \in BOOLEAN, NEW m \in TakenFor(all, job.svc.kind, sure), NEW c \in m,
             NEW expanded \in BOOLEAN, catalogue' = all,
             job' = [decided EXCEPT !.sure = sure,
                                    !.svc = [kind |-> "named", new |-> c.name, is |-> c, expanded |-> expanded]]
      PROVE  ObjectsInv'
  <2>1. /\ job'.at = "decided" /\ job'.layer = None /\ job'.taken = None /\ job'.made = job.made /\ job'.sure = sure
        /\ job'.use = job.use /\ job'.src = job.src
        /\ job'.svc = [kind |-> "named", new |-> c.name, is |-> c, expanded |-> expanded]
    BY <1>0, <1>3, <1>7 DEF JobShaped
  <2>2. JobShaped'
    BY <1>0, <1>7 DEF JobShaped, Stages, Early
  <2>3. ASSUME sure, c.level # "fuzzy" PROVE Unique(job.svc.is)'
    <3>1. IsFiniteSet(all)
      BY ServerAssumption
    <3>2. PICK kind : kind = job.svc.kind
      OBVIOUS
    <3>3. sure = TRUE
      BY <2>3
    <3>4. m \in TakenFor(all, kind, TRUE)
      BY <3>2, <3>3
    <3>5. \A n \in TakenFor(all, kind, TRUE) : \A d \in n : d.level # "fuzzy" =>
            At(Findable(all, IF d.kind = "service" THEN {"service"} ELSE {"app", "category"}), d.level) = {d}
      BY <3>1, TakenIsOnly
    <3>6. At(Findable(all, IF c.kind = "service" THEN {"service"} ELSE {"app", "category"}), c.level) = {c}
      BY <2>3, <3>4, <3>5
    <3>7. job'.svc.is = c
      BY <2>1
    <3> QED BY <1>7, <3>6, <3>7 DEF Unique
  <2> QED BY <1>4, <2>1, <2>2, <2>3
<1> QED BY <1>2, <1>5, <1>6, <1>7

-----------------------------------------------------------------------------
(* The preview and the apply. *)

LEMMA KeptByPreview == ObjectsInv /\ Preview => ObjectsInv'
<1> SUFFICES ASSUME ObjectsInv, Preview PROVE ObjectsInv'
  OBVIOUS
<1>0. JobShaped /\ PartsKnown /\ ServerKnown /\ Placed /\ UseMeans /\ ShownStands /\ NeverAGuess /\ RefusedIsMissing
  BY DEF ObjectsInv
<1>1. /\ job.at = "decided" /\ UNCHANGED <<objs, cell, catalogue, job, written, edits>>
      /\ shown' = [src |-> Told(objs, job.src), svc |-> Told(objs, job.svc)]
  BY DEF Preview
<1>2. JobShaped' /\ PartsKnown' /\ ServerKnown' /\ Placed' /\ UseMeans'
  BY <1>0, <1>1 DEF JobShaped, PartsKnown, ServerKnown, Placed, UseMeans, Early, Comparable
<1>3. ShownStands'
  BY <1>0, <1>1 DEF ShownStands, Placed, Told, Early
<1>4. NeverAGuess' /\ RefusedIsMissing'
  BY <1>0, <1>1 DEF NeverAGuess, RefusedIsMissing, Comparable, Unique
<1> QED BY <1>2, <1>3, <1>4 DEF ObjectsInv

LEMMA KeptByBegin == ObjectsInv /\ Begin => ObjectsInv'
<1> SUFFICES ASSUME ObjectsInv, Begin PROVE ObjectsInv'
  OBVIOUS
<1>0. JobShaped /\ PartsKnown /\ ServerKnown /\ Placed /\ UseMeans /\ ShownStands /\ NeverAGuess /\ RefusedIsMissing
  BY DEF ObjectsInv
<1>1. job.at = "decided" /\ UNCHANGED <<objs, shown, written, edits>>
  BY DEF Begin
<1>2. PICK mode : job' = [job EXCEPT !.at = IF mode = "service" THEN mode ELSE "source", !.mode = mode]
  BY DEF Begin
<1>3. /\ job'.at \in {"source", "service"} /\ job'.made = job.made /\ job'.use = job.use /\ job'.taken = job.taken
      /\ job'.src = job.src /\ job'.svc = job.svc /\ job'.layer = job.layer /\ job'.layers = job.layers
  BY <1>0, <1>2 DEF JobShaped
<1>4. JobShaped'
  BY <1>0, <1>2 DEF JobShaped, Stages
<1>5. PartsKnown' /\ ServerKnown' /\ Placed' /\ UseMeans'
  BY <1>0, <1>1, <1>3 DEF PartsKnown, ServerKnown, Placed, UseMeans, Endpoint, Early
<1>6. ShownStands'
  BY <1>0, <1>1, <1>3 DEF ShownStands, Early
<1>7. NeverAGuess' /\ RefusedIsMissing'
  BY <1>0, <1>1, <1>3 DEF NeverAGuess, RefusedIsMissing, Placed
<1> QED BY <1>4, <1>5, <1>6, <1>7 DEF ObjectsInv

\* A part of the request that is looked up, used or created.
LEMMA ResolveCases ==
    ASSUME NEW q, NEW column, NEW next, Resolve(q, column, next)
    PROVE  \/ Fail
           \/ \E found : /\ found # None
                         /\ \/ found = Lookup(All, q)
                            \/ Lookup(All, q) = None /\ q.kind = "ip" /\ found = LookupHost(All, q.scope)
                         /\ job' = [job EXCEPT !.at = next, !.use[column] = found]
           \/ /\ Lookup(All, q) = None /\ q.kind \in Creatable
              /\ job' = [job EXCEPT !.at = next, !.use[column] = NewObject(q), !.made = @ \cup {NewObject(q)}]
<1> DEFINE found == IF Lookup(All, q) = None /\ q.kind = "ip" /\ Single(q.scope) THEN LookupHost(All, q.scope)
                    ELSE Lookup(All, q)
<1>1. CASE found # None /\ job' = [job EXCEPT !.at = next, !.use[column] = found]
  BY <1>1
<1>2. CASE /\ found = None /\ q.kind \in Creatable
           /\ job' = [job EXCEPT !.at = next, !.use[column] = NewObject(q), !.made = @ \cup {NewObject(q)}]
  BY <1>2
<1> QED BY <1>1, <1>2 DEF Resolve

\* What a step of the apply leaves alone.
LEMMA KeptByStep ==
    ASSUME ObjectsInv, job.at \in {"source", "service", "column", "write"}, UNCHANGED <<objs, catalogue, shown, edits>>,
           JobShaped', job'.at \in {"service", "column", "write"}, job'.at = "service" => job.at = "source",
           job'.src = job.src, job'.svc = job.svc, job'.asks = job.asks,
           job'.layer = job.layer, job'.layers = job.layers, job'.taken = job.taken,
           job'.at = "service" => job'.use["svc"] = None /\ job'.made \subseteq {NewObject(job.src)},
           job.at = "source" => job.svc.kind \in {"port", "named"}
    PROVE  PartsKnown' /\ ServerKnown' /\ Placed' /\ NeverAGuess' /\ RefusedIsMissing'
<1>0. PartsKnown /\ ServerKnown /\ Placed /\ NeverAGuess
  BY DEF ObjectsInv
<1>1. PartsKnown'
  BY <1>0 DEF PartsKnown, Endpoint
<1>2. ServerKnown'
  BY <1>0 DEF ServerKnown, Early
<1>3. Placed'
  BY <1>0 DEF Placed, Early
<1>4. job.taken = None
  BY <1>0 DEF Placed
<1>5. NeverAGuess' /\ RefusedIsMissing'
  BY <1>0, <1>4 DEF NeverAGuess, RefusedIsMissing
<1> QED BY <1>1, <1>2, <1>3, <1>5

LEMMA KeptByResolveSource == ObjectsInv /\ ResolveSource => ObjectsInv'
<1> SUFFICES ASSUME ObjectsInv, ResolveSource PROVE ObjectsInv'
  OBVIOUS
<1>0. JobShaped /\ PartsKnown /\ ServerKnown /\ Placed /\ UseMeans /\ ShownStands
  BY DEF ObjectsInv
<1>1. job.at = "source" /\ UNCHANGED <<objs, cell, catalogue, shown, written, edits>>
  BY DEF ResolveSource
<1>2. PICK next : next = IF job.mode = "create" THEN "service" ELSE "write"
  OBVIOUS
<1>3. PICK q, all : q = job.src /\ all = objs
  OBVIOUS
<1>4. job.use["src"] = None /\ job.use["svc"] = None /\ job.made = {} /\ All = all
  BY <1>0, <1>1, <1>3 DEF Placed, All
<1>5. Resolve(q, "src", next)
  BY <1>2, <1>3 DEF ResolveSource
<1>6. Endpoint(q) /\ IsFiniteSet(all) /\ \A x \in all : Proper(x, q)
  BY <1>0, <1>1, <1>3 DEF PartsKnown, ServerKnown
<1>7. CASE Fail
  BY <1>1, <1>7, KeptByFail
\* Whatever stands for the source.
<1>8. ASSUME NEW o, NEW made, o.is # "port", OneScope(o) => MeaningOf(o) = Meaning(q), made \subseteq {NewObject(q)},
             edits = MaxEdits /\ shown # None =>
                 /\ shown["src"].exists => o.name = shown["src"].name
                 /\ o \in made => ~shown["src"].exists /\ o.name = shown["src"].name,
             job' = [job EXCEPT !.at = next, !.use["src"] = o, !.made = made]
      PROVE  ObjectsInv'
  <2>1. /\ job'.at = next /\ job'.made = made /\ job'.use["src"] = o /\ job'.use["svc"] = None
        /\ job'.src = job.src /\ job'.svc = job.svc /\ job'.asks = job.asks
        /\ job'.layer = job.layer /\ job'.layers = job.layers /\ job'.taken = job.taken
    BY <1>0, <1>4, <1>8 DEF JobShaped
  <2>2. JobShaped'
    BY <1>0, <1>2, <1>8 DEF JobShaped, Stages
  <2>3. PartsKnown' /\ ServerKnown' /\ Placed' /\ NeverAGuess' /\ RefusedIsMissing'
    BY <1>0, <1>1, <1>2, <1>3, <1>8, <2>1, <2>2, KeptByStep DEF PartsKnown
  <2>4. UseMeans'
    BY <1>3, <1>8, <2>1 DEF UseMeans
  <2>5. ShownStands'
    BY <1>0, <1>1, <1>2, <1>8, <2>1 DEF ShownStands, Early
  <2> QED BY <2>2, <2>3, <2>4, <2>5 DEF ObjectsInv
<1>9. edits = MaxEdits /\ shown # None => shown["src"] = Told(all, q)
  BY <1>0, <1>1, <1>3 DEF ShownStands
<1>10. Told(all, q) = IF Lookup(all, q) = None THEN [name |-> q.new, exists |-> FALSE]
                      ELSE [name |-> Lookup(all, q).name, exists |-> TRUE]
  BY DEF Told
<1>11. ASSUME NEW found, found # None,
              \/ found = Lookup(All, q)
              \/ Lookup(All, q) = None /\ q.kind = "ip" /\ found = LookupHost(All, q.scope),
              job' = [job EXCEPT !.at = next, !.use["src"] = found]
       PROVE  ObjectsInv'
  <2>1. found.is # "port" /\ (OneScope(found) => MeaningOf(found) = Meaning(q))
    <3>1. CASE found = Lookup(all, q)
      BY <1>6, <1>11, <3>1, FoundMeans
    <3>2. CASE q.kind = "ip" /\ found = LookupHost(all, q.scope)
      BY <1>11, <3>2, HostMeans
    <3> QED BY <1>4, <1>11, <3>1, <3>2
  <2>2. job' = [job EXCEPT !.at = next, !.use["src"] = found, !.made = {}]
    BY <1>0, <1>4, <1>11 DEF JobShaped
  <2>3. edits = MaxEdits /\ shown # None => (shown["src"].exists => found.name = shown["src"].name)
    BY <1>4, <1>9, <1>10, <1>11
  <2> QED BY <1>8, <1>11, <2>1, <2>2, <2>3
<1>12. ASSUME Lookup(All, q) = None, q.kind \in Creatable,
              job' = [job EXCEPT !.at = next, !.use["src"] = NewObject(q), !.made = @ \cup {NewObject(q)}]
       PROVE  ObjectsInv'
  <2>1. /\ NewObject(q).is # "port" /\ NewObject(q).name = q.new /\ MeaningOf(NewObject(q)) = Meaning(q)
    BY <1>6, <1>12, NewMeans
  <2>2. job' = [job EXCEPT !.at = next, !.use["src"] = NewObject(q), !.made = {NewObject(q)}]
    BY <1>0, <1>4, <1>12 DEF JobShaped
  <2>3. edits = MaxEdits /\ shown # None => ~shown["src"].exists /\ NewObject(q).name = shown["src"].name
    BY <1>4, <1>9, <1>10, <1>12, <2>1
  <2> QED BY <1>8, <2>1, <2>2, <2>3
<1> QED BY <1>5, <1>7, <1>11, <1>12, ResolveCases

LEMMA KeptByResolveSvc == ObjectsInv /\ ResolveSvc => ObjectsInv'
<1> SUFFICES ASSUME ObjectsInv, ResolveSvc PROVE ObjectsInv'
  OBVIOUS
<1>0. JobShaped /\ PartsKnown /\ ServerKnown /\ Placed /\ UseMeans /\ ShownStands
  BY DEF ObjectsInv
<1>1. job.at = "service" /\ UNCHANGED <<objs, cell, catalogue, shown, written, edits>>
  BY DEF ResolveSvc
<1>2. PICK next : next = IF job.mode = "create" THEN "column" ELSE "write"
  OBVIOUS
<1>3. PICK q, p, all, had : q = job.svc /\ p = job.src /\ all = objs /\ had = job.made
  OBVIOUS
<1>4. job.use["svc"] = None /\ had \subseteq {NewObject(p)} /\ All = all \cup had
  BY <1>0, <1>1, <1>3 DEF Placed, All
<1>5. Resolve(q, "svc", next)
  BY <1>2, <1>3 DEF ResolveSvc
<1>6. Endpoint(p) /\ IsFiniteSet(all) /\ q.kind \in {"port", "named"}
  BY <1>0, <1>1, <1>3 DEF PartsKnown, ServerKnown
<1>7. CASE Fail
  BY <1>1, <1>7, KeptByFail
<1>8. Lookup(All, q) = Lookup(all, q) /\ (Lookup(all, q) # None => Lookup(all, q) \notin had)
  BY <1>4, <1>6, ServiceFound
\* Whatever stands for the service.
<1>9. ASSUME NEW o, NEW made, made = had \/ (made = had \cup {NewObject(q)} /\ q.kind = "port"),
             edits = MaxEdits /\ shown # None =>
                 /\ shown["svc"].exists => o.name = shown["svc"].name
                 /\ o \in made => ~shown["svc"].exists /\ o.name = shown["svc"].name,
             job' = [job EXCEPT !.at = next, !.use["svc"] = o, !.made = made]
      PROVE  ObjectsInv'
  <2>1. /\ job'.at = next /\ job'.made = made /\ job'.use["src"] = job.use["src"] /\ job'.use["svc"] = o
        /\ job'.src = job.src /\ job'.svc = job.svc /\ job'.asks = job.asks
        /\ job'.layer = job.layer /\ job'.layers = job.layers /\ job'.taken = job.taken
    BY <1>0, <1>4, <1>9 DEF JobShaped
  <2>2. JobShaped'
    BY <1>0, <1>2, <1>9 DEF JobShaped, Stages
  <2>3. PartsKnown' /\ ServerKnown' /\ Placed' /\ NeverAGuess' /\ RefusedIsMissing'
    BY <1>0, <1>1, <1>2, <2>1, <2>2, KeptByStep
  <2>4. UseMeans'
    BY <1>0, <2>1 DEF UseMeans
  <2>5. job.use["src"] # None => (job.use["src"] \in made => job.use["src"] \in job.made)
    <3>1. q.kind = "port" => NewObject(q).is = "port"
      BY DEF NewObject
    <3> QED BY <1>0, <1>3, <1>9, <3>1 DEF UseMeans
  <2>6. ShownStands'
    <3>1. SUFFICES ASSUME edits = MaxEdits, shown # None, NEW c \in {"src", "svc"}, job'.use[c] # None
                   PROVE  /\ shown[c].exists => job'.use[c].name = shown[c].name
                          /\ job'.use[c] \in job'.made => ~shown[c].exists /\ job'.use[c].name = shown[c].name
      BY <1>1, <1>2, <2>1 DEF ShownStands, Early
    <3>2. CASE c = "src"
      BY <1>0, <2>1, <2>5, <3>1, <3>2 DEF ShownStands
    <3>3. CASE c = "svc"
      BY <1>9, <2>1, <3>1, <3>3
    <3> QED BY <3>2, <3>3
  <2> QED BY <2>2, <2>3, <2>4, <2>6 DEF ObjectsInv
<1>10. edits = MaxEdits /\ shown # None => shown["svc"] = Told(all, q)
  BY <1>0, <1>1, <1>3 DEF ShownStands
<1>11. Told(all, q) = IF Lookup(all, q) = None THEN [name |-> q.new, exists |-> FALSE]
                      ELSE [name |-> Lookup(all, q).name, exists |-> TRUE]
  BY DEF Told
<1>12. ASSUME NEW found, found # None,
              \/ found = Lookup(All, q)
              \/ Lookup(All, q) = None /\ q.kind = "ip" /\ found = LookupHost(All, q.scope),
              job' = [job EXCEPT !.at = next, !.use["svc"] = found]
       PROVE  ObjectsInv'
  <2>1. found = Lookup(all, q)
    BY <1>6, <1>8, <1>12
  <2>2. job' = [job EXCEPT !.at = next, !.use["svc"] = found, !.made = had]
    BY <1>0, <1>3, <1>12 DEF JobShaped
  <2>3. edits = MaxEdits /\ shown # None => (shown["svc"].exists => found.name = shown["svc"].name)
    BY <1>10, <1>11, <1>12, <2>1
  <2>4. found \notin had
    BY <1>8, <1>12, <2>1
  <2> QED BY <1>9, <2>2, <2>3, <2>4
<1>13. ASSUME Lookup(All, q) = None, q.kind \in Creatable,
              job' = [job EXCEPT !.at = next, !.use["svc"] = NewObject(q), !.made = @ \cup {NewObject(q)}]
       PROVE  ObjectsInv'
  <2>1. q.kind = "port" /\ NewObject(q).name = q.new
    BY <1>6, <1>13 DEF Creatable, NewObject
  <2>2. job' = [job EXCEPT !.at = next, !.use["svc"] = NewObject(q), !.made = had \cup {NewObject(q)}]
    BY <1>0, <1>3, <1>13 DEF JobShaped
  <2>3. edits = MaxEdits /\ shown # None => ~shown["svc"].exists /\ NewObject(q).name = shown["svc"].name
    BY <1>8, <1>10, <1>11, <1>13, <2>1
  <2>4. \A made : made = had \cup {NewObject(q)} /\ job' = [job EXCEPT !.at = next, !.use["svc"] = NewObject(q), !.made = made] => ObjectsInv'
    BY <1>9, <2>1, <2>3
  <2> QED BY <2>2, <2>4
<1> QED BY <1>5, <1>7, <1>12, <1>13, ResolveCases

LEMMA KeptByResolveColumn == ObjectsInv /\ ResolveColumn => ObjectsInv'
<1> SUFFICES ASSUME ObjectsInv, ResolveColumn PROVE ObjectsInv'
  OBVIOUS
<1>0. JobShaped /\ PartsKnown /\ ServerKnown /\ Placed /\ UseMeans /\ ShownStands /\ NeverAGuess
  BY DEF ObjectsInv
<1>1. job.at = "column" /\ UNCHANGED <<objs, cell, catalogue, shown, written, edits>>
  BY DEF ResolveColumn
<1>2. \/ job' = [job EXCEPT !.at = "write"]
      \/ \E sure \in BOOLEAN : /\ FALSE \in MayBeWritten(Comparable, job.column.kind, job.column.name, sure)
                               /\ job' = [job EXCEPT !.at = "refused", !.made = {}, !.sure = sure]
  <2>1. CASE job' = [job EXCEPT !.at = "write"]
    BY <2>1
  <2>2. CASE \E sure \in BOOLEAN : \E may \in MayBeWritten(Comparable, job.column.kind, job.column.name, sure) :
               job' = IF may THEN [job EXCEPT !.at = "write"]
                      ELSE [job EXCEPT !.at = "refused", !.made = {}, !.sure = sure]
    <3>1. PICK sure \in BOOLEAN : \E may \in MayBeWritten(Comparable, job.column.kind, job.column.name, sure) :
               job' = IF may THEN [job EXCEPT !.at = "write"]
                      ELSE [job EXCEPT !.at = "refused", !.made = {}, !.sure = sure]
      BY <2>2
    <3>2. PICK may \in MayBeWritten(Comparable, job.column.kind, job.column.name, sure) :
               job' = IF may THEN [job EXCEPT !.at = "write"]
                      ELSE [job EXCEPT !.at = "refused", !.made = {}, !.sure = sure]
      BY <3>1
    <3>3. PICK all, kind, name : all = Comparable /\ kind = job.column.kind /\ name = job.column.name
      OBVIOUS
    <3>4. may \in BOOLEAN
      <4>1. may \in MayBeWritten(all, kind, name, sure)
        BY <3>2, <3>3
      <4> QED BY <4>1, MayIsYesOrNo
    <3> QED BY <3>2, <3>4
  <2> QED BY <2>1, <2>2 DEF ResolveColumn
<1>3. CASE job' = [job EXCEPT !.at = "write"]
  <2>1. /\ job'.at = "write" /\ job'.made = job.made /\ job'.use = job.use
        /\ job'.src = job.src /\ job'.svc = job.svc /\ job'.asks = job.asks
        /\ job'.layer = job.layer /\ job'.layers = job.layers /\ job'.taken = job.taken
    BY <1>0, <1>3 DEF JobShaped
  <2>2. JobShaped'
    BY <1>0, <1>3 DEF JobShaped, Stages
  <2>3. PartsKnown' /\ ServerKnown' /\ Placed' /\ NeverAGuess' /\ RefusedIsMissing'
    BY <1>1, <2>1, <2>2, KeptByStep
  <2>4. UseMeans' /\ ShownStands'
    BY <1>0, <1>1, <2>1 DEF UseMeans, ShownStands, Early
  <2> QED BY <2>2, <2>3, <2>4 DEF ObjectsInv
<1>4. ASSUME NEW sure \in BOOLEAN, FALSE \in MayBeWritten(Comparable, job.column.kind, job.column.name, sure),
             job' = [job EXCEPT !.at = "refused", !.made = {}, !.sure = sure]
      PROVE  ObjectsInv'
  <2>1. /\ job'.at = "refused" /\ job'.made = {} /\ job'.use = job.use /\ job'.sure = sure
        /\ job'.src = job.src /\ job'.svc = job.svc /\ job'.asks = job.asks /\ job'.column = job.column
        /\ job'.layer = job.layer /\ job'.layers = job.layers /\ job'.taken = job.taken
    BY <1>0, <1>4 DEF JobShaped
  <2>2. JobShaped'
    BY <1>0, <1>4 DEF JobShaped, Stages
  <2>3. PartsKnown' /\ ServerKnown' /\ Placed' /\ UseMeans'
    BY <1>0, <1>1, <2>1 DEF PartsKnown, ServerKnown, Placed, UseMeans, Endpoint, Early
  <2>4. ShownStands'
    BY <1>0, <1>1, <2>1 DEF ShownStands, Early
  <2>5. NeverAGuess'
    BY <1>0, <1>1, <2>1 DEF NeverAGuess, Placed
  <2>6. RefusedIsMissing'
    <3>1. PICK all, kind, name : all = Comparable /\ kind = job.column.kind /\ name = job.column.name
      OBVIOUS
    <3>2. sure = TRUE => FALSE \in MayBeWritten(all, kind, name, TRUE)
      BY <1>4, <3>1
    <3>3. sure = TRUE => \A o \in all : o.kind \in Types(kind) /\ o.name = name =>
                             o.kind \in LookedUp(kind) /\ Crowded(all, o.kind, name)
      BY <3>2, RefusedHasNone
    <3>4. Comparable' = Comparable
      BY <1>1 DEF Comparable
    <3> QED BY <2>1, <3>1, <3>3, <3>4 DEF RefusedIsMissing
  <2> QED BY <2>2, <2>3, <2>4, <2>5, <2>6 DEF ObjectsInv
<1> QED BY <1>2, <1>3, <1>4

LEMMA KeptByWrite == ObjectsInv /\ Write => ObjectsInv'
<1> SUFFICES ASSUME ObjectsInv, Write PROVE ObjectsInv'
  OBVIOUS
<1>0. JobShaped /\ PartsKnown /\ ServerKnown /\ Placed /\ UseMeans /\ ShownStands /\ NeverAGuess
  BY DEF ObjectsInv
<1>1. job.at = "write" /\ UNCHANGED <<cell, catalogue, shown, edits>>
  BY DEF Write
<1>2. CASE Fail /\ UNCHANGED objs
  BY <1>1, <1>2, KeptByFail
<1>3. CASE job' = [job EXCEPT !.at = "done"]
  <2>1. /\ job'.at = "done" /\ job'.made = job.made /\ job'.use = job.use
        /\ job'.src = job.src /\ job'.svc = job.svc
        /\ job'.layer = job.layer /\ job'.layers = job.layers /\ job'.taken = job.taken
    BY <1>0, <1>3 DEF JobShaped
  <2>2. JobShaped'
    BY <1>0, <1>3 DEF JobShaped, Stages
  <2>3. PartsKnown' /\ ServerKnown' /\ Placed' /\ UseMeans'
    BY <1>0, <1>1, <2>1 DEF PartsKnown, ServerKnown, Placed, UseMeans, Endpoint, Early
  <2>4. ShownStands'
    BY <1>0, <1>1, <2>1 DEF ShownStands, Early
  <2>5. NeverAGuess' /\ RefusedIsMissing'
    BY <1>0, <1>1, <2>1 DEF NeverAGuess, Placed, RefusedIsMissing
  <2> QED BY <2>2, <2>3, <2>4, <2>5 DEF ObjectsInv
<1> QED BY <1>2, <1>3 DEF Write

-----------------------------------------------------------------------------
(* People. *)

LEMMA KeptByPeople == ObjectsInv /\ (AddObject \/ RemoveObject) => ObjectsInv'
<1> SUFFICES ASSUME ObjectsInv, AddObject \/ RemoveObject PROVE ObjectsInv'
  OBVIOUS
<1>0. JobShaped /\ PartsKnown /\ ServerKnown /\ Placed /\ UseMeans /\ ShownStands /\ NeverAGuess
  BY DEF ObjectsInv
<1>1. /\ edits > 0 /\ edits' = edits - 1 /\ UNCHANGED <<catalogue, job, shown>>
      /\ job.at \notin {"asking", "layer", "names", "review", "refused", "failed"}
  BY DEF AddObject, RemoveObject
<1>2. PICK o : (o \in Objects /\ objs' = objs \cup {o}) \/ objs' = objs \ {o}
  BY DEF AddObject, RemoveObject
<1>3. edits' \in 0..MaxEdits /\ edits' # MaxEdits
  BY <1>0, <1>1, ServerAssumption DEF ServerKnown
<1>4. job.at # "done" => IsFiniteSet(objs')
  <2>1. PICK all : all = objs
    OBVIOUS
  <2>2. job.at # "done" => IsFiniteSet(all)
    BY <1>0, <2>1 DEF ServerKnown
  <2>3. job.at # "done" => IsFiniteSet(all \cup {o}) /\ IsFiniteSet(all \ {o})
    BY <2>2, FS_AddElement, FS_RemoveElement
  <2> QED BY <1>2, <2>1, <2>3
<1>5. job.at \in Early \cup {"source"} => \A x \in objs' : Proper(x, job.src)
  <2>1. o \in Objects => Proper(o, job.src)
    BY <1>0, ServerAssumption DEF PartsKnown, Proper
  <2> QED BY <1>0, <1>2, <2>1 DEF ServerKnown
<1>6. JobShaped' /\ PartsKnown' /\ Placed' /\ UseMeans'
  BY <1>0, <1>1 DEF JobShaped, PartsKnown, Placed, UseMeans
<1>7. ServerKnown'
  BY <1>0, <1>1, <1>3, <1>4, <1>5 DEF ServerKnown
<1>8. ShownStands'
  BY <1>3 DEF ShownStands
<1>9. NeverAGuess' /\ RefusedIsMissing'
  BY <1>0, <1>1 DEF NeverAGuess, RefusedIsMissing, Placed, Unique
<1> QED BY <1>6, <1>7, <1>8, <1>9 DEF ObjectsInv

-----------------------------------------------------------------------------
(* Theorems. *)

\* The invariant: how far a request is tells what it has found and made, what stands for its source
\* means the source, and its preview is what a lookup still finds while nobody is in between.
THEOREM ObjectsInvariant == ObjectsSpec => []ObjectsInv
<1>1. ObjectsInv /\ [ObjectsNext]_objectsVars => ObjectsInv'
  <2> SUFFICES ASSUME ObjectsInv, [ObjectsNext]_objectsVars PROVE ObjectsInv'
    OBVIOUS
  <2>1. CASE UNCHANGED objectsVars
    BY <2>1 DEF objectsVars, ObjectsInv, JobShaped, PartsKnown, ServerKnown, Placed, UseMeans, ShownStands, NeverAGuess,
                RefusedIsMissing, Comparable, Unique
  <2>2. CASE ObjectsNext
    BY <2>2, KeptByCorrelateName, KeptByFindLayer, KeptByCorrelated, KeptByPreview, KeptByBegin, KeptByResolveSource,
       KeptByResolveSvc, KeptByResolveColumn, KeptByWrite, KeptByPeople DEF ObjectsNext
  <2> QED BY <2>1, <2>2
<1> QED BY ObjectsBegins, <1>1, PTL DEF ObjectsSpec

\* What an apply found or created for the source stands for what was asked (resolve_endpoint,
\* resolve_typed_object); wildcards and objects of both families aside.
THEOREM Reference == ObjectsSpec => []ReferenceIsTheRequest
<1>1. ObjectsInv => ReferenceIsTheRequest
  BY DEF ObjectsInv, UseMeans, ReferenceIsTheRequest
<1> QED BY <1>1, ObjectsInvariant, PTL

\* The apply uses what its preview said exists and creates what it said is missing (build_preview, execute).
THEOREM AsShown == ObjectsSpec => []ShownIsDone
<1>1. ObjectsInv => ShownIsDone
  BY DEF ObjectsInv, ShownStands, ShownIsDone
<1> QED BY <1>1, ObjectsInvariant, PTL

\* A name is taken for another only when nothing else is written as alike (resolve, resolve_layer_name, _resolve_typed).
THEOREM NoGuess == ObjectsSpec => []NeverAGuess
<1>1. ObjectsInv => NeverAGuess
  BY DEF ObjectsInv
<1> QED BY <1>1, ObjectsInvariant, PTL

\* A column's name is refused only when its class has no such object (_resolve_named_objects).
THEOREM Missing == ObjectsSpec => []RefusedIsMissing
<1>1. ObjectsInv => RefusedIsMissing
  BY DEF ObjectsInv
<1> QED BY <1>1, ObjectsInvariant, PTL

=============================================================================
