----------------------------- MODULE ApplyProofs -----------------------------
(***************************************************************************)
(* Proofs about changes of a policy that are decided at one time and made   *)
(* at another: the changes that deliveries ask for, each to be applied once *)
(* (ApplyOnce), for every set of deliveries, keys and changes and every     *)
(* number of sends and faults; and what a clean-up disables and deletes     *)
(* (Cleanup), for any number of rules, gateways and applies, any            *)
(* thresholds, overrides and days.                                          *)
(***************************************************************************)
EXTENDS ApplyOnce, Cleanup, TLAPS

-----------------------------------------------------------------------------
(* ApplyOnce. *)

\* A delivery that ends lets go of the lock if it had it.
LEMMA TypeReleased ==
    ASSUME TypeOK, NEW d \in Deliveries, step[d] = "decided", pooled' = pooled,
           NEW s \in Steps \ {"decided"}, Goes(d, s), Released(d)
    PROVE  /\ step' \in [Deliveries -> Steps] /\ lock' \in Deliveries \cup {Nobody}
           /\ IF pooled' THEN \A e \in Deliveries : step'[e] = "decided" <=> lock' = e ELSE lock' = Nobody
<1>1. \A e \in Deliveries : step'[e] = IF e = d THEN s ELSE step[e]
  BY DEF Goes, TypeOK
<1>2. QED
  BY <1>1, DeliveriesAssumption DEF TypeOK, Goes, Released

\* Steps that neither decide nor end a decision leave the lock alone.
LEMMA TypeStep ==
    ASSUME TypeOK, NEW d \in Deliveries, step[d] # "decided",
           NEW s \in Steps \ {"decided"}, Goes(d, s), lock' = lock, pooled' = pooled
    PROVE  /\ step' \in [Deliveries -> Steps]
           /\ IF pooled' THEN \A e \in Deliveries : step'[e] = "decided" <=> lock' = e ELSE lock' = Nobody
<1>1. \A e \in Deliveries : step'[e] = IF e = d THEN s ELSE step[e]
  BY DEF Goes, TypeOK
<1>2. QED
  BY <1>1 DEF TypeOK, Goes

LEMMA TypeFault == ASSUME TypeOK, Fault PROVE faults' \in 0 .. MaxFaults
  BY SettingsAssumption DEF TypeOK, Fault

LEMMA TypeTold ==
    ASSUME TypeOK, NEW d \in Deliveries, NEW a \in Answers, Told(d, a)
    PROVE  answer' \in [Deliveries -> Answers]
  BY DEF TypeOK, Told

LEMMA TypeKey == ASSUME NEW d \in Deliveries PROVE Key[d] \in Keys /\ Asks[d] \in Changes
  BY DeliveriesAssumption

LEMMA TypeCommitted ==
    ASSUME TypeOK, NEW d \in Deliveries, Committed(d)
    PROVE  /\ commits' \in [Keys -> [Changes -> Nat]]
           /\ \A k \in Keys, c \in Changes :
                 commits'[k][c] = IF k = Key[d] /\ c = Asks[d] THEN commits[k][c] + 1 ELSE commits[k][c]
<1>1. commits' = [commits EXCEPT ![Key[d]] = [commits[Key[d]] EXCEPT ![Asks[d]] = commits[Key[d]][Asks[d]] + 1]]
  BY TypeKey DEF Committed, TypeOK
<1>2. \A k \in Keys : commits[k] \in [Changes -> Nat]
  BY DEF TypeOK
<1>3. QED
  BY <1>1, <1>2, TypeKey DEF TypeOK

LEMMA TypeSent ==
    ASSUME TypeOK, NEW d \in Deliveries, Sent(d)
    PROVE  sends' \in [Deliveries -> 0 .. MaxSends]
<1>1. sends[d] + 1 \in 0 .. MaxSends
  BY SettingsAssumption DEF TypeOK, Sent
<1>2. QED
  BY <1>1 DEF TypeOK, Sent

LEMMA TypeInit == Init => TypeOK
  BY DeliveriesAssumption, SettingsAssumption DEF Init, TypeOK, Steps, Answers

LEMMA TypeNext == TypeOK /\ [Next]_vars => TypeOK'
<1> SUFFICES ASSUME TypeOK, [Next]_vars PROVE TypeOK'
  OBVIOUS
<1>1. ASSUME NEW d \in Deliveries, Replay(d) PROVE TypeOK'
  <2>1. answer' \in [Deliveries -> Answers]
    BY <1>1, TypeTold DEF Replay, Answers
  <2>2. QED
    BY <1>1, <2>1, TypeSent DEF Replay, Sent, TypeOK
<1>2. ASSUME NEW d \in Deliveries, Miss(d) PROVE TypeOK'
  <2>1. answer' \in [Deliveries -> Answers]
    BY <1>2, TypeTold DEF Miss, Answers
  <2>2. /\ step' \in [Deliveries -> Steps]
        /\ IF pooled' THEN \A e \in Deliveries : step'[e] = "decided" <=> lock' = e ELSE lock' = Nobody
    BY <1>2, TypeStep DEF Miss, Sent, Steps
  <2>3. shaken' \subseteq Keys
    BY <1>2, TypeKey DEF Miss, Shake, TypeOK
  <2>4. QED
    BY <1>2, <2>1, <2>2, <2>3, TypeSent DEF Miss, Sent, TypeOK
<1>3. ASSUME NEW d \in Deliveries, Decide(d) PROVE TypeOK'
  <2>1. \A e \in Deliveries : step'[e] = IF e = d THEN "decided" ELSE step[e]
    BY <1>3 DEF Decide, Goes, TypeOK
  <2>2. step' \in [Deliveries -> Steps]
    BY <1>3 DEF Decide, Goes, TypeOK, Steps
  <2>3. QED
    BY <1>3, <2>1, <2>2, DeliveriesAssumption DEF Decide, Free, Taken, TypeOK
<1>4. ASSUME NEW d \in Deliveries, DecideNoOp(d) PROVE TypeOK'
  <2>1. /\ step' \in [Deliveries -> Steps]
        /\ IF pooled' THEN \A e \in Deliveries : step'[e] = "decided" <=> lock' = e ELSE lock' = Nobody
    BY <1>4, TypeStep DEF DecideNoOp, Steps
  <2>2. answer' \in [Deliveries -> Answers]
    BY <1>4, TypeTold DEF DecideNoOp, Answers
  <2>3. QED
    BY <1>4, <2>1, <2>2 DEF DecideNoOp, TypeOK
<1>5. ASSUME NEW d \in Deliveries, Publish(d) PROVE TypeOK'
  <2>1. /\ step' \in [Deliveries -> Steps] /\ lock' \in Deliveries \cup {Nobody}
        /\ IF pooled' THEN \A e \in Deliveries : step'[e] = "decided" <=> lock' = e ELSE lock' = Nobody
    BY <1>5, TypeReleased DEF Publish, Steps
  <2>2. QED
    BY <1>5, <2>1, TypeCommitted DEF Publish, TypeOK
<1>6. ASSUME NEW d \in Deliveries, Fail(d) \/ TimeOut(d) PROVE TypeOK'
  <2>1. /\ step' \in [Deliveries -> Steps] /\ lock' \in Deliveries \cup {Nobody}
        /\ IF pooled' THEN \A e \in Deliveries : step'[e] = "decided" <=> lock' = e ELSE lock' = Nobody
    BY <1>6, TypeReleased DEF Fail, TimeOut, Steps
  <2>2. answer' \in [Deliveries -> Answers] /\ faults' \in 0 .. MaxFaults
    BY <1>6, TypeTold, TypeFault DEF Fail, TimeOut, Answers
  <2>3. late' \subseteq Deliveries /\ shaken' \subseteq Keys /\ overdue' \subseteq Changes
    BY <1>6, TypeKey DEF Fail, TimeOut, Shake, TypeOK
  <2>4. QED
    BY <1>6, <2>1, <2>2, <2>3 DEF Fail, TimeOut, TypeOK
<1>7. ASSUME NEW d \in Deliveries, Remember(d) PROVE TypeOK'
  <2>1. /\ step' \in [Deliveries -> Steps]
        /\ IF pooled' THEN \A e \in Deliveries : step'[e] = "decided" <=> lock' = e ELSE lock' = Nobody
    BY <1>7, TypeStep DEF Remember, Steps
  <2>2. answer' \in [Deliveries -> Answers]
    BY <1>7, TypeTold DEF Remember, Answers
  <2>3. records' \in [Keys -> Record \cup {NoRecord}]
    <3>1. Fingerprint(d) \in Changes \cup {NoPrint}
      BY TypeKey DEF Fingerprint
    <3>2. records[Key[d]].kept => records[Key[d]].print \in Changes \cup {NoPrint}
      <4>1. records[Key[d]] \in Record \cup {NoRecord}
        BY TypeKey DEF TypeOK
      <4>2. CASE records[Key[d]] \in Record
        BY <4>2 DEF Record
      <4>3. CASE records[Key[d]] = NoRecord
        BY <4>3 DEF NoRecord
      <4>4. QED
        BY <4>1, <4>2, <4>3
    <3> DEFINE print == IF Fingerprint(d) = NoPrint /\ records[Key[d]].kept
                        THEN records[Key[d]].print ELSE Fingerprint(d)
               new == [kept |-> TRUE, fresh |-> TRUE, print |-> print]
    <3>3. new \in Record
      BY <3>1, <3>2 DEF Record
    <3>4. records' = [records EXCEPT ![Key[d]] = new]
      BY <1>7, TypeKey DEF Remember, TypeOK
    <3>5. QED
      BY <3>3, <3>4 DEF TypeOK
  <2>4. QED
    BY <1>7, <2>1, <2>2, <2>3 DEF Remember, TypeOK
<1>8. ASSUME NEW d \in Deliveries, Forget(d) PROVE TypeOK'
  <2>1. /\ step' \in [Deliveries -> Steps]
        /\ IF pooled' THEN \A e \in Deliveries : step'[e] = "decided" <=> lock' = e ELSE lock' = Nobody
    BY <1>8, TypeStep DEF Forget, Steps
  <2>2. answer' \in [Deliveries -> Answers] /\ faults' \in 0 .. MaxFaults
    BY <1>8, TypeTold, TypeFault DEF Forget, Answers
  <2>3. QED
    BY <1>8, <2>1, <2>2, TypeKey DEF Forget, Shake, TypeOK
<1>9. ASSUME NEW d \in Deliveries, Late(d) PROVE TypeOK'
  BY <1>9, TypeCommitted DEF Late, TypeOK
<1>10. CASE Crash
  <2>1. step' = [d \in Deliveries |-> "idle"] /\ lock' = Nobody /\ faults' \in 0 .. MaxFaults
    BY <1>10, TypeFault DEF Crash
  <2>2. late' \subseteq Deliveries /\ shaken' \subseteq Keys /\ overdue' \subseteq Changes
    BY <1>10, TypeKey DEF Crash, TypeOK
  <2>3. QED
    BY <1>10, <2>1, <2>2, DeliveriesAssumption DEF Crash, TypeOK, Steps
<1>11. ASSUME NEW k \in Keys, Expire(k) PROVE TypeOK'
  <2>1. records[k] \in Record
    BY <1>11 DEF Expire, Live, TypeOK, NoRecord
  <2>2. records' = [records EXCEPT ![k] = [records[k] EXCEPT !.fresh = FALSE]]
    BY <1>11 DEF Expire, TypeOK
  <2>3. [records[k] EXCEPT !.fresh = FALSE] \in Record
    BY <2>1 DEF Record
  <2>4. QED
    BY <1>11, <2>2, <2>3, TypeFault DEF Expire, Shake, TypeOK
<1>12. ASSUME NEW k \in Keys, Prune(k) PROVE TypeOK'
  BY <1>12 DEF Prune, TypeOK
<1>13. ASSUME NEW d \in Deliveries, MissUnread(d) PROVE TypeOK'
  <2>1. answer' \in [Deliveries -> Answers] /\ faults' \in 0 .. MaxFaults
    BY <1>13, TypeTold, TypeFault DEF MissUnread, Answers
  <2>2. /\ step' \in [Deliveries -> Steps]
        /\ IF pooled' THEN \A e \in Deliveries : step'[e] = "decided" <=> lock' = e ELSE lock' = Nobody
    BY <1>13, TypeStep DEF MissUnread, Sent, Steps
  <2>3. shaken' \subseteq Keys
    BY <1>13, TypeKey DEF MissUnread, Shake, TypeOK
  <2>4. QED
    BY <1>13, <2>1, <2>2, <2>3, TypeSent DEF MissUnread, Sent, TypeOK
<1>14. CASE UNCHANGED vars
  BY <1>14 DEF vars, TypeOK
<1>15. QED
  BY <1>1, <1>2, <1>3, <1>4, <1>5, <1>6, <1>7, <1>8, <1>9, <1>10, <1>11, <1>12, <1>13, <1>14
  DEF Next, Thread

\* For every size of the system: every variable is of its type, and with pooled sessions
\* the lock is held exactly by the thread that has decided and not yet published.
THEOREM TypeCorrect == Spec => []TypeOK
  BY TypeInit, TypeNext, PTL DEF Spec

-----------------------------------------------------------------------------
(* A change that settles.  A thread decides when nobody else is between its     *)
(* decision and the end of its publish, so it decides on everything published   *)
(* but what is late; and as long as it holds the lock that stays so.            *)

\* What is late is overdue, and its key was hit.
LateKnown == \A d \in late : Asks[d] \in overdue /\ Key[d] \in shaken

DecidedOnNothing ==
    pooled => \A d \in Deliveries :
        step[d] = "decided" /\ Asks[d] \in Settling \ overdue => \A k \in Keys : commits[k][Asks[d]] = 0

Settles == LateKnown /\ DecidedOnNothing /\ SettlingOnce

\* Single, of a change under the keys, without the function it is stated of.
LEMMA SingleKeys ==
    ASSUME NEW c
    PROVE  Single([k \in Keys |-> commits[k][c]], Keys) <=>
             \A k, l \in Keys : commits[k][c] > 0 /\ commits[l][c] > 0 => k = l /\ commits[k][c] = 1
<1> DEFINE n == [k \in Keys |-> commits[k][c]]
<1>1. \A k \in Keys : n[k] = commits[k][c]
  OBVIOUS
<1> HIDE DEF n
<1>2. QED
  BY <1>1 DEF Single, n

\* A step that publishes nothing and decides nothing.
LEMMA SettlesQuietly ==
    ASSUME TypeOK, Settles, commits' = commits, pooled' = pooled,
           overdue \subseteq overdue', shaken \subseteq shaken',
           \A d \in late' : d \in late \/ (Asks[d] \in overdue' /\ Key[d] \in shaken'),
           \A d \in Deliveries : step'[d] = "decided" => step[d] = "decided"
    PROVE  Settles'
<1>1. LateKnown'
  BY DEF Settles, LateKnown
<1>2. DecidedOnNothing'
  BY DEF Settles, DecidedOnNothing
<1>3. SettlingOnce'
  BY DEF Settles, SettlingOnce, Single
<1>4. QED
  BY <1>1, <1>2, <1>3 DEF Settles

LEMMA SettlesDecide ==
    ASSUME TypeOK, Settles, NEW d \in Deliveries, Decide(d)
    PROVE  Settles'
<1>1. \A e \in Deliveries : step'[e] = "decided" => e = d \/ step[e] = "decided"
  BY DEF Decide, Goes, TypeOK
<1>2. Asks[d] \in Settling => \A k \in Keys : commits[k][Asks[d]] = 0
  BY TypeKey DEF Decide, Settled, InPolicy, TypeOK
<1>3. DecidedOnNothing'
  BY <1>1, <1>2 DEF Decide, Settles, DecidedOnNothing
<1>4. LateKnown' /\ SettlingOnce'
  BY DEF Decide, Settles, LateKnown, SettlingOnce, Single
<1>5. QED
  BY <1>3, <1>4 DEF Settles

LEMMA SettlesPublish ==
    ASSUME TypeOK, Settles, NEW d \in Deliveries, Publish(d)
    PROVE  Settles'
<1>1. \A k \in Keys, c \in Changes :
        commits'[k][c] = IF k = Key[d] /\ c = Asks[d] THEN commits[k][c] + 1 ELSE commits[k][c]
  BY TypeCommitted DEF Publish
<1>2. pooled' = pooled /\ overdue' = overdue /\ late' = late /\ shaken' = shaken
  BY DEF Publish
<1>3. pooled => \A e \in Deliveries : step'[e] # "decided"
  BY DEF Publish, Goes, TypeOK, Steps
<1>4. SettlingOnce'
  <2>1. ASSUME pooled, NEW c \in Settling \ overdue, NEW k \in Keys, NEW l \in Keys,
               commits'[k][c] > 0, commits'[l][c] > 0
        PROVE  k = l /\ commits'[k][c] = 1
    <3>1. c \in Changes
      BY SettingsAssumption
    <3>2. CASE c = Asks[d]
      <4>1. commits[k][c] = 0 /\ commits[l][c] = 0
        BY <2>1, <3>2 DEF Settles, DecidedOnNothing, Publish
      <4>2. QED
        BY <1>1, <2>1, <3>1, <4>1
    <3>3. CASE c # Asks[d]
      BY <1>1, <2>1, <3>1, <3>3, SingleKeys DEF Settles, SettlingOnce
    <3>4. QED
      BY <3>2, <3>3
  <2>2. ASSUME pooled', NEW c \in Settling \ overdue' PROVE Single([k \in Keys |-> commits[k][c]], Keys)'
    BY <1>2, <2>1, <2>2 DEF Single
  <2>3. QED
    BY <2>2 DEF SettlingOnce
<1>5. QED
  BY <1>2, <1>3, <1>4 DEF Settles, LateKnown, DecidedOnNothing

LEMMA SettlesLate ==
    ASSUME TypeOK, Settles, NEW d \in Deliveries, Late(d)
    PROVE  Settles'
<1>1. Asks[d] \in overdue
  BY DEF Late, Settles, LateKnown
<1>2. \A k \in Keys, c \in Changes \ overdue : commits'[k][c] = commits[k][c]
  BY <1>1, TypeCommitted DEF Late
<1>3. pooled' = pooled /\ overdue' = overdue /\ shaken' = shaken /\ step' = step /\ late' \subseteq late
  BY DEF Late
<1>4. DecidedOnNothing'
  BY <1>2, <1>3, TypeKey DEF Settles, DecidedOnNothing
<1>5. ASSUME pooled', NEW c \in Settling \ overdue' PROVE Single([k \in Keys |-> commits[k][c]], Keys)'
  <2>1. c \in Changes \ overdue
    BY <1>3, <1>5, SettingsAssumption
  <2>2. Single([k \in Keys |-> commits[k][c]], Keys)
    BY <1>3, <1>5 DEF Settles, SettlingOnce
  <2>3. QED
    BY <1>2, <2>1, <2>2 DEF Single
<1>6. LateKnown'
  BY <1>3 DEF Settles, LateKnown
<1>7. QED
  BY <1>4, <1>5, <1>6 DEF Settles, SettlingOnce

LEMMA SettlesNext == TypeOK /\ Settles /\ [Next]_vars => Settles'
<1> SUFFICES ASSUME TypeOK, Settles, [Next]_vars PROVE Settles'
  OBVIOUS
<1>1. ASSUME NEW d \in Deliveries, \/ Replay(d) \/ Miss(d) \/ MissUnread(d)
                                    \/ DecideNoOp(d) \/ Fail(d) \/ Remember(d) \/ Forget(d)
      PROVE  Settles'
  <2>1. \A e \in Deliveries : step'[e] = "decided" => step[e] = "decided"
    BY <1>1 DEF Replay, Miss, MissUnread, DecideNoOp, Fail, Remember, Forget, Goes, TypeOK
  <2>2. shaken \subseteq shaken'
    BY <1>1 DEF Replay, Miss, MissUnread, DecideNoOp, Fail, Remember, Forget, Shake
  <2>3. commits' = commits /\ pooled' = pooled /\ overdue' = overdue /\ late' = late
    BY <1>1 DEF Replay, Miss, MissUnread, DecideNoOp, Fail, Remember, Forget, Sent
  <2>4. QED
    BY <2>1, <2>2, <2>3, SettlesQuietly
<1>2. ASSUME NEW d \in Deliveries, TimeOut(d) PROVE Settles'
  <2>1. \A e \in Deliveries : step'[e] = "decided" => step[e] = "decided"
    BY <1>2 DEF TimeOut, Goes, TypeOK
  <2>2. QED
    BY <1>2, <2>1, SettlesQuietly DEF TimeOut, Shake
<1>3. CASE Crash
  <2>1. \A e \in Deliveries : step'[e] # "decided"
    BY <1>3 DEF Crash
  <2>2. \A d \in late' : d \in late \/ (Asks[d] \in overdue' /\ Key[d] \in shaken')
    <3>1. ASSUME NEW d \in late', d \notin late PROVE d \in Deliveries /\ step[d] = "decided"
      BY <1>3, <3>1 DEF Crash
    <3>2. QED
      BY <1>3, <3>1 DEF Crash, Busy
  <2>3. QED
    BY <1>3, <2>1, <2>2, SettlesQuietly DEF Crash
<1>4. ASSUME NEW k \in Keys, Expire(k) \/ Prune(k) PROVE Settles'
  BY <1>4, SettlesQuietly DEF Expire, Prune, Shake
<1>5. CASE UNCHANGED vars
  BY <1>5, SettlesQuietly DEF vars
<1>6. QED
  BY <1>1, <1>2, <1>3, <1>4, <1>5, SettlesDecide, SettlesPublish, SettlesLate DEF Next, Thread

LEMMA SettlesInit == Init => Settles
<1>1. ASSUME Init, NEW c \in Settling PROVE Single([k \in Keys |-> commits[k][c]], Keys)
  BY <1>1, SettingsAssumption DEF Init, Single
<1>2. QED
  BY <1>1, SettingsAssumption DEF Init, Settles, LateKnown, DecidedOnNothing, SettlingOnce

\* For every number of deliveries, keys, retries and faults: with pooled sessions a
\* change that settles is published once, unless a publish of it was given up on.
THEOREM SettlesOnce == Spec => []SettlingOnce
<1>1. TypeOK /\ Settles /\ [Next]_vars => (TypeOK /\ Settles)'
  BY TypeNext, SettlesNext
<1>2. QED
  BY <1>1, TypeInit, SettlesInit, PTL DEF Spec, Settles

-----------------------------------------------------------------------------
(* A retry.  Under a key that no fault and no overlap has hit one delivery is    *)
(* under way at most, and it is let in only while nothing is published: what is  *)
(* published has a record, or its thread is about to store one.                  *)

Alone == \A d, e \in Deliveries : Busy(d) /\ Busy(e) /\ Key[d] = Key[e] /\ Key[d] \notin shaken => d = e

NothingYet ==
    \A d \in Deliveries : step[d] \in {"missed", "decided"} /\ Key[d] \notin shaken =>
        \A c \in Changes : commits[Key[d]][c] = 0

Remembered ==
    \A k \in Keys \ shaken : (\E c \in Changes : commits[k][c] > 0) =>
        Live(k) \/ \E d \in Deliveries : Key[d] = k /\ step[d] = "published"

Replays == LateKnown /\ Alone /\ NothingYet /\ Remembered /\ RetryReplays

\* A thread goes from one step to another, or stops, and publishes nothing.
LEMMA ReplaysQuietly ==
    ASSUME TypeOK, Replays, LateKnown', commits' = commits, shaken \subseteq shaken',
           \A k \in Keys \ shaken' : Live(k) => Live(k)',
           \A d \in Deliveries : Key[d] \notin shaken' =>
               \/ step'[d] = step[d]
               \/ step[d] = "missed" /\ step'[d] \in {"decided", "idle"}
               \/ step[d] = "decided" /\ step'[d] = "idle"
               \/ step[d] = "published" /\ step'[d] = "idle" /\ Live(Key[d])'
    PROVE  Replays'
<1>1. Alone'
  BY DEF Replays, Alone, Busy
<1>2. NothingYet'
  BY DEF Replays, NothingYet
<1>3. Remembered'
  <2>1. ASSUME NEW k \in Keys \ shaken', NEW c \in Changes, commits[k][c] > 0
        PROVE  Live(k)' \/ \E d \in Deliveries : Key[d] = k /\ step'[d] = "published"
    <3>1. k \in Keys \ shaken
      BY <2>1
    <3>2. Live(k) \/ \E d \in Deliveries : Key[d] = k /\ step[d] = "published"
      BY <2>1, <3>1 DEF Replays, Remembered
    <3>3. CASE \E d \in Deliveries : Key[d] = k /\ step[d] = "published"
      BY <2>1, <3>3
    <3>4. QED
      BY <2>1, <3>2, <3>3
  <2>2. QED
    BY <2>1 DEF Remembered
<1>4. RetryReplays'
  BY DEF Replays, RetryReplays
<1>5. QED
  BY <1>1, <1>2, <1>3, <1>4 DEF Replays

LEMMA ReplaysMiss ==
    ASSUME TypeOK, Replays, NEW d \in Deliveries, Miss(d)
    PROVE  Replays'
<1>1. /\ \A e \in Deliveries : step'[e] = IF e = d THEN "missed" ELSE step[e]
      /\ commits' = commits /\ records' = records /\ late' = late /\ overdue' = overdue
      /\ step[d] = "idle" /\ ~Live(Key[d])
  BY DEF Miss, Sent, Goes, TypeOK
<1>2. /\ shaken \subseteq shaken'
      /\ Key[d] \notin shaken' => \A e \in Deliveries : Key[e] = Key[d] => ~Busy(e)
  BY DEF Miss, Shake
<1>3. Alone'
  BY <1>1, <1>2 DEF Replays, Alone, Busy
<1>4. Key[d] \notin shaken' => \A c \in Changes : commits[Key[d]][c] = 0
  <2>1. SUFFICES ASSUME Key[d] \notin shaken', NEW c \in Changes PROVE ~(commits[Key[d]][c] > 0)
    BY TypeKey DEF TypeOK
  <2>2. \A e \in Deliveries : Key[e] = Key[d] => step[e] # "published"
    BY <1>2, <2>1 DEF Busy
  <2>3. QED
    BY <1>1, <1>2, <2>1, <2>2, TypeKey DEF Replays, Remembered
<1>5. NothingYet'
  BY <1>1, <1>2, <1>4 DEF Replays, NothingYet
<1>6. Remembered'
  <2>1. \A e \in Deliveries : step[e] = "published" => step'[e] = "published"
    BY <1>1
  <2>2. \A k \in Keys : Live(k) => Live(k)'
    BY <1>1 DEF Live
  <2>3. QED
    BY <1>1, <1>2, <2>1, <2>2 DEF Replays, Remembered
<1>7. LateKnown' /\ RetryReplays'
  BY <1>1, <1>2 DEF Replays, LateKnown, RetryReplays
<1>8. QED
  BY <1>3, <1>5, <1>6, <1>7 DEF Replays

LEMMA ReplaysPublish ==
    ASSUME TypeOK, Replays, NEW d \in Deliveries, Publish(d)
    PROVE  Replays'
<1>1. \A k \in Keys, c \in Changes :
        commits'[k][c] = IF k = Key[d] /\ c = Asks[d] THEN commits[k][c] + 1 ELSE commits[k][c]
  BY TypeCommitted DEF Publish
<1>2. /\ \A e \in Deliveries : step'[e] = IF e = d THEN "published" ELSE step[e]
      /\ shaken' = shaken /\ late' = late /\ overdue' = overdue /\ records' = records /\ step[d] = "decided"
  BY DEF Publish, Goes, TypeOK
<1>3. Key[d] \notin shaken => \A c \in Changes : commits[Key[d]][c] = 0
  BY <1>2 DEF Replays, NothingYet
<1>4. Alone'
  BY <1>2 DEF Replays, Alone, Busy
<1>5. NothingYet'
  <2>1. ASSUME NEW e \in Deliveries, step'[e] \in {"missed", "decided"}, Key[e] \notin shaken, NEW c \in Changes
        PROVE  commits'[Key[e]][c] = 0
    <3>1. e # d /\ step[e] \in {"missed", "decided"}
      BY <1>2, <2>1
    <3>2. Key[e] # Key[d]
      BY <1>2, <2>1, <3>1 DEF Replays, Alone, Busy
    <3>3. QED
      BY <1>1, <2>1, <3>1, <3>2, TypeKey DEF Replays, NothingYet
  <2>2. QED
    BY <1>2, <2>1 DEF NothingYet
<1>6. Remembered'
  <2>1. ASSUME NEW k \in Keys \ shaken, NEW c \in Changes, commits'[k][c] > 0, k # Key[d]
        PROVE  Live(k)' \/ \E e \in Deliveries : Key[e] = k /\ step'[e] = "published"
    <3>1. Live(k) \/ \E e \in Deliveries : Key[e] = k /\ step[e] = "published"
      BY <1>1, <2>1 DEF Replays, Remembered
    <3>2. QED
      BY <1>2, <3>1 DEF Live
  <2>2. step'[d] = "published"
    BY <1>2
  <2>3. QED
    BY <1>2, <2>1, <2>2 DEF Remembered
<1>7. RetryReplays'
  <2>1. ASSUME NEW k \in Keys \ shaken, NEW a \in Changes, NEW b \in Changes, commits'[k][a] > 0, commits'[k][b] > 0
        PROVE  a = b /\ commits'[k][a] = 1
    <3>1. CASE k = Key[d]
      BY <1>1, <1>3, <2>1, <3>1
    <3>2. CASE k # Key[d]
      BY <1>1, <2>1, <3>2 DEF Replays, RetryReplays, Single
    <3>3. QED
      BY <3>1, <3>2
  <2>2. QED
    BY <1>2, <2>1 DEF RetryReplays, Single
<1>8. QED
  BY <1>2, <1>4, <1>5, <1>6, <1>7 DEF Replays, LateKnown

LEMMA ReplaysLate ==
    ASSUME TypeOK, Replays, NEW d \in Deliveries, Late(d)
    PROVE  Replays'
<1>1. Key[d] \in shaken
  BY DEF Late, Replays, LateKnown
<1>2. \A k \in Keys \ shaken, c \in Changes : commits'[k][c] = commits[k][c]
  BY <1>1, TypeCommitted DEF Late
<1>3. shaken' = shaken /\ step' = step /\ records' = records /\ overdue' = overdue /\ late' \subseteq late
  BY DEF Late
<1>4. LateKnown' /\ Alone'
  BY <1>3 DEF Replays, LateKnown, Alone, Busy
<1>5. NothingYet'
  BY <1>2, <1>3, TypeKey DEF Replays, NothingYet
<1>6. Remembered'
  BY <1>2, <1>3 DEF Replays, Remembered, Live
<1>7. RetryReplays'
  BY <1>2, <1>3 DEF Replays, RetryReplays, Single
<1>8. QED
  BY <1>4, <1>5, <1>6, <1>7 DEF Replays

LEMMA ReplaysNext == TypeOK /\ Replays /\ Settles' /\ [Next]_vars => Replays'
<1> SUFFICES ASSUME TypeOK, Replays, Settles', [Next]_vars PROVE Replays'
  OBVIOUS
<1>0. LateKnown'
  BY DEF Settles
<1>1. ASSUME NEW d \in Deliveries, Replay(d) \/ Decide(d) \/ DecideNoOp(d) \/ Fail(d) PROVE Replays'
  <2>1. \A e \in Deliveries :
          \/ step'[e] = step[e]
          \/ step[e] = "missed" /\ step'[e] \in {"decided", "idle"}
          \/ step[e] = "decided" /\ step'[e] = "idle"
    <3>1. CASE Replay(d)
      BY <3>1 DEF Replay
    <3>2. CASE Decide(d) \/ DecideNoOp(d)
      BY <3>2 DEF Decide, DecideNoOp, Goes, TypeOK
    <3>3. CASE Fail(d)
      BY <3>3 DEF Fail, Goes, TypeOK
    <3>4. QED
      BY <1>1, <3>1, <3>2, <3>3
  <2>2. commits' = commits /\ records' = records /\ shaken' = shaken
    BY <1>1 DEF Replay, Decide, DecideNoOp, Fail, Sent
  <2>3. QED
    BY <1>0, <2>1, <2>2, ReplaysQuietly DEF Live
<1>2. ASSUME NEW d \in Deliveries, MissUnread(d) \/ TimeOut(d) \/ Forget(d) PROVE Replays'
  <2>1. \A e \in Deliveries : step'[e] = step[e] \/ e = d
    BY <1>2 DEF MissUnread, TimeOut, Forget, Goes, TypeOK
  <2>2. commits' = commits /\ records' = records /\ shaken' = shaken \cup {Key[d]}
    BY <1>2 DEF MissUnread, Sent, TimeOut, Forget, Shake
  <2>3. QED
    BY <1>0, <2>1, <2>2, ReplaysQuietly DEF Live
<1>3. ASSUME NEW d \in Deliveries, Remember(d) PROVE Replays'
  <2>1. \A e \in Deliveries : step'[e] = step[e] \/ (e = d /\ step[d] = "published" /\ step'[d] = "idle")
    BY <1>3 DEF Remember, Goes, TypeOK
  <2>2. Live(Key[d])' /\ \A k \in Keys \ {Key[d]} : records'[k] = records[k]
    BY <1>3, TypeKey DEF Remember, Live, TypeOK
  <2>3. commits' = commits /\ shaken' = shaken
    BY <1>3 DEF Remember
  <2>4. \A k \in Keys : Live(k) => Live(k)'
    BY <2>2 DEF Live
  <2>5. QED
    BY <1>0, <2>1, <2>2, <2>3, <2>4, ReplaysQuietly
<1>4. CASE Crash
  <2>1. commits' = commits /\ records' = records /\ shaken \subseteq shaken'
    BY <1>4 DEF Crash
  <2>2. \A d \in Deliveries : step'[d] = "idle" /\ (Busy(d) => Key[d] \in shaken')
    BY <1>4 DEF Crash
  <2>3. QED
    BY <1>0, <2>1, <2>2, ReplaysQuietly DEF Live, Busy
<1>5. ASSUME NEW k \in Keys, Expire(k) \/ Prune(k) PROVE Replays'
  <2>1. commits' = commits /\ step' = step /\ shaken \subseteq shaken'
    BY <1>5 DEF Expire, Prune, Shake
  <2>2. \A l \in Keys \ shaken' : Live(l) => Live(l)'
    BY <1>5 DEF Expire, Prune, Shake, Live, TypeOK
  <2>3. QED
    BY <1>0, <2>1, <2>2, ReplaysQuietly
<1>6. CASE UNCHANGED vars
  BY <1>0, <1>6, ReplaysQuietly DEF vars, Live
<1>7. QED
  BY <1>1, <1>2, <1>3, <1>4, <1>5, <1>6, ReplaysMiss, ReplaysPublish, ReplaysLate DEF Next, Thread

LEMMA ReplaysInit == Init => Replays
<1>1. ASSUME Init, NEW k \in Keys PROVE Single(commits[k], Changes)
  BY <1>1 DEF Init, Single
<1>2. QED
  BY <1>1 DEF Init, Replays, LateKnown, Alone, NothingYet, Remembered, RetryReplays, Busy

\* For every number of deliveries, keys, retries and faults: under a key that no fault
\* and no overlap has hit, one change at most is published, once.
THEOREM RetriesReplay == Spec => []RetryReplays
<1>1. TypeOK /\ Settles /\ Replays /\ [Next]_vars => (TypeOK /\ Settles /\ Replays)'
  BY TypeNext, SettlesNext, ReplaysNext
<1>2. QED
  BY <1>1, TypeInit, SettlesInit, ReplaysInit, PTL DEF Spec, Replays

-----------------------------------------------------------------------------
(* Cleanup: what an apply deletes this tool has disabled, and what it       *)
(* disables was enabled, longer ago than the threshold.  A verdict is about *)
(* a rule as it was read, and is carried out later in another session; so   *)
(* the invariant keeps two things apart.  Of every rule, live, read or kept *)
(* in the journal: a stamp that no person has crossed is that of a disable  *)
(* by the tool, and dates do not run ahead.  Of every apply under way: what *)
(* it read was worth its verdict on the day it was read.                    *)

Days == Nat \cup {None}

Overrides == Pins \cup {None}

\* A rule as the server and the tool describe it.
Rule ==
    [on : BOOLEAN, hit : Nat, modified : Nat, stamp : Days, pin1 : Overrides, pin2 : Overrides,
     who : {"person", "tool", "revert"}, since : Nat, stale : BOOLEAN]

\* A stamp that no person has crossed is that of the tool's disable, which is still in force.
Stamped(r) == r.stamp # None /\ ~r.stale => ~r.on /\ r.who = "tool" /\ r.since = r.stamp

\* A change of a rule's state is a change of the rule.
Dated(r, day) == r.since <= r.modified /\ r.modified <= day

Sound(r, day) == r \in Rule /\ Stamped(r) /\ Dated(r, day)

\* What an apply has read: live rules, with the verdict on each.
Reading == [uid : Uids, want : {"disable", "delete"}, was : Rule]

Judged(x, day) ==
    /\ Sound(x.was, day)
    /\ x.want = "disable" =>
          x.was.on /\ LastHitTime(x.was) + Threshold(x.was.pin1, DisableAfter) < day
    /\ x.want = "delete" =>
          x.was.stamp # None /\ x.was.stamp + Threshold(x.was.pin2, DeleteAfter) < day

\* An entry puts back what was read, without a stamp of a disable that it undoes.
Undoes(e) ==
    /\ e.uid \in Uids
    /\ e.op = "enable" =>
          /\ e.back.pin1 \in Overrides /\ e.back.pin2 \in Overrides
          /\ e.back.stamp \in Days /\ e.back.stale \in BOOLEAN
          /\ e.back.stamp # None => e.back.stale
    /\ e.op = "recreate" => e.back \in Rule /\ e.back.stamp = None

RulesSound ==
    /\ rule \in [Uids -> Rule \cup {None}]
    /\ \A u \in LiveRules : Sound(rule[u], now)

JobsSound ==
    /\ job \in [Jobs -> [at : {"idle", "read", "record"}, publish : BOOLEAN, day : Nat,
                         fresh : SUBSET Reading]]
    /\ \A j \in Jobs : job[j].day <= now /\ \A x \in job[j].fresh : Judged(x, job[j].day)

PlanSound == plan \subseteq [uid : Uids, want : {"disable", "delete"}]

JournalSound == \A e \in journal : Undoes(e)

CleanupInv ==
    /\ now \in Nat /\ PlanSound /\ RulesSound /\ JobsSound /\ JournalSound
    /\ DeletesOnlyItsOwn /\ EnabledGetsItsTime

---------------------------------------------------------------------------
(* The verdict *)

\* A rule that is judged worth disabling was enabled, and one that is judged worth deleting
\* carries a stamp, longer ago than its threshold.
LEMMA VerdictJudges ==
    ASSUME NEW r \in Rule, NEW u \in Uids, NEW want \in {"disable", "delete"},
           now \in Nat, Sound(r, now), Verdict(r) = want
    PROVE  Judged([uid |-> u, want |-> want, was |-> r], now)
<1>1. CASE want = "disable"
  <2>1. r.on
    BY <1>1 DEF Verdict, VerdictDisabled
  <2>2. VerdictEnabled(r) = "disable"
    BY <1>1, <2>1 DEF Verdict
  <2>3. LastHitTime(r) + Threshold(r.pin1, DisableAfter) < now
    BY <2>2 DEF VerdictEnabled
  <2> QED
    BY <1>1, <2>1, <2>3 DEF Judged
<1>2. CASE want = "delete"
  <2>1. ~r.on
    BY <1>2 DEF Verdict, VerdictEnabled
  <2>2. VerdictDisabled(r) = "delete"
    BY <1>2, <2>1 DEF Verdict
  <2>3. r.stamp # None /\ r.stamp + Threshold(r.pin2, DeleteAfter) < now
    BY <2>2 DEF VerdictDisabled
  <2> QED
    BY <1>2, <2>3 DEF Judged
<1> QED
  BY <1>1, <1>2

\* The verdict that was right about the rule that was read puts the change that made it so
\* before the threshold.
LEMMA DisableWaited ==
    ASSUME NEW x \in Reading, NEW day \in Nat, Judged(x, day), x.want = "disable"
    PROVE  x.was.since + Threshold(x.was.pin1, DisableAfter) < day
<1> DEFINE days == Threshold(x.was.pin1, DisableAfter)
<1>1. x.was \in Rule /\ x.was.since \in Nat /\ x.was.modified \in Nat /\ x.was.hit \in Nat
  BY DEF Reading, Rule
<1>2. x.was.pin1 \in Pins \cup {None}
  BY <1>1 DEF Rule, Overrides
<1>3. days \in Int
  BY <1>2, ThresholdsAssumption, PinsAssumption DEF Threshold, Never, Invalid
<1>4. x.was.since <= x.was.modified
  BY DEF Judged, Sound, Dated
<1>5. x.was.modified <= LastHitTime(x.was) /\ LastHitTime(x.was) \in Nat
  BY <1>1 DEF LastHitTime
<1>6. LastHitTime(x.was) + days < day
  BY DEF Judged
<1> HIDE DEF days
<1> QED
  BY <1>1, <1>3, <1>4, <1>5, <1>6 DEF days

LEMMA DeleteWaited ==
    ASSUME NEW x \in Reading, NEW day \in Nat, Judged(x, day), x.want = "delete", ~x.was.stale
    PROVE  x.was.who = "tool" /\ x.was.since + Threshold(x.was.pin2, DeleteAfter) < day
<1>1. x.was.stamp # None /\ x.was.stamp + Threshold(x.was.pin2, DeleteAfter) < day
  BY DEF Judged
<1>2. x.was.who = "tool" /\ x.was.since = x.was.stamp
  BY <1>1 DEF Judged, Sound, Stamped
<1> QED
  BY <1>1, <1>2

\* A rule that is sound stays so as the days pass.
LEMMA SoundLater ==
    ASSUME NEW r, NEW day \in Nat, NEW later \in Nat, day <= later, Sound(r, day)
    PROVE  Sound(r, later)
<1>1. r \in Rule /\ r.since \in Nat /\ r.modified \in Nat /\ r.since <= r.modified /\ r.modified <= day
  BY DEF Sound, Dated, Rule
<1>2. r.modified <= later
  BY <1>1
<1> QED
  BY <1>1, <1>2 DEF Sound, Dated

---------------------------------------------------------------------------
(* What each operation makes of one rule *)

\* What people, traffic and the tool make of a rule, field by field.
LEMMA PersonKeepsSound ==
    ASSUME NEW r \in Rule, NEW day \in Nat, Sound(r, day), NEW p \in Pins
    PROVE  /\ Sound([r EXCEPT !.modified = day, !.pin1 = p], day)
           /\ Sound([r EXCEPT !.modified = day, !.pin2 = p], day)
<1>1. r.since <= r.modified /\ r.modified <= day /\ r.since \in Nat /\ r.modified \in Nat
  BY DEF Sound, Dated, Rule
<1>2. r.since <= day
  BY <1>1
<1>3. Stamped(r)
  BY DEF Sound
<1>4. p \in Overrides
  BY DEF Overrides
<1>5. Sound([r EXCEPT !.modified = day, !.pin1 = p], day)
  <2> DEFINE q == [r EXCEPT !.modified = day, !.pin1 = p]
  <2>1. q \in Rule
    BY <1>4 DEF Rule
  <2>2. /\ q.stamp = r.stamp /\ q.stale = r.stale /\ q.on = r.on /\ q.who = r.who
        /\ q.since = r.since /\ q.modified = day
    BY DEF Rule
  <2> HIDE DEF q
  <2>3. Stamped(q) /\ Dated(q, day)
    BY <2>2, <1>2, <1>3 DEF Stamped, Dated
  <2>4. Sound(q, day)
    BY <2>1, <2>3 DEF Sound
  <2> QED
    BY <2>4 DEF q
<1>6. Sound([r EXCEPT !.modified = day, !.pin2 = p], day)
  <2> DEFINE q == [r EXCEPT !.modified = day, !.pin2 = p]
  <2>1. q \in Rule
    BY <1>4 DEF Rule
  <2>2. /\ q.stamp = r.stamp /\ q.stale = r.stale /\ q.on = r.on /\ q.who = r.who
        /\ q.since = r.since /\ q.modified = day
    BY DEF Rule
  <2> HIDE DEF q
  <2>3. Stamped(q) /\ Dated(q, day)
    BY <2>2, <1>2, <1>3 DEF Stamped, Dated
  <2>4. Sound(q, day)
    BY <2>1, <2>3 DEF Sound
  <2> QED
    BY <2>4 DEF q
<1> QED
  BY <1>5, <1>6

LEMMA HitKeepsSound ==
    ASSUME NEW r \in Rule, NEW day \in Nat, Sound(r, day)
    PROVE  Sound([r EXCEPT !.hit = day], day)
<1> DEFINE q == [r EXCEPT !.hit = day]
<1>1. q \in Rule
  BY DEF Rule
<1>2. /\ q.stamp = r.stamp /\ q.stale = r.stale /\ q.on = r.on /\ q.who = r.who
      /\ q.since = r.since /\ q.modified = r.modified
  BY DEF Rule
<1> HIDE DEF q
<1>3. Stamped(q) /\ Dated(q, day)
  BY <1>2 DEF Sound, Stamped, Dated
<1>4. Sound(q, day)
  BY <1>1, <1>3 DEF Sound
<1> QED
  BY <1>4 DEF q

\* A person who enables a rule that carries a stamp has crossed it.
LEMMA ToggleKeepsSound ==
    ASSUME NEW r \in Rule, NEW day \in Nat, Sound(r, day)
    PROVE  Sound([r EXCEPT !.on = ~r.on, !.modified = day, !.who = "person", !.since = day,
                           !.stale = r.stale \/ (~r.on /\ r.stamp # None)], day)
<1> DEFINE q == [r EXCEPT !.on = ~r.on, !.modified = day, !.who = "person", !.since = day,
                          !.stale = r.stale \/ (~r.on /\ r.stamp # None)]
<1>1. q \in Rule
  BY DEF Rule
<1>2. /\ q.stamp = r.stamp /\ q.stale = (r.stale \/ (~r.on /\ r.stamp # None))
      /\ q.since = day /\ q.modified = day
  BY DEF Rule
<1> HIDE DEF q
<1>3. Stamped(r)
  BY DEF Sound
<1>4. ~(q.stamp # None /\ ~q.stale)
  BY <1>2, <1>3 DEF Stamped
<1>5. Sound(q, day)
  BY <1>1, <1>2, <1>4 DEF Sound, Stamped, Dated
<1> QED
  BY <1>5 DEF q

\* The disable of the tool stamps the rule with the day it was planned.
LEMMA DisabledIsSound ==
    ASSUME now \in Nat, NEW x \in Reading, NEW day \in Nat, day <= now, rule[x.uid] \in Rule
    PROVE  Sound(Disabled(x, day), now)
<1> DEFINE q == Disabled(x, day)
<1>1. x.was.pin1 \in Overrides /\ x.was.pin2 \in Overrides
  BY DEF Reading, Rule
<1>2. q \in Rule
  BY <1>1 DEF Disabled, Rule, Days
<1>3. /\ ~q.on /\ q.modified = now /\ q.stamp = day /\ q.since = day
      /\ q.who = "tool" /\ ~q.stale
  BY DEF Disabled, Rule
<1> HIDE DEF q
<1>4. Sound(q, now)
  BY <1>2, <1>3 DEF Sound, Stamped, Dated
<1> QED
  BY <1>4 DEF q

\* The rollback of a disable enables the rule, and leaves it a stamp only where a person had
\* crossed that stamp before.
LEMMA EnabledIsSound ==
    ASSUME NEW r \in Rule, NEW day \in Nat, NEW e, Undoes(e), e.op = "enable"
    PROVE  Sound([r EXCEPT !.on = TRUE, !.modified = day,
                           !.pin1 = e.back.pin1, !.pin2 = e.back.pin2,
                           !.stamp = e.back.stamp, !.stale = e.back.stale,
                           !.who = "revert", !.since = day], day)
<1> DEFINE q == [r EXCEPT !.on = TRUE, !.modified = day,
                          !.pin1 = e.back.pin1, !.pin2 = e.back.pin2,
                          !.stamp = e.back.stamp, !.stale = e.back.stale,
                          !.who = "revert", !.since = day]
<1>1. /\ e.back.pin1 \in Overrides /\ e.back.pin2 \in Overrides
      /\ e.back.stamp \in Days /\ e.back.stale \in BOOLEAN
      /\ e.back.stamp # None => e.back.stale
  BY DEF Undoes
<1>2. q \in Rule
  BY <1>1 DEF Rule
<1>3. q.modified = day /\ q.since = day /\ q.stamp = e.back.stamp /\ q.stale = e.back.stale
  BY DEF Rule
<1> HIDE DEF q
<1>4. ~(q.stamp # None /\ ~q.stale)
  BY <1>1, <1>3
<1>5. Sound(q, day)
  BY <1>2, <1>3, <1>4 DEF Sound, Stamped, Dated
<1> QED
  BY <1>5 DEF q

\* The rollback of a delete makes a rule without a stamp.
LEMMA RecreatedIsSound ==
    ASSUME NEW day \in Nat, NEW e, Undoes(e), e.op = "recreate"
    PROVE  Sound([e.back EXCEPT !.modified = day, !.since = day, !.hit = 0], day)
<1> DEFINE q == [e.back EXCEPT !.modified = day, !.since = day, !.hit = 0]
<1>1. e.back \in Rule /\ e.back.stamp = None
  BY DEF Undoes
<1>2. q \in Rule
  BY <1>1 DEF Rule
<1>3. q.modified = day /\ q.since = day /\ q.stamp = None
  BY <1>1 DEF Rule
<1> HIDE DEF q
<1>4. Sound(q, day)
  BY <1>2, <1>3 DEF Sound, Stamped, Dated
<1> QED
  BY <1>4 DEF q

\* The entry of a rule that was read undoes what the apply did to it: a rule that was enabled
\* had no stamp but one that a person had crossed.
LEMMA InverseUndoes ==
    ASSUME NEW x \in Reading, NEW day, NEW d, Judged(x, d)
    PROVE  Undoes(InverseOf(x, day))
<1>1. x.uid \in Uids /\ x.want \in {"disable", "delete"} /\ x.was \in Rule
  BY DEF Reading
<1>2. CASE x.want = "disable"
  <2>1. InverseOf(x, day) = [op |-> "enable", uid |-> x.uid, back |-> DisableInverse(x, day)]
    BY <1>2 DEF InverseOf
  <2>2. x.was.on /\ Stamped(x.was)
    BY <1>2 DEF Judged, Sound
  <2>3. x.was.stamp # None => x.was.stale
    BY <2>2 DEF Stamped
  <2>4. /\ x.was.pin1 \in Overrides /\ x.was.pin2 \in Overrides
        /\ x.was.stamp \in Days /\ x.was.stale \in BOOLEAN
    BY <1>1 DEF Rule
  <2> QED
    BY <1>1, <2>1, <2>3, <2>4 DEF Undoes, DisableInverse
<1>3. CASE x.want = "delete"
  <2>1. InverseOf(x, day) = [op |-> "recreate", uid |-> x.uid, back |-> RecreateInverse(x)]
    BY <1>3 DEF InverseOf
  <2>2. RecreateInverse(x) \in Rule /\ RecreateInverse(x).stamp = None
    BY <1>1 DEF RecreateInverse, Rule, Days
  <2> QED
    BY <1>1, <2>1, <2>2 DEF Undoes
<1> QED
  BY <1>1, <1>2, <1>3

---------------------------------------------------------------------------
(* The steps *)

LEMMA InitHolds == CleanupInit => CleanupInv
<1> SUFFICES ASSUME CleanupInit PROVE CleanupInv
  OBVIOUS
<1>1. FirstRule \in Rule
  BY DEF FirstRule, Rule, Days, Overrides
<1>2. FirstRule.stamp = None /\ FirstRule.since = 0 /\ FirstRule.modified = 0
  BY DEF FirstRule
<1>3. Sound(FirstRule, 0)
  BY <1>1, <1>2 DEF Sound, Stamped, Dated
<1>4. PICK there \in SUBSET Uids : rule = [u \in Uids |-> IF u \in there THEN FirstRule ELSE None]
  BY DEF CleanupInit
<1>5. now = 0 /\ plan = {} /\ journal = {} /\ cut = {}
  BY DEF CleanupInit
<1>6. RulesSound
  BY <1>1, <1>3, <1>4, <1>5 DEF RulesSound, LiveRules
<1>7. job = [j \in Jobs |-> [at |-> "idle", publish |-> FALSE, day |-> 0, fresh |-> {}]]
  BY DEF CleanupInit
<1>8. JobsSound
  BY <1>5, <1>7 DEF JobsSound
<1> QED
  BY <1>5, <1>6, <1>8 DEF CleanupInv, PlanSound, JournalSound, DeletesOnlyItsOwn, EnabledGetsItsTime

\* A step that changes one rule into a sound one, or into none.
LEMMA OneRule ==
    ASSUME RulesSound, NEW u \in Uids, NEW r, r = None \/ Sound(r, now),
           rule' = [rule EXCEPT ![u] = r], UNCHANGED now
    PROVE  RulesSound'
<1>1. r \in Rule \cup {None}
  BY DEF Sound
<1>2. rule' \in [Uids -> Rule \cup {None}]
  BY <1>1 DEF RulesSound
<1>3. ASSUME NEW v \in Uids, rule'[v] # None PROVE Sound(rule'[v], now)
  BY <1>3 DEF RulesSound, LiveRules
<1> QED
  BY <1>2, <1>3 DEF RulesSound, LiveRules, Sound, Dated

\* What a step leaves alone stays sound.
LEMMA PlanStays == PlanSound /\ UNCHANGED plan => PlanSound'
BY DEF PlanSound

LEMMA JobsStay ==
    ASSUME JobsSound, UNCHANGED job, now \in Nat, now' \in Nat, now <= now'
    PROVE  JobsSound'
<1>1. ASSUME NEW j \in Jobs
      PROVE  job'[j].day <= now' /\ \A x \in job'[j].fresh : Judged(x, job'[j].day)
  <2>1. job[j].day <= now /\ job[j].day \in Nat /\ \A x \in job[j].fresh : Judged(x, job[j].day)
    BY DEF JobsSound
  <2> QED
    BY <2>1
<1> QED
  BY <1>1 DEF JobsSound

LEMMA CutStays ==
    DeletesOnlyItsOwn /\ EnabledGetsItsTime /\ UNCHANGED cut => DeletesOnlyItsOwn' /\ EnabledGetsItsTime'
BY DEF DeletesOnlyItsOwn, EnabledGetsItsTime

LEMMA JournalStays == JournalSound /\ journal' \subseteq journal => JournalSound'
BY DEF JournalSound

\* What people, traffic and installs do touches nothing that an apply or the journal keeps.
LEMMA OutsideStep ==
    ASSUME CleanupInv, RulesSound', UNCHANGED <<now, plan, job, journal, cut>>
    PROVE  CleanupInv'
<1>1. now \in Nat /\ now' = now /\ now <= now'
  BY DEF CleanupInv
<1>2. JobsSound'
  BY <1>1, JobsStay DEF CleanupInv
<1>3. PlanSound' /\ JournalSound' /\ DeletesOnlyItsOwn' /\ EnabledGetsItsTime'
  BY PlanStays, JournalStays, CutStays DEF CleanupInv
<1> QED
  BY <1>1, <1>2, <1>3 DEF CleanupInv

LEMMA ScanStep == ASSUME CleanupInv, Scan PROVE CleanupInv'
<1>1. UNCHANGED <<rule, now, job, journal, cut>>
  BY DEF Scan
<1>2. plan' = {[uid |-> u, want |-> Verdict(rule[u])] :
                  u \in {v \in LiveRules : Verdict(rule[v]) \in {"disable", "delete"}}}
  BY DEF Scan
<1>3. ASSUME NEW p \in plan' PROVE p \in [uid : Uids, want : {"disable", "delete"}]
  <2>1. PICK u \in {v \in LiveRules : Verdict(rule[v]) \in {"disable", "delete"}} :
            p = [uid |-> u, want |-> Verdict(rule[u])]
    BY <1>2
  <2>2. u \in Uids /\ Verdict(rule[u]) \in {"disable", "delete"}
    BY <2>1 DEF LiveRules
  <2> QED
    BY <2>1, <2>2
<1>4. PlanSound'
  BY <1>3 DEF PlanSound
<1>5. RulesSound'
  BY <1>1 DEF CleanupInv, RulesSound, LiveRules, Sound, Dated
<1>6. now \in Nat /\ now' \in Nat /\ now <= now'
  BY <1>1 DEF CleanupInv
<1>7. JobsSound' /\ JournalSound' /\ DeletesOnlyItsOwn' /\ EnabledGetsItsTime'
  BY <1>1, <1>6, JobsStay, JournalStays, CutStays DEF CleanupInv
<1> QED
  BY <1>4, <1>5, <1>6, <1>7 DEF CleanupInv

LEMMA TickStep == ASSUME CleanupInv, Tick PROVE CleanupInv'
<1>1. UNCHANGED <<rule, plan, job, journal, cut>> /\ now' = now + 1
  BY DEF Tick
<1>2. now \in Nat /\ now' \in Nat /\ now <= now'
  BY <1>1 DEF CleanupInv
<1>3. rule' \in [Uids -> Rule \cup {None}]
  BY <1>1 DEF CleanupInv, RulesSound
<1>4. ASSUME NEW u \in Uids, rule'[u] # None PROVE Sound(rule'[u], now')
  <2>1. Sound(rule[u], now)
    BY <1>1, <1>4 DEF CleanupInv, RulesSound, LiveRules
  <2>2. Sound(rule[u], now')
    BY <2>1, <1>2, SoundLater
  <2> QED
    BY <2>2, <1>1
<1>5. RulesSound'
  BY <1>3, <1>4 DEF RulesSound, LiveRules
<1>6. PlanSound' /\ JobsSound' /\ JournalSound' /\ DeletesOnlyItsOwn' /\ EnabledGetsItsTime'
  BY <1>1, <1>2, PlanStays, JobsStay, JournalStays, CutStays DEF CleanupInv
<1> QED
  BY <1>2, <1>5, <1>6 DEF CleanupInv

\* An apply that stops, or goes on to record, keeps what it read or forgets it.
LEMMA JobMoves ==
    ASSUME JobsSound, UNCHANGED now, NEW j \in Jobs,
           NEW new \in [at : {"idle", "read", "record"}, publish : BOOLEAN, day : Nat,
                        fresh : SUBSET Reading],
           new.day <= now, \A x \in new.fresh : Judged(x, new.day),
           job' = [job EXCEPT ![j] = new]
    PROVE  JobsSound'
<1>1. ASSUME NEW k \in Jobs
      PROVE  job'[k].day <= now' /\ \A x \in job'[k].fresh : Judged(x, job'[k].day)
  BY DEF JobsSound
<1>2. job' \in [Jobs -> [at : {"idle", "read", "record"}, publish : BOOLEAN, day : Nat,
                         fresh : SUBSET Reading]]
  BY DEF JobsSound
<1> QED
  BY <1>1, <1>2 DEF JobsSound

LEMMA StopKeeps ==
    ASSUME JobsSound, UNCHANGED now, NEW j \in Jobs, Stop(j)
    PROVE  JobsSound'
<1>1. PICK me : me = job[j]
  OBVIOUS
<1>2. /\ me \in [at : {"idle", "read", "record"}, publish : BOOLEAN, day : Nat, fresh : SUBSET Reading]
      /\ me.day <= now
  BY <1>1 DEF JobsSound
<1> DEFINE new == [me EXCEPT !.at = "idle", !.fresh = {}]
<1>3. job' = [job EXCEPT ![j] = new]
  BY <1>1, <1>2 DEF Stop, JobsSound
<1>4. /\ new \in [at : {"idle", "read", "record"}, publish : BOOLEAN, day : Nat, fresh : SUBSET Reading]
      /\ new.day = me.day /\ new.fresh = {}
  BY <1>2
<1> HIDE DEF new
<1>5. new.day <= now /\ \A x \in new.fresh : Judged(x, new.day)
  BY <1>2, <1>4
<1> QED
  BY <1>3, <1>4, <1>5, JobMoves

LEMMA ReclassifyStep == ASSUME CleanupInv, NEW j \in Jobs, Reclassify(j) PROVE CleanupInv'
<1>1. UNCHANGED <<rule, now, plan, journal, cut>>
  BY DEF Reclassify
<1>2. PICK rows \in SUBSET plan, publish \in BOOLEAN :
         job' = [job EXCEPT ![j] = [at |-> "read", publish |-> publish, day |-> now,
                fresh |-> {[uid |-> x.uid, want |-> x.want, was |-> rule[x.uid]] : x \in Fresh(rows)}]]
  BY DEF Reclassify
<1> DEFINE fresh == {[uid |-> x.uid, want |-> x.want, was |-> rule[x.uid]] : x \in Fresh(rows)}
<1>3. now \in Nat /\ now' = now /\ now <= now
  BY <1>1 DEF CleanupInv
<1>4. ASSUME NEW y \in fresh PROVE y \in Reading /\ Judged(y, now)
  <2>1. PICK x \in Fresh(rows) : y = [uid |-> x.uid, want |-> x.want, was |-> rule[x.uid]]
    OBVIOUS
  <2>2. x \in plan /\ x.uid \in LiveRules /\ Verdict(rule[x.uid]) = x.want
    BY <2>1 DEF Fresh
  <2>3. x.uid \in Uids /\ x.want \in {"disable", "delete"}
    BY <2>2 DEF CleanupInv, PlanSound
  <2>4. rule[x.uid] \in Rule /\ Sound(rule[x.uid], now)
    BY <2>2 DEF CleanupInv, RulesSound, Sound
  <2>5. Judged([uid |-> x.uid, want |-> x.want, was |-> rule[x.uid]], now)
    BY <2>2, <2>3, <2>4, <1>3, VerdictJudges
  <2> QED
    BY <2>1, <2>3, <2>4, <2>5 DEF Reading
<1> HIDE DEF fresh
<1> DEFINE new == [at |-> "read", publish |-> publish, day |-> now, fresh |-> fresh]
<1>5. job' = [job EXCEPT ![j] = new]
  BY <1>2 DEF fresh
<1>6. /\ new \in [at : {"idle", "read", "record"}, publish : BOOLEAN, day : Nat, fresh : SUBSET Reading]
      /\ new.day = now /\ new.fresh = fresh
  BY <1>3, <1>4
<1> HIDE DEF new
<1>7. new.day <= now /\ \A x \in new.fresh : Judged(x, new.day)
  BY <1>3, <1>4, <1>6
<1>8. JobsSound'
  BY <1>1, <1>5, <1>6, <1>7, JobMoves DEF CleanupInv
<1>9. RulesSound'
  BY <1>1 DEF CleanupInv, RulesSound, LiveRules, Sound, Dated
<1>10. PlanSound' /\ JournalSound' /\ DeletesOnlyItsOwn' /\ EnabledGetsItsTime'
  BY <1>1, PlanStays, JournalStays, CutStays DEF CleanupInv
<1> QED
  BY <1>3, <1>8, <1>9, <1>10 DEF CleanupInv

\* The operations of an apply delete a rule or disable it, each from what was read.
LEMMA OperatedIsSound ==
    ASSUME CleanupInv, NEW j \in Jobs, \A x \in job[j].fresh : x.uid \in LiveRules,
           rule' = Operated(job[j].fresh, job[j].day), UNCHANGED now
    PROVE  RulesSound'
<1> DEFINE fresh == job[j].fresh
           day == job[j].day
<1>1. day \in Nat /\ day <= now /\ now \in Nat /\ fresh \subseteq Reading
  BY DEF CleanupInv, JobsSound
<1>2. \A x \in fresh : x.uid \in LiveRules
  OBVIOUS
<1>3. rule' = Operated(fresh, day)
  OBVIOUS
<1> HIDE DEF fresh, day
<1>4. ASSUME NEW u \in Uids
      PROVE  rule'[u] = None \/ rule'[u] = rule[u] \/ Sound(rule'[u], now)
  <2>1. CASE \E x \in fresh : x.uid = u /\ x.want = "delete"
    BY <1>3, <2>1 DEF Operated
  <2>2. CASE ~\E x \in fresh : x.uid = u
    BY <1>3, <2>2 DEF Operated
  <2>3. CASE /\ ~\E x \in fresh : x.uid = u /\ x.want = "delete"
             /\ \E x \in fresh : x.uid = u
    <3> DEFINE x == CHOOSE y \in fresh : y.uid = u
    <3>1. x \in fresh /\ x.uid = u
      BY <2>3
    <3>2. rule'[u] = Disabled(x, day)
      BY <1>3, <2>3 DEF Operated
    <3> HIDE DEF x
    <3>3. x \in Reading /\ x.uid \in LiveRules
      BY <3>1, <1>1, <1>2
    <3>4. rule[x.uid] \in Rule
      BY <3>3 DEF CleanupInv, RulesSound, Sound
    <3> QED
      BY <3>2, <3>3, <3>4, <1>1, DisabledIsSound
  <2> QED
    BY <2>1, <2>2, <2>3
<1>5. ASSUME NEW u \in Uids PROVE rule'[u] \in Rule \cup {None} /\ (rule'[u] # None => Sound(rule'[u], now))
  <2>1. rule[u] \in Rule \cup {None} /\ (rule[u] # None => Sound(rule[u], now))
    BY DEF CleanupInv, RulesSound, LiveRules
  <2> QED
    BY <2>1, <1>4 DEF Sound
<1>6. rule' = [u \in Uids |-> rule'[u]]
  BY <1>3 DEF Operated
<1>7. rule' \in [Uids -> Rule \cup {None}]
  BY <1>5, <1>6
<1> QED
  BY <1>5, <1>7 DEF RulesSound, LiveRules

\* What the apply cuts was read and judged, and where the rule is as it was read the verdict
\* is about this rule.
LEMMA CutIsDue ==
    ASSUME CleanupInv, NEW j \in Jobs, cut' = Cut(j)
    PROVE  DeletesOnlyItsOwn' /\ EnabledGetsItsTime'
<1> DEFINE fresh == job[j].fresh
           day == job[j].day
<1>1. day \in Nat /\ fresh \subseteq Reading /\ \A x \in fresh : Judged(x, day)
  BY DEF CleanupInv, JobsSound
<1>2. cut' = {[op |-> x.want, rule |-> rule[x.uid], undisturbed |-> rule[x.uid] = x.was, day |-> day] :
                  x \in fresh}
  BY DEF Cut
<1> HIDE DEF fresh, day
<1>3. ASSUME NEW c \in cut', c.undisturbed
      PROVE  \E x \in fresh : c.op = x.want /\ c.rule = x.was /\ c.day = day
  <2>1. PICK x \in fresh :
           c = [op |-> x.want, rule |-> rule[x.uid], undisturbed |-> rule[x.uid] = x.was, day |-> day]
    BY <1>2
  <2>2. rule[x.uid] = x.was
    BY <2>1, <1>3
  <2> QED
    BY <2>1, <2>2
<1>4. ASSUME NEW c \in cut', c.op = "delete", c.undisturbed, ~c.rule.stale
      PROVE  c.rule.who = "tool" /\ c.rule.since + Threshold(c.rule.pin2, DeleteAfter) < c.day
  <2>1. PICK x \in fresh : c.op = x.want /\ c.rule = x.was /\ c.day = day
    BY <1>3, <1>4
  <2>2. x \in Reading /\ Judged(x, day) /\ x.want = "delete" /\ ~x.was.stale
    BY <2>1, <1>1, <1>4
  <2> QED
    BY <2>1, <2>2, <1>1, DeleteWaited
<1>5. ASSUME NEW c \in cut', c.op = "disable", c.undisturbed
      PROVE  c.rule.since + Threshold(c.rule.pin1, DisableAfter) < c.day
  <2>1. PICK x \in fresh : c.op = x.want /\ c.rule = x.was /\ c.day = day
    BY <1>3, <1>5
  <2>2. x \in Reading /\ Judged(x, day) /\ x.want = "disable"
    BY <2>1, <1>1, <1>5
  <2> QED
    BY <2>1, <2>2, <1>1, DisableWaited
<1>6. DeletesOnlyItsOwn'
  BY <1>4 DEF DeletesOnlyItsOwn
<1>7. EnabledGetsItsTime'
  BY <1>5 DEF EnabledGetsItsTime
<1> QED
  BY <1>6, <1>7

LEMMA CommitStep == ASSUME CleanupInv, NEW j \in Jobs, Commit(j) PROVE CleanupInv'
<1>1. UNCHANGED <<now, plan, journal>>
  BY DEF Commit
<1>2. now \in Nat /\ now' = now /\ JobsSound
  BY <1>1 DEF CleanupInv
<1>3. PlanSound' /\ JournalSound'
  BY <1>1, PlanStays, JournalStays DEF CleanupInv
<1>4. JobsSound'
  <2>1. CASE Stop(j)
    BY <2>1, <1>1, <1>2, StopKeeps
  <2>2. CASE job' = [job EXCEPT ![j].at = "record"]
    <3>1. PICK me : me = job[j]
      OBVIOUS
    <3>2. /\ me \in [at : {"idle", "read", "record"}, publish : BOOLEAN, day : Nat, fresh : SUBSET Reading]
          /\ me.day <= now /\ \A x \in me.fresh : Judged(x, me.day)
      BY <3>1, <1>2 DEF JobsSound
    <3> DEFINE new == [me EXCEPT !.at = "record"]
    <3>3. job' = [job EXCEPT ![j] = new]
      BY <2>2, <3>1, <3>2
    <3>4. /\ new \in [at : {"idle", "read", "record"}, publish : BOOLEAN, day : Nat, fresh : SUBSET Reading]
          /\ new.day = me.day /\ new.fresh = me.fresh
      BY <3>2
    <3> HIDE DEF new
    <3>5. new.day <= now /\ \A x \in new.fresh : Judged(x, new.day)
      BY <3>2, <3>4
    <3> QED
      BY <3>3, <3>4, <3>5, <1>1, <1>2, JobMoves
  <2> QED
    BY <2>1, <2>2 DEF Commit
<1>5. CASE UNCHANGED <<rule, cut>>
  <2>1. RulesSound'
    BY <1>2, <1>5 DEF CleanupInv, RulesSound, LiveRules, Sound, Dated
  <2>2. DeletesOnlyItsOwn' /\ EnabledGetsItsTime'
    BY <1>5, CutStays DEF CleanupInv
  <2> QED
    BY <1>2, <1>3, <1>4, <2>1, <2>2 DEF CleanupInv
<1>6. CASE /\ \A x \in job[j].fresh : x.uid \in LiveRules
           /\ rule' = Operated(job[j].fresh, job[j].day)
           /\ cut' = Cut(j)
  <2>1. RulesSound'
    BY <1>2, <1>6, OperatedIsSound
  <2>2. DeletesOnlyItsOwn' /\ EnabledGetsItsTime'
    BY <1>6, CutIsDue
  <2> QED
    BY <1>2, <1>3, <1>4, <2>1, <2>2 DEF CleanupInv
<1> QED
  BY <1>5, <1>6 DEF Commit

LEMMA RecordBatchStep == ASSUME CleanupInv, NEW j \in Jobs, RecordBatch(j) PROVE CleanupInv'
<1>1. UNCHANGED <<rule, now, plan, cut>> /\ Stop(j)
  BY DEF RecordBatch
<1>2. now \in Nat /\ now' = now
  BY <1>1 DEF CleanupInv
<1>3. PICK done \in SUBSET job[j].fresh :
         journal' = journal \cup {InverseOf(x, job[j].day) : x \in done}
  BY DEF RecordBatch
<1>4. ASSUME NEW e \in journal' PROVE Undoes(e)
  <2>1. CASE e \in journal
    BY <2>1 DEF CleanupInv, JournalSound
  <2>2. CASE \E x \in done : e = InverseOf(x, job[j].day)
    <3>1. PICK x \in done : e = InverseOf(x, job[j].day)
      BY <2>2
    <3>2. x \in Reading /\ Judged(x, job[j].day)
      BY DEF CleanupInv, JobsSound
    <3> QED
      BY <3>1, <3>2, InverseUndoes
  <2> QED
    BY <1>3, <2>1, <2>2
<1>5. JournalSound'
  BY <1>4 DEF JournalSound
<1>6. JobsSound'
  BY <1>1, <1>2, StopKeeps DEF CleanupInv
<1>7. RulesSound'
  BY <1>1 DEF CleanupInv, RulesSound, LiveRules, Sound, Dated
<1>8. PlanSound' /\ DeletesOnlyItsOwn' /\ EnabledGetsItsTime'
  BY <1>1, PlanStays, CutStays DEF CleanupInv
<1> QED
  BY <1>2, <1>5, <1>6, <1>7, <1>8 DEF CleanupInv

\* A rollback changes rules, and takes its entry out of the journal.
LEMMA RevertStep ==
    ASSUME CleanupInv, RulesSound', UNCHANGED <<now, plan, job, cut>>, journal' \subseteq journal
    PROVE  CleanupInv'
<1>1. now \in Nat /\ now' = now /\ now <= now'
  BY DEF CleanupInv
<1>2. JobsSound'
  BY <1>1, JobsStay DEF CleanupInv
<1>3. PlanSound' /\ JournalSound' /\ DeletesOnlyItsOwn' /\ EnabledGetsItsTime'
  BY PlanStays, JournalStays, CutStays DEF CleanupInv
<1> QED
  BY <1>1, <1>2, <1>3 DEF CleanupInv

LEMMA RevertDisableStep == ASSUME CleanupInv, NEW e \in journal, RevertDisable(e) PROVE CleanupInv'
<1>1. UNCHANGED <<now, plan, job, cut>> /\ journal' \subseteq journal /\ e.op = "enable" /\ now \in Nat
  BY DEF RevertDisable, CleanupInv
<1>2. Undoes(e)
  BY DEF CleanupInv, JournalSound
<1>3. RulesSound'
  <2>1. CASE e.uid \notin LiveRules
    <3>1. rule' = rule
      BY <2>1 DEF RevertDisable
    <3> QED
      BY <1>1, <3>1 DEF CleanupInv, RulesSound, LiveRules, Sound, Dated
  <2>2. CASE e.uid \in LiveRules
    <3>1. PICK r : r = rule[e.uid]
      OBVIOUS
    <3>2. r \in Rule /\ e.uid \in Uids
      BY <2>2, <3>1 DEF CleanupInv, RulesSound, Sound, LiveRules
    <3> DEFINE new == [r EXCEPT !.on = TRUE, !.modified = now,
                          !.pin1 = e.back.pin1, !.pin2 = e.back.pin2,
                          !.stamp = e.back.stamp, !.stale = e.back.stale,
                          !.who = "revert", !.since = now]
    <3>3. rule' = [rule EXCEPT ![e.uid] = new]
      BY <2>2, <3>1 DEF RevertDisable
    <3>4. Sound(new, now)
      BY <1>1, <1>2, <3>2, EnabledIsSound
    <3> HIDE DEF new
    <3> QED
      BY <1>1, <3>2, <3>3, <3>4, OneRule DEF CleanupInv
  <2> QED
    BY <2>1, <2>2
<1> QED
  BY <1>1, <1>3, RevertStep

LEMMA RevertDeleteStep == ASSUME CleanupInv, NEW e \in journal, RevertDelete(e) PROVE CleanupInv'
<1>1. UNCHANGED <<now, plan, job, cut>> /\ journal' \subseteq journal /\ e.op = "recreate" /\ now \in Nat
  BY DEF RevertDelete, CleanupInv
<1>2. Undoes(e)
  BY DEF CleanupInv, JournalSound
<1> DEFINE new == [e.back EXCEPT !.modified = now, !.since = now, !.hit = 0]
<1>3. PICK u \in Uids : rule' = [rule EXCEPT ![u] = new]
  BY DEF RevertDelete
<1>4. Sound(new, now)
  BY <1>1, <1>2, RecreatedIsSound
<1> HIDE DEF new
<1>5. RulesSound'
  BY <1>1, <1>3, <1>4, OneRule DEF CleanupInv
<1> QED
  BY <1>1, <1>5, RevertStep

LEMMA ToggleStep == ASSUME CleanupInv, NEW u \in LiveRules, Toggle(u) PROVE CleanupInv'
<1>1. UNCHANGED <<now, plan, job, journal, cut>> /\ now \in Nat
  BY DEF Toggle, PersonOnly, CleanupInv
<1>2. PICK r : r = rule[u]
  OBVIOUS
<1>3. r \in Rule /\ Sound(r, now) /\ u \in Uids
  BY <1>2 DEF CleanupInv, RulesSound, Sound, LiveRules
<1> DEFINE new == [r EXCEPT !.on = ~r.on, !.modified = now, !.who = "person", !.since = now,
                            !.stale = r.stale \/ (~r.on /\ r.stamp # None)]
<1>4. rule' = [rule EXCEPT ![u] = new]
  BY <1>2, <1>3 DEF Toggle, CleanupInv, RulesSound, Rule
<1>5. Sound(new, now)
  BY <1>1, <1>3, ToggleKeepsSound
<1> HIDE DEF new
<1>6. RulesSound'
  BY <1>1, <1>3, <1>4, <1>5, OneRule DEF CleanupInv
<1> QED
  BY <1>1, <1>6, OutsideStep

LEMMA PinStep == ASSUME CleanupInv, NEW u \in LiveRules, Pin(u) PROVE CleanupInv'
<1>1. UNCHANGED <<now, plan, job, journal, cut>> /\ now \in Nat
  BY DEF Pin, PersonOnly, CleanupInv
<1>2. PICK r : r = rule[u]
  OBVIOUS
<1>3. r \in Rule /\ Sound(r, now) /\ u \in Uids
  BY <1>2 DEF CleanupInv, RulesSound, Sound, LiveRules
<1>4. PICK p \in Pins : \/ rule' = [rule EXCEPT ![u] = [r EXCEPT !.modified = now, !.pin1 = p]]
                        \/ rule' = [rule EXCEPT ![u] = [r EXCEPT !.modified = now, !.pin2 = p]]
  BY <1>2, <1>3 DEF Pin, CleanupInv, RulesSound, Rule
<1>5. /\ Sound([r EXCEPT !.modified = now, !.pin1 = p], now)
      /\ Sound([r EXCEPT !.modified = now, !.pin2 = p], now)
  BY <1>1, <1>3, PersonKeepsSound
<1>6. \E new : Sound(new, now) /\ rule' = [rule EXCEPT ![u] = new]
  BY <1>4, <1>5
<1>7. RulesSound'
  BY <1>1, <1>3, <1>6, OneRule DEF CleanupInv
<1> QED
  BY <1>1, <1>7, OutsideStep

LEMMA HitStep == ASSUME CleanupInv, NEW u \in LiveRules, Hit(u) PROVE CleanupInv'
<1>1. UNCHANGED <<now, plan, job, journal, cut>> /\ now \in Nat
  BY DEF Hit, PersonOnly, CleanupInv
<1>2. PICK r : r = rule[u]
  OBVIOUS
<1>3. r \in Rule /\ Sound(r, now) /\ u \in Uids
  BY <1>2 DEF CleanupInv, RulesSound, Sound, LiveRules
<1> DEFINE new == [r EXCEPT !.hit = now]
<1>4. rule' = [rule EXCEPT ![u] = new]
  BY <1>2, <1>3 DEF Hit, CleanupInv, RulesSound, Rule
<1>5. Sound(new, now)
  BY <1>1, <1>3, HitKeepsSound
<1> HIDE DEF new
<1>6. RulesSound'
  BY <1>1, <1>3, <1>4, <1>5, OneRule DEF CleanupInv
<1> QED
  BY <1>1, <1>6, OutsideStep

LEMMA RemoveStep == ASSUME CleanupInv, NEW u \in LiveRules, Remove(u) PROVE CleanupInv'
<1>1. UNCHANGED <<now, plan, job, journal, cut>> /\ u \in Uids /\ rule' = [rule EXCEPT ![u] = None]
  BY DEF Remove, PersonOnly, LiveRules
<1>2. RulesSound'
  BY <1>1, OneRule DEF CleanupInv
<1> QED
  BY <1>1, <1>2, OutsideStep

LEMMA InstallStep == ASSUME CleanupInv, NEW t \in Targets, Install(t) PROVE CleanupInv'
<1>1. UNCHANGED <<rule, now, plan, job, journal, cut>>
  BY DEF Install
<1>2. RulesSound'
  BY <1>1 DEF CleanupInv, RulesSound, LiveRules, Sound, Dated
<1> QED
  BY <1>1, <1>2, OutsideStep

LEMMA NextHolds == CleanupInv /\ [CleanupNext]_cleanupVars => CleanupInv'
<1> SUFFICES ASSUME CleanupInv, [CleanupNext]_cleanupVars PROVE CleanupInv'
  OBVIOUS
<1>1. CASE UNCHANGED cleanupVars
  <2>1. UNCHANGED <<rule, now, plan, job, journal, cut>>
    BY <1>1 DEF cleanupVars
  <2>2. RulesSound'
    BY <2>1 DEF CleanupInv, RulesSound, LiveRules, Sound, Dated
  <2> QED
    BY <2>1, <2>2, OutsideStep
<1>2. CASE Scan
  BY <1>2, ScanStep
<1>3. CASE Tick
  BY <1>3, TickStep
<1>4. ASSUME NEW j \in Jobs, Reclassify(j) \/ Commit(j) \/ RecordBatch(j) PROVE CleanupInv'
  BY <1>4, ReclassifyStep, CommitStep, RecordBatchStep
<1>5. ASSUME NEW e \in journal, RevertDisable(e) \/ RevertDelete(e) PROVE CleanupInv'
  BY <1>5, RevertDisableStep, RevertDeleteStep
<1>6. ASSUME NEW u \in LiveRules, Toggle(u) \/ Pin(u) \/ Remove(u) \/ Hit(u) PROVE CleanupInv'
  BY <1>6, ToggleStep, PinStep, RemoveStep, HitStep
<1>7. ASSUME NEW t \in Targets, Install(t) PROVE CleanupInv'
  BY <1>7, InstallStep
<1> QED
  BY <1>1, <1>2, <1>3, <1>4, <1>5, <1>6, <1>7 DEF CleanupNext

---------------------------------------------------------------------------
(* The results *)

\* Every state is sound: the stamps of the rules, what the applies have read, the journal.
THEOREM CleanupInvariant == CleanupSpec => []CleanupInv
<1>1. CleanupInit => CleanupInv
  BY InitHolds
<1>2. CleanupInv /\ [CleanupNext]_cleanupVars => CleanupInv'
  BY NextHolds
<1> QED
  BY <1>1, <1>2, PTL DEF CleanupSpec

\* classify_rule(), build_ops() and the inverses of the journal: a rule that is deleted, and
\* is as it was read, was disabled by this tool and has been longer than its threshold.
THEOREM DeletesOwn == CleanupSpec => []DeletesOnlyItsOwn
<1>1. CleanupInv => DeletesOnlyItsOwn
  BY DEF CleanupInv
<1> QED
  BY <1>1, CleanupInvariant, PTL

\* The same of a disable: the rule was enabled, by a person or by a rollback, longer ago than
\* its threshold.
THEOREM EnabledTime == CleanupSpec => []EnabledGetsItsTime
<1>1. CleanupInv => EnabledGetsItsTime
  BY DEF CleanupInv
<1> QED
  BY <1>1, CleanupInvariant, PTL
=============================================================================
