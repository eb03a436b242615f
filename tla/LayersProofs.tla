---------------------------- MODULE LayersProofs ----------------------------
(***************************************************************************)
(* Proofs about the layers PolicyPilot holds: those it reads of a server    *)
(* and serves from its cache (PolicyCache), for every number of layers,     *)
(* threads, revisions and clock ticks and every setting of the window and   *)
(* the maximum age; and those it pushes to gateways (LayerPush), for any    *)
(* pushes at once, edits, failures and restarts.                            *)
(***************************************************************************)
EXTENDS PolicyCache, LayerPush, TLAPS

-----------------------------------------------------------------------------
(* PolicyCache. *)

\* A busy reader has a whole call in its hand.
LEMMA BusyReading ==
    ASSUME TypeOK, NEW d \in Readers, Busy(d)
    PROVE  reader[d] \in Reading
  BY DEF TypeOK, Busy, IdleReader

\* The server, the clock and PolicyPilot's publish leave the readers' lock alone.
LEMMA TypeAround ==
    ASSUME TypeOK, PublishElsewhere \/ Publish \/ Invalidate \/ Return \/ Tick
    PROVE  TypeOK'
<1>0. NoAnswer \in Answer
  BY CacheAssumption DEF NoAnswer, Answer, Revs, Time, Tokens
<1>1. CASE PublishElsewhere
  BY <1>0, <1>1, CacheAssumption DEF PublishElsewhere, Published, Silent, TypeOK, Busy, Revs, Time
<1>2. CASE Publish
  <2>1. rev + 1 \in Revs
    BY <1>2, CacheAssumption DEF Publish, Published, TypeOK, Revs
  <2>2. write' \in Writing
    BY <1>2, <2>1 DEF Publish, Writing
  <2>3. QED
    BY <1>0, <1>2, <2>1, <2>2, CacheAssumption DEF Publish, Published, Silent, TypeOK, Busy
<1>3. ASSUME Crossed PROVE /\ reader' \in [Readers -> Reading \cup {IdleReader}]
                           /\ \A d \in Readers : Busy(d)' <=> Busy(d)
  <2>1. \A d \in Readers : Busy(d) => /\ [reader[d] EXCEPT !.crossed = TRUE] \in Reading
                                      /\ [reader[d] EXCEPT !.crossed = TRUE].pc = reader[d].pc
    <3>1. ASSUME NEW r \in Reading
          PROVE  [r EXCEPT !.crossed = TRUE] \in Reading /\ [r EXCEPT !.crossed = TRUE].pc = r.pc
      BY DEF Reading
    <3>2. QED
      BY <3>1, BusyReading
  <2>2. \A d \in Readers : reader'[d] = IF Busy(d) THEN [reader[d] EXCEPT !.crossed = TRUE] ELSE reader[d]
    BY <1>3 DEF Crossed
  <2>3. reader' = [d \in Readers |-> IF Busy(d) THEN [reader[d] EXCEPT !.crossed = TRUE] ELSE reader[d]]
    BY <1>3 DEF Crossed
  <2>4. QED
    BY <2>1, <2>2, <2>3 DEF TypeOK, Busy
<1>4. CASE Invalidate
  <2>1. write' \in Writing
    BY <1>4 DEF Invalidate, TypeOK, Writing, NoWrite
  <2>2. cache' \in [Layers -> Entry \cup {NoEntry}]
    BY <1>4 DEF Invalidate, Dropped
  <2>3. QED
    BY <1>0, <1>3, <1>4, <2>1, <2>2 DEF Invalidate, Silent, TypeOK
<1>5. CASE Return
  <2>1. known' \in Revs
    BY <1>5 DEF Return, TypeOK, Writing, NoWrite
  <2>2. cache' \in [Layers -> Entry \cup {NoEntry}]
    BY <1>5 DEF Return, Dropped, TypeOK
  <2>3. /\ reader' \in [Readers -> Reading \cup {IdleReader}]
        /\ \A d \in Readers : Busy(d)' <=> Busy(d)
    BY <1>3, <1>5 DEF Return, TypeOK, Busy
  <2>4. QED
    BY <1>0, <1>5, <2>1, <2>2, <2>3 DEF Return, Silent, TypeOK
<1>6. CASE Tick
  BY <1>0, <1>6, CacheAssumption DEF Tick, Silent, TypeOK, Busy, Time
<1>7. QED
  BY <1>1, <1>2, <1>4, <1>5, <1>6

\* A reader that finishes gives the lock back.
LEMMA TypeFinished ==
    ASSUME TypeOK, NEW d \in Readers, Busy(d), Finished(d)
    PROVE  /\ reader' \in [Readers -> Reading \cup {IdleReader}]
           /\ held' \in Readers \cup {Nobody}
           /\ shared => \A e \in Readers : Busy(e)' <=> held' = e
<1>1. reader' = [reader EXCEPT ![d] = IdleReader] /\ held' = IF held = d THEN Nobody ELSE held
  BY DEF Finished, Freed
<1>2. \A e \in Readers : reader'[e] = IF e = d THEN IdleReader ELSE reader[e]
  BY <1>1 DEF TypeOK
<1>3. QED
  BY <1>1, <1>2, CacheAssumption DEF TypeOK, Busy, IdleReader

\* A reader that goes on keeps it.
LEMMA TypeOnward ==
    ASSUME TypeOK, NEW d \in Readers, Busy(d), NEW r \in Reading,
           reader' = [reader EXCEPT ![d] = r], held' = held
    PROVE  /\ reader' \in [Readers -> Reading \cup {IdleReader}]
           /\ shared => \A e \in Readers : Busy(e)' <=> held' = e
  BY DEF TypeOK, Busy, Reading

\* What a reader serves and keeps is well formed.
LEMMA TypeRead ==
    ASSUME TypeOK, NEW d \in Readers, Read(d)
    PROVE  TypeOK'
<1>0. NoAnswer \in Answer
  BY CacheAssumption DEF NoAnswer, Answer, Revs, Time, Tokens
<1>1. ASSUME NEW l \in Layers, Hit(d, l) PROVE TypeOK'
  <2>1. cache[l] \in Entry
    BY <1>1 DEF Hit, Young, TypeOK
  <2>2. served' \in Answer
    BY <1>1, <2>1 DEF Hit, Serve, Entry, Answer, TypeOK
  <2>3. QED
    BY <1>1, <2>2 DEF Hit, TypeOK, Busy
<1>2. ASSUME NEW l \in Layers, Look(d, l) PROVE TypeOK'
  <2> DEFINE r == [pc |-> "looked", layer |-> l, start |-> now, known |-> known,
                   seen |-> cache[l], token |-> NoToken, rules |-> 1, crossed |-> FALSE]
  <2>1. r \in Reading
    BY <1>2, CacheAssumption DEF TypeOK, Reading, Tokens, Revs
  <2>2. reader' = [reader EXCEPT ![d] = r] /\ r.pc # "idle"
    BY <1>2 DEF Look
  <2> HIDE DEF r
  <2>3. \A e \in Readers : reader'[e] = IF e = d THEN r ELSE reader[e]
    BY <2>2 DEF TypeOK
  <2>4. shared => \A e \in Readers : Busy(e)' <=> held' = e
    BY <1>2, <2>2, <2>3, CacheAssumption DEF TypeOK, Look, Free, Busy
  <2>5. QED
    BY <1>0, <1>2, <2>1, <2>2, <2>3, <2>4 DEF TypeOK, Look, Silent
<1>3. CASE Confirm(d)
  <2>1. Busy(d) /\ reader[d] \in Reading /\ reader[d].seen \in Entry
    BY <1>3, BusyReading DEF Confirm, Busy, Reading
  <2>2. cache' \in [Layers -> Entry \cup {NoEntry}]
    <3>1. ASSUME InCache(d) PROVE [cache[reader[d].layer] EXCEPT !.at = reader[d].start] \in Entry
      BY <2>1, <3>1 DEF InCache, TypeOK, Reading, Entry
    <3>2. QED
      BY <1>3, <2>1, <3>1 DEF Confirm, TypeOK, Reading
  <2>3. served' \in Answer
    BY <1>3, <2>1 DEF Confirm, Serve, Entry, Answer, Reading
  <2>4. QED
    BY <1>3, <2>1, <2>2, <2>3, TypeFinished DEF Confirm, TypeOK
<1>4. CASE Ask(d)
  <2>1. Busy(d) /\ reader[d] \in Reading
    BY <1>4, BusyReading DEF Ask, Busy
  <2>2. PICK t \in Tokens : reader' = [reader EXCEPT ![d] = [reader[d] EXCEPT !.pc = "asked", !.token = t]]
    BY <1>4, <2>1 DEF Ask, TypeOK, Tokens
  <2>3. [reader[d] EXCEPT !.pc = "asked", !.token = t] \in Reading
    BY <2>1 DEF Reading
  <2>4. QED
    BY <1>0, <1>4, <2>1, <2>2, <2>3, TypeOnward DEF Ask, Silent, TypeOK
<1>5. CASE Pull(d)
  <2>1. Busy(d) /\ reader[d] \in Reading
    BY <1>5, BusyReading DEF Pull, Busy
  <2>2. reader' = [reader EXCEPT ![d] = [reader[d] EXCEPT !.pc = "pulled", !.rules = rev]]
    BY <1>5, <2>1 DEF Pull, TypeOK
  <2>3. [reader[d] EXCEPT !.pc = "pulled", !.rules = rev] \in Reading
    BY <2>1 DEF Reading, TypeOK
  <2>4. QED
    BY <1>0, <1>5, <2>1, <2>2, <2>3, TypeOnward DEF Pull, Silent, TypeOK
<1>6. CASE Stamp(d)
  <2>1. Busy(d) /\ reader[d] \in Reading
    BY <1>6, BusyReading DEF Stamp, Busy
  <2>2. PICK t \in Tokens : reader' = [reader EXCEPT ![d] = [reader[d] EXCEPT !.pc = "stamped", !.token = t]]
    BY <1>6, <2>1 DEF Stamp, TypeOK, Tokens
  <2>3. [reader[d] EXCEPT !.pc = "stamped", !.token = t] \in Reading
    BY <2>1 DEF Reading
  <2>4. QED
    BY <1>0, <1>6, <2>1, <2>2, <2>3, TypeOnward DEF Stamp, Silent, TypeOK
<1>7. CASE Store(d)
  <2>1. Busy(d) /\ reader[d] \in Reading
    BY <1>7, BusyReading DEF Store
  <2>2. cache' \in [Layers -> Entry \cup {NoEntry}] /\ served' \in Answer
    BY <1>7, <2>1 DEF Store, Serve, Entry, Answer, Reading, TypeOK
  <2>3. QED
    BY <1>7, <2>1, <2>2, TypeFinished DEF Store, TypeOK
<1>8. CASE Error(d)
  BY <1>0, <1>8, TypeFinished DEF Error, Silent, TypeOK
<1>9. QED
  BY <1>1, <1>2, <1>3, <1>4, <1>5, <1>6, <1>7, <1>8 DEF Read

LEMMA TypeInit == Init => TypeOK
  BY CacheAssumption DEF Init, TypeOK, NoAnswer, Answer, Revs, Time, Tokens, NoWrite, Busy, IdleReader

LEMMA TypeNext == TypeOK /\ [Next]_vars => TypeOK'
<1>1. TypeOK /\ UNCHANGED vars => TypeOK'
  BY DEF vars, TypeOK, Busy
<1>2. QED
  BY <1>1, TypeAround, TypeRead DEF Next

\* For every size of the system: every variable is of its type, and a shared read
\* session's lock is held by the one thread that is reading.
THEOREM TypeCorrect == Spec => []TypeOK
  BY TypeInit, TypeNext, PTL DEF Spec

-----------------------------------------------------------------------------
(* How old an answer may be.  What the cache keeps is never ahead of the      *)
(* server, and a revision that neither its rules nor its token reach was       *)
(* published after the time its age counts from: an entry's age counts from    *)
(* the start of the call that pulled or confirmed it, never from its end.      *)

\* Revisions the rules of e were read before, and its token was told before, came later.
Covers(e, since) == \A r \in Revs : r <= rev /\ ~Reaches(e, r) => since <= when[r]

\* Nothing lies in the future.
Past ==
    /\ \A r \in Revs : r <= rev => when[r] <= now
    /\ \A d \in Readers : Busy(d) => reader[d].start <= now

EntriesCover == \A l \in Layers : cache[l] # NoEntry => cache[l].at <= now /\ Covers(cache[l], cache[l].at)

HasRules(d) == reader[d].pc \in {"pulled", "stamped"}

PullsCover ==
    \A d \in Readers : HasRules(d) => \A r \in Revs : r <= rev /\ reader[d].rules < r => reader[d].start <= when[r]

Recent == Past /\ EntriesCover /\ PullsCover /\ AnswersAreRecent

\* A publish comes now, which is not before anything that has begun.
LEMMA CoversKept ==
    ASSUME TypeOK, NEW e, NEW since \in Time, Covers(e, since), since <= now,
           (rev' = rev /\ when' = when) \/ Published
    PROVE  \A r \in Revs : r <= rev' /\ ~Reaches(e, r) => since <= when'[r]
<1>1. CASE rev' = rev /\ when' = when
  BY <1>1 DEF Covers
<1>2. CASE Published
  <2>1. ASSUME NEW r \in Revs, r <= rev', ~Reaches(e, r) PROVE since <= when'[r]
    <3>1. CASE r = rev + 1
      BY <1>2, <3>1 DEF Published, TypeOK
    <3>2. CASE r # rev + 1
      <4>1. r <= rev /\ when'[r] = when[r]
        BY <1>2, <2>1, <3>2 DEF Published, TypeOK, Revs
      <4>2. QED
        BY <2>1, <4>1 DEF Covers
    <3>3. QED
      BY <3>1, <3>2
  <2>2. QED
    BY <2>1
<1>3. QED
  BY <1>1, <1>2

\* Where nothing is answered, nothing is missed.
LEMMA SilentIsRecent == ASSUME TypeOK', Silent PROVE AnswersAreRecent'
<1>1. served'.start = 0
  BY DEF Silent, NoAnswer
<1>2. \A r \in Revs : ~(when'[r] < 0)
  BY DEF TypeOK, Time
<1>3. QED
  BY <1>1, <1>2 DEF AnswersAreRecent, Due

\* What the steps around the readers leave of a call, the cache and the clock.
LEMMA AroundShape ==
    ASSUME TypeOK, PublishElsewhere \/ Publish \/ Invalidate \/ Return \/ Tick
    PROVE  /\ \A d \in Readers : Busy(d)' =>
                /\ Busy(d)
                /\ reader'[d].pc = reader[d].pc /\ reader'[d].layer = reader[d].layer
                /\ reader'[d].start = reader[d].start /\ reader'[d].known = reader[d].known
                /\ reader'[d].seen = reader[d].seen /\ reader'[d].rules = reader[d].rules
                /\ ~reader'[d].crossed => ~reader[d].crossed
           /\ \A l \in Layers : cache'[l] # NoEntry => cache'[l] = cache[l]
           /\ (rev' = rev /\ when' = when) \/ Published
           /\ now <= now' /\ shared' = shared
           /\ Silent
<1>1. \A r \in Reading : LET q == [r EXCEPT !.crossed = TRUE] IN
         /\ q.pc = r.pc /\ q.layer = r.layer /\ q.start = r.start /\ q.known = r.known
         /\ q.seen = r.seen /\ q.rules = r.rules /\ q.crossed
  BY DEF Reading
<1>2. ASSUME Crossed, NEW d \in Readers, Busy(d)'
      PROVE  /\ Busy(d)
             /\ reader'[d].pc = reader[d].pc /\ reader'[d].layer = reader[d].layer
             /\ reader'[d].start = reader[d].start /\ reader'[d].known = reader[d].known
             /\ reader'[d].seen = reader[d].seen /\ reader'[d].rules = reader[d].rules
             /\ reader'[d].crossed
  <2>1. reader'[d] = IF Busy(d) THEN [reader[d] EXCEPT !.crossed = TRUE] ELSE reader[d]
    BY <1>2 DEF Crossed
  <2>2. Busy(d)
    BY <1>2, <2>1 DEF Busy
  <2>3. QED
    BY <1>1, <2>1, <2>2, BusyReading
<1>3. CASE PublishElsewhere \/ Publish
  BY <1>3 DEF PublishElsewhere, Publish, Busy, TypeOK, Time
<1>4. CASE Invalidate
  BY <1>2, <1>4 DEF Invalidate, Dropped, TypeOK, Time
<1>5. CASE Return
  <2>1. CASE Dropped /\ Crossed
    BY <1>2, <1>5, <2>1 DEF Return, Dropped, TypeOK, Time
  <2>2. CASE UNCHANGED <<cache, reader>>
    BY <1>5, <2>2 DEF Return, Busy, TypeOK, Time
  <2>3. QED
    BY <1>5, <2>1, <2>2 DEF Return
<1>6. CASE Tick
  BY <1>6 DEF Tick, Busy, TypeOK, Time
<1>7. QED
  BY <1>3, <1>4, <1>5, <1>6

LEMMA RecentAround ==
    ASSUME TypeOK, TypeOK', Recent, PublishElsewhere \/ Publish \/ Invalidate \/ Return \/ Tick
    PROVE  Recent'
<1>1. Past'
  <2>1. \A r \in Revs : r <= rev' => when'[r] <= now'
    <3>1. CASE rev' = rev /\ when' = when
      BY <3>1, AroundShape DEF Recent, Past, TypeOK, Time
    <3>2. CASE Published
      BY <3>2, AroundShape DEF Recent, Past, Published, TypeOK, Revs, Time
    <3>3. QED
      BY <3>1, <3>2, AroundShape
  <2>2. \A d \in Readers : Busy(d)' => reader'[d].start <= now'
    BY AroundShape, BusyReading DEF Recent, Past, Reading, TypeOK, Time
  <2>3. QED
    BY <2>1, <2>2 DEF Past
<1>2. EntriesCover'
  <2>1. ASSUME NEW l \in Layers, cache'[l] # NoEntry
        PROVE  /\ cache'[l].at <= now'
               /\ \A r \in Revs : r <= rev' /\ ~Reaches(cache'[l], r) => cache'[l].at <= when'[r]
    <3>1. cache'[l] = cache[l] /\ cache[l] \in Entry
      BY <2>1, AroundShape DEF TypeOK
    <3>2. cache[l].at \in Time /\ cache[l].at <= now /\ Covers(cache[l], cache[l].at)
      BY <2>1, <3>1 DEF Recent, EntriesCover, Entry
    <3>3. \A r \in Revs : r <= rev' /\ ~Reaches(cache[l], r) => cache[l].at <= when'[r]
      BY <3>2, CoversKept, AroundShape
    <3>4. QED
      BY <3>1, <3>2, <3>3, AroundShape DEF TypeOK, Time
  <2>2. QED
    BY <2>1 DEF EntriesCover, Covers, Reaches
<1>3. PullsCover'
  <2>1. ASSUME NEW d \in Readers, HasRules(d)', NEW r \in Revs, r <= rev', reader'[d].rules < r
        PROVE  reader'[d].start <= when'[r]
    <3>1. Busy(d)'
      BY <2>1 DEF HasRules, Busy
    <3>2. /\ HasRules(d) /\ reader'[d].start = reader[d].start /\ reader[d].rules < r
          /\ reader[d].start \in Time /\ reader[d].start <= now
      BY <2>1, <3>1, AroundShape, BusyReading DEF HasRules, Recent, Past, Reading
    <3>3. CASE r <= rev /\ when'[r] = when[r]
      BY <2>1, <3>2, <3>3 DEF Recent, PullsCover
    <3>4. CASE Published /\ r = rev + 1
      BY <3>2, <3>4 DEF Published, TypeOK
    <3>5. QED
      BY <2>1, <3>3, <3>4, AroundShape DEF Published, TypeOK, Revs
  <2>2. QED
    BY <2>1 DEF PullsCover
<1>4. AnswersAreRecent'
  BY SilentIsRecent, AroundShape
<1>5. QED
  BY <1>1, <1>2, <1>3, <1>4 DEF Recent

\* What a reader's step leaves alone.
LEMMA ReadShape ==
    ASSUME TypeOK, NEW d \in Readers, Read(d)
    PROVE  /\ rev' = rev /\ when' = when /\ now' = now /\ shared' = shared
           /\ write' = write /\ known' = known
           /\ \A e \in Readers \ {d} : reader'[e] = reader[e]
  BY DEF Read, Hit, Look, Confirm, Ask, Pull, Stamp, Store, Error, Finished, TypeOK

\* A step of a reader that keeps the cache and answers nothing.
LEMMA RecentOnward ==
    ASSUME TypeOK, TypeOK', Recent, NEW d \in Readers, Read(d), cache' = cache, Silent,
           Busy(d)' => reader'[d].start <= now,
           HasRules(d)' => \/ reader'[d].rules = rev
                           \/ /\ HasRules(d)
                              /\ reader'[d].rules = reader[d].rules
                              /\ reader'[d].start = reader[d].start
    PROVE  Recent'
<1>1. Past'
  BY ReadShape DEF Recent, Past, Busy
<1>2. EntriesCover'
  BY ReadShape DEF Recent, EntriesCover, Covers, Reaches
<1>3. PullsCover'
  BY ReadShape DEF Recent, PullsCover, HasRules, TypeOK, Revs
<1>4. QED
  BY <1>1, <1>2, <1>3, SilentIsRecent DEF Recent

\* A reader that stops with an answer.
LEMMA RecentAnswer ==
    ASSUME TypeOK, TypeOK', Recent, NEW d \in Readers, Read(d), Busy(d), Finished(d),
           EntriesCover', AnswersAreRecent'
    PROVE  Recent'
<1>1. reader'[d] = IdleReader
  BY DEF Finished, TypeOK
<1>2. Past'
  BY <1>1, ReadShape DEF Recent, Past, Busy, IdleReader
<1>3. PullsCover'
  BY <1>1, ReadShape DEF Recent, PullsCover, HasRules, IdleReader
<1>4. QED
  BY <1>2, <1>3 DEF Recent

LEMMA RecentHit ==
    ASSUME TypeOK, TypeOK', Recent, NEW d \in Readers, NEW l \in Layers, Hit(d, l)
    PROVE  Recent'
<1>1. Past' /\ EntriesCover' /\ PullsCover'
  BY DEF Hit, Recent, Past, EntriesCover, PullsCover, Covers, Reaches, HasRules, Busy
<1>2. cache[l] \in Entry /\ now - cache[l].at < Revalidate
  BY DEF Hit, Young, TypeOK
<1>3. ASSUME NEW r \in Revs, r <= rev, when[r] + Revalidate <= now PROVE Reaches(cache[l], r)
  <2>1. ~Reaches(cache[l], r) => cache[l].at <= when[r]
    BY <1>2, <1>3, EntryAssumption DEF Recent, EntriesCover, Covers
  <2>2. QED
    BY <1>2, <1>3, <2>1, CacheAssumption DEF TypeOK, Entry, Time
<1>4. /\ served'.rules = cache[l].rules /\ served'.token = cache[l].token
      /\ served'.start = now /\ rev' = rev /\ when' = when
  BY DEF Hit, Serve
<1>5. AnswersAreRecent'
  BY <1>3, <1>4 DEF AnswersAreRecent, Due, Reaches
<1>6. QED
  BY <1>1, <1>5 DEF Recent

LEMMA RecentConfirm ==
    ASSUME TypeOK, TypeOK', Recent, NEW d \in Readers, Confirm(d)
    PROVE  Recent'
<1>1. Busy(d) /\ reader[d] \in Reading /\ reader[d].seen \in Entry /\ reader[d].seen.token = rev
  BY BusyReading DEF Confirm, Busy, Unchanged, Reading
<1>2. Read(d) /\ Finished(d) /\ rev' = rev /\ when' = when /\ now' = now
  BY DEF Read, Confirm
<1>3. AnswersAreRecent'
  <2>1. served'.token = rev
    BY <1>1 DEF Confirm, Serve
  <2>2. QED
    BY <1>2, <2>1 DEF AnswersAreRecent, Reaches
<1>4. EntriesCover'
  <2> DEFINE l == reader[d].layer
  <2>1. CASE InCache(d)
    <3>1. cache[l] \in Entry /\ cache[l].token = rev
      BY <1>1, <2>1 DEF InCache, Same, TypeOK, Reading
    <3>2. cache' = [cache EXCEPT ![l] = [cache[l] EXCEPT !.at = reader[d].start]]
      BY <2>1, <3>1 DEF Confirm, TypeOK
    <3>3. LET e == [cache[l] EXCEPT !.at = reader[d].start] IN e.token = rev /\ e.at = reader[d].start
      BY <3>1 DEF Entry
    <3>4. reader[d].start <= now
      BY <1>1 DEF Recent, Past
    <3>5. \A k \in Layers : cache'[k] = IF k = l THEN [cache[l] EXCEPT !.at = reader[d].start] ELSE cache[k]
      BY <3>2 DEF TypeOK
    <3>6. QED
      BY <1>2, <3>3, <3>4, <3>5 DEF Recent, EntriesCover, Covers, Reaches
  <2>2. CASE ~InCache(d)
    <3>1. cache' = cache
      BY <2>2 DEF Confirm
    <3>2. QED
      BY <1>2, <3>1 DEF Recent, EntriesCover, Covers, Reaches
  <2>3. QED
    BY <2>1, <2>2
<1>5. QED
  BY <1>1, <1>2, <1>3, <1>4, RecentAnswer

LEMMA RecentStore ==
    ASSUME TypeOK, TypeOK', Recent, NEW d \in Readers, Store(d)
    PROVE  Recent'
<1>1. Busy(d) /\ reader[d] \in Reading /\ HasRules(d)
  BY BusyReading DEF Store, HasRules
<1>2. Read(d) /\ Finished(d) /\ rev' = rev /\ when' = when /\ now' = now
  BY DEF Read, Store
<1> DEFINE l == reader[d].layer
           e == [rules |-> reader[d].rules, token |-> reader[d].token, at |-> reader[d].start,
                 pulled |-> reader[d].start, crossed |-> reader[d].crossed]
<1>3. /\ e.at = reader[d].start /\ e.rules = reader[d].rules /\ e.token = reader[d].token
      /\ reader[d].start \in Time /\ reader[d].rules \in Revs
  BY <1>1 DEF Reading
<1>4. reader[d].start <= now /\ \A r \in Revs : r <= rev /\ reader[d].rules < r => reader[d].start <= when[r]
  BY <1>1 DEF Recent, Past, PullsCover
<1>5. \A k \in Layers : cache'[k] = IF k = l THEN e ELSE cache[k]
  BY DEF Store, TypeOK
<1>6. served'.start = reader[d].start /\ served'.rules = reader[d].rules
  BY DEF Store, Serve
<1> HIDE DEF e
<1>7. EntriesCover'
  BY <1>2, <1>3, <1>4, <1>5 DEF Recent, EntriesCover, Covers, Reaches, Revs
<1>8. AnswersAreRecent'
  BY <1>2, <1>3, <1>4, <1>6 DEF AnswersAreRecent, Due, Reaches, Revs, Time, TypeOK
<1>9. QED
  BY <1>1, <1>2, <1>7, <1>8, RecentAnswer

LEMMA RecentRead ==
    ASSUME TypeOK, TypeOK', Recent, NEW d \in Readers, Read(d)
    PROVE  Recent'
<1>1. ASSUME NEW l \in Layers, Look(d, l) PROVE Recent'
  <2>1. reader'[d].start = now /\ reader'[d].pc = "looked"
    BY <1>1 DEF Look, TypeOK
  <2>2. QED
    BY <1>1, <2>1, RecentOnward DEF Look, HasRules, TypeOK, Time
<1>2. ASSUME Ask(d) \/ Pull(d) \/ Stamp(d) PROVE Recent'
  <2>1. Busy(d) /\ reader[d] \in Reading
    BY <1>2, BusyReading DEF Ask, Pull, Stamp, Busy
  <2>2. /\ reader'[d].start = reader[d].start
        /\ reader'[d].rules = rev \/ (reader'[d].rules = reader[d].rules /\ (HasRules(d)' => HasRules(d)))
    BY <1>2, <2>1 DEF Ask, Pull, Stamp, HasRules, Reading, TypeOK
  <2>3. reader[d].start <= now /\ cache' = cache /\ Silent
    BY <1>2, <2>1 DEF Recent, Past, Ask, Pull, Stamp
  <2>4. QED
    BY <2>2, <2>3, RecentOnward
<1>3. CASE Error(d)
  <2>1. reader'[d] = IdleReader
    BY <1>3 DEF Error, Finished, TypeOK
  <2>2. QED
    BY <1>3, <2>1, RecentOnward DEF Error, Busy, HasRules, IdleReader
<1>4. QED
  BY <1>1, <1>2, <1>3, RecentHit, RecentConfirm, RecentStore DEF Read

LEMMA RecentInit == Init => Recent
  BY CacheAssumption DEF Init, Recent, Past, EntriesCover, PullsCover, AnswersAreRecent, Due,
     NoAnswer, Busy, HasRules, IdleReader, Revs, Time

LEMMA RecentNext == TypeOK /\ TypeOK' /\ Recent /\ [Next]_vars => Recent'
<1>1. Recent /\ UNCHANGED vars => Recent'
  BY DEF vars, Recent, Past, EntriesCover, Covers, Reaches, PullsCover, HasRules,
         AnswersAreRecent, Due, Busy
<1>2. QED
  BY <1>1, RecentAround, RecentRead DEF Next

\* For every window, maximum age and number of threads: no answer misses a revision
\* older than the window that neither its rules nor its token reach.
THEOREM AnswersRecent == Spec => []AnswersAreRecent
<1>1. TypeOK /\ Recent /\ [Next]_vars => (TypeOK /\ Recent)'
  BY TypeNext, RecentNext
<1>2. QED
  BY <1>1, TypeInit, RecentInit, PTL DEF Spec, Recent

-----------------------------------------------------------------------------
(* What a store replaces.  On a shared session the only call in the cache's    *)
(* way is the one that holds the lock, and what it has pulled is no older       *)
(* than the entry it goes over.                                                 *)

Ahead ==
    /\ \A l \in Layers : cache[l] # NoEntry => cache[l].rules <= rev
    /\ \A d \in Readers : HasRules(d) => reader[d].rules <= rev
    /\ shared => \A d \in Readers : HasRules(d) =>
          LET e == cache[reader[d].layer] IN e # NoEntry => e.rules <= reader[d].rules

\* The rules a step puts into the cache for layer l, if it does.
LEMMA CacheStep ==
    ASSUME TypeOK, NEW d \in Readers, Read(d), NEW l \in Layers, cache'[l] # NoEntry
    PROVE  \/ cache[l] # NoEntry /\ cache'[l].rules = cache[l].rules
           \/ Store(d) /\ HasRules(d) /\ reader[d].layer = l /\ cache'[l].rules = reader[d].rules
<1>1. CASE Store(d)
  <2>1. Busy(d) /\ reader[d] \in Reading /\ HasRules(d)
    BY <1>1, BusyReading DEF Store, HasRules
  <2>2. \A k \in Layers \ {reader[d].layer} : cache'[k] = cache[k]
    BY <1>1 DEF Store, TypeOK
  <2>3. cache'[reader[d].layer].rules = reader[d].rules
    BY <1>1, <2>1 DEF Store, TypeOK, Reading
  <2>4. QED
    BY <1>1, <2>1, <2>2, <2>3
<1>2. CASE Confirm(d)
  <2>1. Busy(d) /\ reader[d] \in Reading
    BY <1>2, BusyReading DEF Confirm, Busy
  <2>2. CASE InCache(d)
    <3>1. cache[reader[d].layer] \in Entry
      BY <2>1, <2>2 DEF InCache, TypeOK, Reading
    <3>2. cache' = [cache EXCEPT ![reader[d].layer] = [cache[reader[d].layer] EXCEPT !.at = reader[d].start]]
      BY <1>2, <2>2, <3>1 DEF Confirm, TypeOK
    <3>3. [cache[reader[d].layer] EXCEPT !.at = reader[d].start].rules = cache[reader[d].layer].rules
      BY <3>1 DEF Entry
    <3>4. \A k \in Layers : cache'[k] = IF k = reader[d].layer
                                        THEN [cache[reader[d].layer] EXCEPT !.at = reader[d].start]
                                        ELSE cache[k]
      BY <3>2 DEF TypeOK
    <3>5. QED
      BY <2>2, <3>3, <3>4 DEF InCache
  <2>3. CASE ~InCache(d)
    BY <1>2, <2>3 DEF Confirm
  <2>4. QED
    BY <2>2, <2>3
<1>3. CASE ~Store(d) /\ ~Confirm(d)
  BY <1>3 DEF Read, Hit, Look, Ask, Pull, Stamp, Error
<1>4. QED
  BY <1>1, <1>2, <1>3

\* What a reader's step does to its rules.
LEMMA RulesStep ==
    ASSUME TypeOK, NEW d \in Readers, Read(d), HasRules(d)'
    PROVE  /\ cache' = cache
           /\ Busy(d) /\ reader[d] \in Reading
           /\ reader'[d].layer = reader[d].layer /\ reader'[d].crossed = reader[d].crossed
           /\ \/ reader'[d].rules = rev
              \/ HasRules(d) /\ reader'[d].rules = reader[d].rules
<1>1. CASE Ask(d) \/ Pull(d) \/ Stamp(d)
  <2>1. Busy(d) /\ reader[d] \in Reading
    BY <1>1, BusyReading DEF Ask, Pull, Stamp, Busy
  <2>2. QED
    BY <1>1, <2>1 DEF Ask, Pull, Stamp, HasRules, Reading, TypeOK
<1>2. CASE \E l \in Layers : Look(d, l)
  BY <1>2 DEF Look, HasRules, TypeOK
<1>3. CASE Confirm(d) \/ Store(d) \/ Error(d)
  BY <1>3 DEF Confirm, Store, Error, Finished, HasRules, IdleReader, TypeOK
<1>4. CASE \E l \in Layers : Hit(d, l)
  BY <1>4 DEF Hit, HasRules, Busy, TypeOK
<1>5. QED
  BY <1>1, <1>2, <1>3, <1>4 DEF Read

LEMMA AheadAround ==
    ASSUME TypeOK, TypeOK', Ahead, PublishElsewhere \/ Publish \/ Invalidate \/ Return \/ Tick
    PROVE  Ahead'
<1>1. rev \in Nat /\ (rev' = rev \/ rev' = rev + 1)
  BY AroundShape DEF Published, TypeOK, Revs
<1>2. ASSUME NEW l \in Layers, cache'[l] # NoEntry PROVE cache'[l].rules <= rev'
  <2>1. cache'[l] = cache[l] /\ cache[l] \in Entry /\ cache[l].rules <= rev
    BY <1>2, AroundShape DEF Ahead, TypeOK
  <2>2. QED
    BY <1>1, <2>1 DEF Entry, Revs
<1>3. ASSUME NEW d \in Readers, HasRules(d)'
      PROVE  /\ HasRules(d) /\ reader[d] \in Reading
             /\ reader'[d].layer = reader[d].layer /\ reader'[d].rules = reader[d].rules
  BY <1>3, AroundShape, BusyReading DEF HasRules, Busy
<1>4. ASSUME NEW d \in Readers, HasRules(d)' PROVE reader'[d].rules <= rev'
  BY <1>1, <1>3, <1>4 DEF Ahead, Reading, Revs
<1>5. ASSUME shared', NEW d \in Readers, HasRules(d)', cache'[reader'[d].layer] # NoEntry
      PROVE  cache'[reader'[d].layer].rules <= reader'[d].rules
  <2>1. reader[d].layer \in Layers
    BY <1>3, <1>5 DEF Reading
  <2>2. cache'[reader[d].layer] = cache[reader[d].layer] /\ shared
    BY <1>3, <1>5, <2>1, AroundShape
  <2>3. QED
    BY <1>3, <1>5, <2>2 DEF Ahead
<1>6. QED
  BY <1>2, <1>4, <1>5 DEF Ahead

LEMMA AheadRead ==
    ASSUME TypeOK, TypeOK', Ahead, NEW d \in Readers, Read(d)
    PROVE  Ahead'
<1>1. rev' = rev /\ shared' = shared /\ \A e \in Readers \ {d} : reader'[e] = reader[e]
  BY ReadShape
<1>2. ASSUME NEW l \in Layers, cache'[l] # NoEntry PROVE cache'[l].rules <= rev'
  BY <1>1, <1>2, CacheStep DEF Ahead
<1>3. ASSUME NEW e \in Readers, HasRules(e)' PROVE reader'[e].rules <= rev'
  <2>1. CASE e = d
    BY <1>1, <1>3, <2>1, RulesStep DEF Ahead, TypeOK, Revs
  <2>2. CASE e # d
    BY <1>1, <1>3, <2>2 DEF Ahead, HasRules
  <2>3. QED
    BY <2>1, <2>2
<1>4. ASSUME shared', NEW e \in Readers, HasRules(e)', cache'[reader'[e].layer] # NoEntry
      PROVE  cache'[reader'[e].layer].rules <= reader'[e].rules
  <2>1. CASE e = d
    <3>1. /\ cache' = cache /\ reader'[d].layer = reader[d].layer /\ reader[d].layer \in Layers
          /\ reader'[d].rules = rev \/ (HasRules(d) /\ reader'[d].rules = reader[d].rules)
      BY <1>4, <2>1, RulesStep DEF Reading
    <3>2. QED
      BY <1>1, <1>4, <2>1, <3>1 DEF Ahead
  <2>2. CASE e # d
    <3>1. reader'[e] = reader[e] /\ HasRules(e) /\ Busy(e)
      BY <1>1, <1>4, <2>2 DEF HasRules, Busy
    <3>2. reader[e] \in Reading /\ reader[e].layer \in Layers
      BY <3>1, BusyReading DEF Reading
    <3>3. ~Busy(d)
      BY <1>1, <1>4, <2>2, <3>1 DEF TypeOK
    <3>4. cache[reader[e].layer] # NoEntry /\ cache'[reader[e].layer].rules = cache[reader[e].layer].rules
      BY <1>4, <3>1, <3>2, <3>3, CacheStep DEF Store
    <3>5. QED
      BY <1>1, <1>4, <3>1, <3>4 DEF Ahead
  <2>3. QED
    BY <2>1, <2>2
<1>5. QED
  BY <1>2, <1>3, <1>4 DEF Ahead

\* On a shared session a step replaces an entry by no older one.
LEMMA AheadStep ==
    ASSUME TypeOK, Ahead, Next, shared, NEW l \in Layers, cache[l] # NoEntry, cache'[l] # NoEntry
    PROVE  cache[l].rules <= cache'[l].rules
<1>1. cache[l].rules \in Nat
  BY DEF TypeOK, Entry, Revs
<1>2. ASSUME NEW d \in Readers, Read(d) PROVE cache[l].rules <= cache'[l].rules
  <2>1. CASE cache'[l].rules = cache[l].rules
    BY <1>1, <2>1
  <2>2. CASE HasRules(d) /\ reader[d].layer = l /\ cache'[l].rules = reader[d].rules
    BY <2>2 DEF Ahead
  <2>3. QED
    BY <1>2, <2>1, <2>2, CacheStep
<1>3. ASSUME PublishElsewhere \/ Publish \/ Invalidate \/ Return \/ Tick
      PROVE  cache[l].rules <= cache'[l].rules
  <2>1. cache'[l] = cache[l]
    BY <1>3, AroundShape
  <2>2. QED
    BY <1>1, <2>1
<1>4. QED
  BY <1>2, <1>3 DEF Next

LEMMA AheadInit == Init => Ahead
  BY DEF Init, Ahead, HasRules, IdleReader

LEMMA AheadNext == TypeOK /\ TypeOK' /\ Ahead /\ [Next]_vars => Ahead'
<1>1. Ahead /\ UNCHANGED vars => Ahead'
  BY DEF vars, Ahead, HasRules
<1>2. QED
  BY <1>1, AheadAround, AheadRead DEF Next

\* For every number of threads, layers and revisions: with the read session shared,
\* the cache never goes back in time while it holds a layer.
THEOREM NeverGoesBack == Spec => NeverOlder
<1>1. TypeOK /\ Ahead /\ [Next]_vars => (TypeOK /\ Ahead)'
  BY TypeNext, AheadNext
<1>2. TypeOK /\ Ahead /\ [Next]_vars =>
        [shared => \A l \in Layers :
           cache[l] # NoEntry /\ cache'[l] # NoEntry => cache[l].rules <= cache'[l].rules]_vars
  BY AheadStep
<1>3. QED
  BY <1>1, <1>2, TypeInit, AheadInit, PTL DEF Spec, NeverOlder

-----------------------------------------------------------------------------
(* What PolicyPilot published itself.  Whatever the invalidation could see it   *)
(* dropped, and a call that was on its way is marked; so an unmarked entry or   *)
(* pull holds every publish that was returned from, and from the invalidation   *)
(* on the one about to be.                                                      *)

\* Rules that hold what PolicyPilot published.
Holds(rules) == known <= rules /\ (write.pc = "dropped" => write.mine <= rules)

OwnSeen ==
    /\ known <= rev /\ (write.pc # "idle" => write.mine <= rev)
    /\ \A l \in Layers : cache[l] # NoEntry /\ ~cache[l].crossed => Holds(cache[l].rules)
    /\ \A d \in Readers : HasRules(d) /\ ~reader[d].crossed => Holds(reader[d].rules)
    /\ \A d \in Readers : Busy(d) =>
          /\ reader[d].known <= known
          /\ reader[d].seen # NoEntry /\ ~reader[d].seen.crossed => reader[d].known <= reader[d].seen.rules

\* A call that holds nothing yet knows no more than is known now.
LEMMA OwnSilent == ASSUME Silent PROVE OwnPublishSeen'
  BY DEF Silent, NoAnswer, OwnPublishSeen

\* What the steps around the readers make of PolicyPilot's publish: it is committed,
\* dropped together with every entry while every call is marked, and returned from.
LEMMA WriteStep ==
    ASSUME TypeOK, OwnSeen, PublishElsewhere \/ Publish \/ Invalidate \/ Return \/ Tick
    PROVE  /\ known' <= rev' /\ (write'.pc # "idle" => write'.mine <= rev')
           /\ known <= known'
           /\ \/ \A n \in Revs : Holds(n) => Holds(n)'
              \/ /\ \A l \in Layers : cache'[l] = NoEntry
                 /\ \A d \in Readers : Busy(d)' => reader'[d].crossed
<1>1. rev \in Nat /\ known \in Nat /\ (write.pc # "idle" => write.mine \in Nat)
  BY DEF TypeOK, Revs, Writing, NoWrite
<1>2. CASE PublishElsewhere
  BY <1>1, <1>2 DEF PublishElsewhere, Published, OwnSeen, Holds
<1>3. CASE Publish
  <2>1. write'.pc = "committed" /\ write'.mine = rev + 1 /\ rev' = rev + 1 /\ known' = known
    BY <1>3 DEF Publish, Published
  <2>2. QED
    BY <1>1, <2>1 DEF OwnSeen, Holds
<1>4. CASE Invalidate
  <2>1. write'.mine = write.mine /\ write.pc # "idle" /\ rev' = rev /\ known' = known
    BY <1>4 DEF Invalidate, TypeOK, Writing, NoWrite
  <2>2. \A l \in Layers : cache'[l] = NoEntry
    BY <1>4 DEF Invalidate, Dropped
  <2>3. ASSUME NEW d \in Readers, Busy(d)' PROVE reader'[d].crossed
    <3>1. reader'[d] = IF Busy(d) THEN [reader[d] EXCEPT !.crossed = TRUE] ELSE reader[d]
      BY <1>4 DEF Invalidate, Crossed
    <3>2. Busy(d)
      BY <2>3, <3>1 DEF Busy
    <3>3. QED
      BY <3>1, <3>2, BusyReading DEF Reading
  <2>4. QED
    BY <1>1, <2>1, <2>2, <2>3 DEF OwnSeen
<1>5. CASE Return
  <2>1. /\ write.pc = "dropped" /\ write'.pc = "idle" /\ rev' = rev
        /\ known' = IF write.mine > known THEN write.mine ELSE known
    BY <1>5 DEF Return, NoWrite
  <2>2. \A n \in Revs : Holds(n) => Holds(n)'
    BY <1>1, <2>1 DEF Holds
  <2>3. QED
    BY <1>1, <2>1, <2>2 DEF OwnSeen
<1>6. CASE Tick
  BY <1>1, <1>6 DEF Tick, OwnSeen, Holds
<1>7. QED
  BY <1>2, <1>3, <1>4, <1>5, <1>6

LEMMA OwnAround ==
    ASSUME TypeOK, TypeOK', OwnSeen, PublishElsewhere \/ Publish \/ Invalidate \/ Return \/ Tick
    PROVE  OwnSeen' /\ OwnPublishSeen'
<1>1. ASSUME NEW l \in Layers, cache'[l] # NoEntry, ~cache'[l].crossed PROVE Holds(cache[l].rules)'
  <2>1. cache'[l] = cache[l] /\ cache[l] \in Entry /\ Holds(cache[l].rules)
    BY <1>1, AroundShape DEF OwnSeen, TypeOK
  <2>2. cache[l].rules \in Revs /\ (known' <= cache[l].rules /\ (write'.pc = "dropped" => write'.mine <= cache[l].rules))
    BY <1>1, <2>1, WriteStep DEF Entry, Holds
  <2>3. QED
    BY <2>1, <2>2 DEF Holds
<1>2. ASSUME NEW d \in Readers, HasRules(d)', ~reader'[d].crossed PROVE Holds(reader[d].rules)'
  <2>1. Busy(d)'
    BY <1>2 DEF HasRules, Busy
  <2>2. HasRules(d) /\ reader'[d].rules = reader[d].rules /\ reader[d] \in Reading /\ ~reader[d].crossed
    BY <1>2, <2>1, AroundShape, BusyReading DEF HasRules
  <2>3. reader[d].rules \in Revs /\ Holds(reader[d].rules)
    BY <2>2 DEF OwnSeen, Reading
  <2>4. known' <= reader[d].rules /\ (write'.pc = "dropped" => write'.mine <= reader[d].rules)
    BY <1>2, <2>1, <2>3, WriteStep DEF Holds
  <2>5. QED
    BY <2>2, <2>4 DEF Holds
<1>3. ASSUME NEW d \in Readers, Busy(d)'
      PROVE  /\ reader'[d].known <= known'
             /\ reader'[d].seen # NoEntry /\ ~reader'[d].seen.crossed => reader'[d].known <= reader'[d].seen.rules
  <2>1. /\ Busy(d) /\ reader[d] \in Reading
        /\ reader'[d].known = reader[d].known /\ reader'[d].seen = reader[d].seen
    BY <1>3, AroundShape, BusyReading
  <2>2. reader[d].known \in Nat /\ known \in Nat /\ known' \in Nat
    BY <2>1 DEF Reading, TypeOK, Revs
  <2>3. QED
    BY <2>1, <2>2, WriteStep DEF OwnSeen
<1>4. QED
  BY <1>1, <1>2, <1>3, WriteStep, AroundShape, OwnSilent DEF OwnSeen

\* What a reader puts into the cache is marked if its call was.
LEMMA MarkStep ==
    ASSUME TypeOK, NEW d \in Readers, Read(d), NEW l \in Layers, cache'[l] # NoEntry
    PROVE  \/ /\ cache[l] # NoEntry
              /\ cache'[l].rules = cache[l].rules /\ cache'[l].crossed = cache[l].crossed
           \/ /\ HasRules(d)
              /\ cache'[l].rules = reader[d].rules /\ cache'[l].crossed = reader[d].crossed
<1>1. CASE Store(d)
  <2>1. Busy(d) /\ reader[d] \in Reading /\ HasRules(d)
    BY <1>1, BusyReading DEF Store, HasRules
  <2>2. \A k \in Layers \ {reader[d].layer} : cache'[k] = cache[k]
    BY <1>1 DEF Store, TypeOK
  <2>3. /\ cache'[reader[d].layer].rules = reader[d].rules
        /\ cache'[reader[d].layer].crossed = reader[d].crossed
    BY <1>1, <2>1 DEF Store, TypeOK, Reading
  <2>4. QED
    BY <2>1, <2>2, <2>3
<1>2. CASE Confirm(d) /\ InCache(d)
  <2>1. Busy(d) /\ reader[d] \in Reading
    BY <1>2, BusyReading DEF Confirm, Busy
  <2>2. cache[reader[d].layer] \in Entry /\ cache[reader[d].layer] # NoEntry
    BY <1>2, <2>1 DEF InCache, TypeOK, Reading
  <2>3. \A k \in Layers : cache'[k] = IF k = reader[d].layer
                                      THEN [cache[reader[d].layer] EXCEPT !.at = reader[d].start]
                                      ELSE cache[k]
    BY <1>2, <2>2 DEF Confirm, TypeOK
  <2>4. LET e == [cache[reader[d].layer] EXCEPT !.at = reader[d].start]
        IN  e.rules = cache[reader[d].layer].rules /\ e.crossed = cache[reader[d].layer].crossed
    BY <2>2 DEF Entry
  <2>5. QED
    BY <2>2, <2>3, <2>4
<1>3. CASE ~Store(d) /\ ~(Confirm(d) /\ InCache(d))
  BY <1>3 DEF Read, Hit, Look, Confirm, Ask, Pull, Stamp, Error
<1>4. QED
  BY <1>1, <1>2, <1>3

\* A call keeps what it knew and saw; one that begins sees what the cache holds.
LEMMA SeenStep ==
    ASSUME TypeOK, NEW d \in Readers, Read(d), Busy(d)'
    PROVE  \/ Busy(d) /\ reader'[d].known = reader[d].known /\ reader'[d].seen = reader[d].seen
           \/ \E l \in Layers : reader'[d].known = known /\ reader'[d].seen = cache[l]
<1>1. CASE Ask(d) \/ Pull(d) \/ Stamp(d)
  <2>1. Busy(d) /\ reader[d] \in Reading
    BY <1>1, BusyReading DEF Ask, Pull, Stamp, Busy
  <2>2. QED
    BY <1>1, <2>1 DEF Ask, Pull, Stamp, Reading, TypeOK
<1>2. CASE \E l \in Layers : Look(d, l)
  BY <1>2 DEF Look, TypeOK
<1>3. CASE Confirm(d) \/ Store(d) \/ Error(d)
  BY <1>3 DEF Confirm, Store, Error, Finished, Busy, IdleReader, TypeOK
<1>4. CASE \E l \in Layers : Hit(d, l)
  BY <1>4 DEF Hit, Busy, TypeOK
<1>5. QED
  BY <1>1, <1>2, <1>3, <1>4 DEF Read

\* What is answered is what the cache holds, what was seen, or what was pulled.
LEMMA OwnAnswer ==
    ASSUME TypeOK, OwnSeen, NEW d \in Readers, Read(d)
    PROVE  OwnPublishSeen'
<1>1. ASSUME NEW l \in Layers, Hit(d, l) PROVE OwnPublishSeen'
  BY <1>1 DEF Hit, Young, Serve, OwnSeen, Holds, OwnPublishSeen
<1>2. CASE Confirm(d)
  BY <1>2 DEF Confirm, Serve, OwnSeen, Busy, OwnPublishSeen
<1>3. CASE Store(d)
  <2>1. Busy(d) /\ reader[d] \in Reading /\ HasRules(d)
    BY <1>3, BusyReading DEF Store, HasRules
  <2>2. reader[d].known <= known /\ (~reader[d].crossed => known <= reader[d].rules)
    BY <2>1 DEF OwnSeen, Holds
  <2>3. /\ served'.crossed = reader[d].crossed /\ served'.known = reader[d].known
        /\ served'.rules = reader[d].rules
    BY <1>3 DEF Store, Serve
  <2>4. QED
    BY <2>1, <2>2, <2>3 DEF OwnPublishSeen, Reading, TypeOK, Revs
<1>4. CASE Silent
  BY <1>4, OwnSilent
<1>5. QED
  BY <1>1, <1>2, <1>3, <1>4 DEF Read, Look, Ask, Pull, Stamp, Error

LEMMA OwnRead ==
    ASSUME TypeOK, TypeOK', OwnSeen, NEW d \in Readers, Read(d)
    PROVE  OwnSeen'
<1>1. /\ rev' = rev /\ write' = write /\ known' = known
      /\ \A e \in Readers \ {d} : reader'[e] = reader[e]
  BY ReadShape
<1>2. \A n : Holds(n) => known' <= n /\ (write'.pc = "dropped" => write'.mine <= n)
  BY <1>1 DEF Holds
<1>3. ASSUME NEW l \in Layers, cache'[l] # NoEntry, ~cache'[l].crossed PROVE Holds(cache[l].rules)'
  BY <1>2, <1>3, MarkStep DEF OwnSeen, Holds
<1>4. ASSUME NEW e \in Readers, HasRules(e)', ~reader'[e].crossed PROVE Holds(reader[e].rules)'
  <2>1. CASE e = d
    <3>1. Holds(rev)
      BY DEF OwnSeen, Holds
    <3>2. reader'[d].rules = rev \/ (HasRules(d) /\ reader'[d].rules = reader[d].rules /\ ~reader[d].crossed)
      BY <1>4, <2>1, RulesStep
    <3>3. QED
      BY <1>2, <2>1, <3>1, <3>2 DEF OwnSeen, Holds
  <2>2. CASE e # d
    BY <1>1, <1>2, <1>4, <2>2 DEF OwnSeen, HasRules, Holds
  <2>3. QED
    BY <2>1, <2>2
<1>5. ASSUME NEW e \in Readers, Busy(e)'
      PROVE  /\ reader'[e].known <= known'
             /\ reader'[e].seen # NoEntry /\ ~reader'[e].seen.crossed => reader'[e].known <= reader'[e].seen.rules
  <2>1. CASE e = d
    <3>1. known <= known
      BY DEF TypeOK, Revs
    <3>2. QED
      BY <1>1, <1>5, <2>1, <3>1, SeenStep DEF OwnSeen, Holds
  <2>2. CASE e # d
    BY <1>1, <1>5, <2>2 DEF OwnSeen, Busy
  <2>3. QED
    BY <2>1, <2>2
<1>6. QED
  BY <1>1, <1>3, <1>4, <1>5 DEF OwnSeen

LEMMA OwnInit == Init => OwnSeen /\ OwnPublishSeen
  BY DEF Init, OwnSeen, OwnPublishSeen, NoAnswer, NoWrite, HasRules, Busy, IdleReader

LEMMA OwnNext == TypeOK /\ TypeOK' /\ OwnSeen /\ OwnPublishSeen /\ [Next]_vars => (OwnSeen /\ OwnPublishSeen)'
<1>1. OwnSeen /\ OwnPublishSeen /\ UNCHANGED vars => (OwnSeen /\ OwnPublishSeen)'
  BY DEF vars, OwnSeen, OwnPublishSeen, Holds, HasRules, Busy
<1>2. QED
  BY <1>1, OwnAround, OwnAnswer, OwnRead DEF Next

\* For every number of threads, layers and revisions: an answer whose read began after
\* a publish of PolicyPilot's returned holds it, unless an invalidation crossed its pull.
THEOREM OwnPublishes == Spec => []OwnPublishSeen
<1>1. TypeOK /\ OwnSeen /\ OwnPublishSeen /\ [Next]_vars => (TypeOK /\ OwnSeen /\ OwnPublishSeen)'
  BY TypeNext, OwnNext
<1>2. QED
  BY <1>1, TypeInit, OwnInit, PTL DEF Spec

-----------------------------------------------------------------------------
(* LayerPush: a record of success, and a failure that is blamed on the      *)
(* connection, are about a push that is over, and what they say of the      *)
(* gateway was settled steps before.  So the invariant says of every push   *)
(* how far it got: nothing is sent before it is pushing, a task that ended  *)
(* well had its payload taken, and a stage that comes before the sending is *)
(* blamed only while there is no task.                                      *)

\* A push is a record of its request, its thread and its progress.
Fields == {"at", "id", "host", "cert", "fp", "payload", "task", "stage", "status", "failed", "warned", "told"}

IsJob(j) == j = [f \in Fields |-> j[f]]

\* Nothing was sent to a gateway yet.
Before == {"off", "ask", "pin", "queued", "refused", "mock", "connecting", "pushing"}

\* The stages that come before anything is sent.
EarlyStages == {"connecting", "logging_in"}

\* A gateway took all of it.
Took(p, payload) == \E x \in taken : x.of = p /\ x.what = payload

\* What a push has reached, against what the gateways took and what they were changed by.
JobSound(p, j) ==
    /\ IsJob(j)
    /\ j.at \in Before => j.task = "none" /\ j.status # "won" /\ j.failed \notin EarlyStages
    /\ j.at = "polling" => j.status # "won" /\ j.failed \notin EarlyStages /\ j.stage = "polling"
    /\ j.at = "pushing" => j.stage = "pushing"
    /\ j.at = "mock" => p \in Mock
    /\ j.at \in {"connecting", "pushing", "polling"} \/ j.task = "pending" => p \notin Mock
    /\ p \notin Mock =>
        /\ j.at = "record" /\ j.status = "won" /\ ~j.warned => j.task \in {"ok", "quietly"}
        /\ j.task # "none" => j.failed \notin EarlyStages /\ j.stage \notin EarlyStages
        /\ p \notin Dry /\ j.task = "ok" => Took(p, j.payload)
    /\ p \in touched => j.task \in {"ok", "partly", "quietly"} /\ p \notin Mock \cup Dry

\* The records are of pushes that ended, and what they claim was taken.
RecordsSound ==
    /\ \A t \in tasks : t.of \in Pushes /\ job[t.of].at = "done"
    /\ SucceededWasTaken

\* Inductive: each push, and the records.
PushInv ==
    /\ job = [p \in Pushes |-> job[p]]
    /\ \A p \in Pushes : JobSound(p, job[p])
    /\ touched \subseteq Pushes
    /\ RecordsSound

---------------------------------------------------------------------------
(* What a step keeps *)

\* One that leaves the pushes and the gateways alone, and may delete records.
LEMMA AsideKeeps ==
    ASSUME PushInv, UNCHANGED <<job, taken, touched>>, tasks' \subseteq tasks
    PROVE  PushInv'
<1>1. \A p \in Pushes : JobSound(p, job[p])'
  BY DEF PushInv, JobSound, Took
<1>2. RecordsSound'
  BY DEF PushInv, RecordsSound, SucceededWasTaken, Green, TakenWhole
<1> QED
  BY <1>1, <1>2 DEF PushInv

\* One of a push that leaves the gateways alone; a push that ended stays as it was recorded.
LEMMA JobKeeps ==
    ASSUME PushInv, NEW p \in Pushes, NEW n, job' = [job EXCEPT ![p] = n], JobSound(p, n),
           UNCHANGED <<taken, touched>>, tasks' \subseteq tasks,
           job[p].at = "done" => n.at = "done" /\ n.payload = job[p].payload /\ n.task = job[p].task
    PROVE  PushInv'
<1>1. job' = [q \in Pushes |-> job'[q]] /\ job'[p] = n /\ \A q \in Pushes : q # p => job'[q] = job[q]
  BY DEF PushInv
<1>2. ASSUME NEW q \in Pushes PROVE JobSound(q, job[q])'
  <2>1. PICK j : j = job'[q]
    OBVIOUS
  <2>2. JobSound(q, j)
    BY <1>1, <2>1 DEF PushInv
  <2>3. JobSound(q, j)'
    BY <2>2 DEF JobSound, Took
  <2> QED
    BY <2>1, <2>3 DEF JobSound
<1>3. \A t \in tasks' : /\ t.of \in Pushes /\ job'[t.of].at = "done"
                         /\ job'[t.of].payload = job[t.of].payload /\ job'[t.of].task = job[t.of].task
  BY <1>1 DEF PushInv, RecordsSound
<1>4. RecordsSound'
  BY <1>3 DEF PushInv, RecordsSound, SucceededWasTaken, Green, TakenWhole
<1> QED
  BY <1>1, <1>2, <1>4 DEF PushInv

\* A push, and that all of its progress is in its record.
LEMMA JobIs ==
    ASSUME PushInv, NEW p \in Pushes
    PROVE  /\ JobSound(p, job[p]) /\ IsJob(job[p]) /\ job = [q \in Pushes |-> job[q]]
           /\ job[p].at \in Before => /\ job[p].task = "none" /\ job[p].status # "won" /\ p \notin touched
                                     /\ job[p].failed \notin EarlyStages
BY DEF PushInv, JobSound

---------------------------------------------------------------------------
(* The request *)

LEMMA RefuseKeeps ==
    ASSUME PushInv, NEW p \in Pushes, NEW why, Refuse(p, why), job[p].at \in {"ask", "pin"},
           UNCHANGED <<tasks, taken, touched>>
    PROVE  PushInv'
<1>1. PICK j : j = job[p]
  OBVIOUS
<1>2. /\ JobSound(p, j) /\ IsJob(j) /\ job = [q \in Pushes |-> job[q]]
      /\ j.task = "none" /\ j.status # "won" /\ p \notin touched /\ j.failed \notin EarlyStages
  BY <1>1, JobIs DEF Before
<1>3. PICK n : n = [j EXCEPT !.at = "refused", !.told = why]
  OBVIOUS
<1>4. job' = [job EXCEPT ![p] = n]
  BY <1>1, <1>2, <1>3 DEF Refuse, IsJob, Fields
<1>5. IsJob(n) /\ n.at = "refused" /\ n.task = "none" /\ n.status # "won" /\ n.failed = j.failed
  BY <1>2, <1>3 DEF IsJob, Fields
<1>6. JobSound(p, n)
  BY <1>2, <1>5 DEF JobSound
<1> QED
  BY <1>4, <1>6, JobKeeps

LEMMA BeginKeeps ==
    ASSUME PushInv, NEW p \in Pushes, NEW i, Begin(p, i), job[p].at = "ask",
           UNCHANGED <<tasks, taken, touched>>
    PROVE  PushInv'
<1>1. PICK j : j = job[p]
  OBVIOUS
<1>2. /\ JobSound(p, j) /\ IsJob(j) /\ job = [q \in Pushes |-> job[q]]
      /\ j.task = "none" /\ j.status # "won" /\ p \notin touched /\ j.failed \notin EarlyStages
  BY <1>1, JobIs DEF Before
<1>3. PICK b : b = [j EXCEPT !.id = i, !.fp = <<i, layers[i].content>>]
  OBVIOUS
<1>4. IsJob(b) /\ b.task = "none" /\ b.status # "won" /\ b.failed = j.failed
  BY <1>2, <1>3 DEF IsJob, Fields
<1>5. CASE p \in Mock
  <2>1. PICK n : n = Started(b)
    OBVIOUS
  <2>2. job' = [job EXCEPT ![p] = n]
    BY <1>1, <1>3, <1>5, <2>1 DEF Begin
  <2>3. IsJob(n) /\ n.at = "queued" /\ n.task = "none" /\ n.status = "running" /\ n.failed = j.failed
    BY <1>4, <2>1 DEF Started, IsJob, Fields
  <2>4. JobSound(p, n)
    BY <1>2, <2>3 DEF JobSound
  <2> QED
    BY <2>2, <2>4, JobKeeps
<1>6. CASE p \notin Mock /\ gw = None
  BY <1>6, RefuseKeeps DEF Begin
<1>7. CASE p \notin Mock /\ gw # None
  <2>1. PICK n : n = [b EXCEPT !.at = "pin", !.host = gw.host, !.cert = gw.cert]
    OBVIOUS
  <2>2. job' = [job EXCEPT ![p] = n]
    BY <1>1, <1>3, <1>7, <2>1 DEF Begin
  <2>3. IsJob(n) /\ n.at = "pin" /\ n.task = "none" /\ n.status # "won" /\ n.failed = j.failed
    BY <1>4, <2>1 DEF IsJob, Fields
  <2>4. JobSound(p, n)
    BY <1>2, <2>3 DEF JobSound
  <2> QED
    BY <2>2, <2>4, JobKeeps
<1> QED
  BY <1>5, <1>6, <1>7

LEMMA AskKeeps ==
    ASSUME PushInv, NEW p \in Pushes, PortalAsk(p)
    PROVE  PushInv'
<1>1. job[p].at = "ask" /\ UNCHANGED <<tasks, taken, touched>>
  BY DEF PortalAsk, JobOnly
<1>2. PICK i \in Ids : IF layers[i] = None THEN Refuse(p, "no layer") ELSE Begin(p, i)
  BY DEF PortalAsk
<1> QED
  BY <1>1, <1>2, RefuseKeeps, BeginKeeps

LEMMA AgentAskKeeps ==
    ASSUME PushInv, NEW p \in Pushes, AgentAsk(p)
    PROVE  PushInv'
<1>1. job[p].at = "ask" /\ UNCHANGED <<tasks, taken, touched>>
  BY DEF AgentAsk, JobOnly
<1>2. \/ \E why : Refuse(p, why)
      \/ \E i : Begin(p, i)
  <2>1. PICK n \in Names :
         IF Resolved(n) = {} THEN Refuse(p, "no layer")
         ELSE \E i \in Resolved(n) :
           \/ /\ p \notin Dry /\ memo # None
              /\ Refuse(p, IF memo.fp = <<i, layers[i].content>> THEN "replayed" ELSE "conflict")
           \/ (p \in Dry \/ memo = None) /\ Begin(p, i)
    BY DEF AgentAsk
  <2> QED
    BY <2>1
<1> QED
  BY <1>1, <1>2, RefuseKeeps, BeginKeeps

LEMMA ConnectedKeeps ==
    ASSUME PushInv, NEW p \in Pushes, Connected(p)
    PROVE  PushInv'
<1>1. PICK j : j = job[p]
  OBVIOUS
<1>2. j.at = "pin" /\ UNCHANGED <<tasks, taken, touched>>
  BY <1>1 DEF Connected
<1>3. /\ JobSound(p, j) /\ IsJob(j) /\ job = [q \in Pushes |-> job[q]]
      /\ j.task = "none" /\ j.status # "won" /\ p \notin touched /\ j.failed \notin EarlyStages
  BY <1>1, <1>2, JobIs DEF Before
<1>4. \/ \E why : Refuse(p, why)
      \/ \E h, c : job' = [job EXCEPT ![p] = Started([j EXCEPT !.host = h, !.cert = c])]
  BY <1>1 DEF Connected
<1>5. CASE \E why : Refuse(p, why)
  BY <1>1, <1>2, <1>5, RefuseKeeps
<1>6. CASE \E h, c : job' = [job EXCEPT ![p] = Started([j EXCEPT !.host = h, !.cert = c])]
  <2>1. PICK h, c : job' = [job EXCEPT ![p] = Started([j EXCEPT !.host = h, !.cert = c])]
    BY <1>6
  <2>2. PICK b : b = [j EXCEPT !.host = h, !.cert = c]
    OBVIOUS
  <2>3. PICK n : n = Started(b)
    OBVIOUS
  <2>4. IsJob(b) /\ b.task = "none" /\ b.failed = j.failed
    BY <1>3, <2>2 DEF IsJob, Fields
  <2>5. IsJob(n) /\ n.at = "queued" /\ n.task = "none" /\ n.status = "running" /\ n.failed = j.failed
    BY <2>3, <2>4 DEF Started, IsJob, Fields
  <2>6. JobSound(p, n)
    BY <1>3, <2>5 DEF JobSound
  <2>7. job' = [job EXCEPT ![p] = n]
    BY <2>1, <2>2, <2>3
  <2> QED
    BY <1>1, <1>2, <2>6, <2>7, JobKeeps
<1> QED
  BY <1>4, <1>5, <1>6

---------------------------------------------------------------------------
(* The thread *)

LEMMA ReadLayerKeeps ==
    ASSUME PushInv, NEW p \in Pushes, ReadLayer(p)
    PROVE  PushInv'
<1>1. PICK j : j = job[p]
  OBVIOUS
<1>2. j.at = "queued" /\ UNCHANGED <<tasks, taken, touched>>
  BY <1>1 DEF ReadLayer, JobOnly
<1>3. /\ JobSound(p, j) /\ IsJob(j) /\ job = [q \in Pushes |-> job[q]]
      /\ j.task = "none" /\ j.status # "won" /\ p \notin touched /\ j.failed \notin EarlyStages
  BY <1>1, <1>2, JobIs DEF Before
<1>4. CASE layers[job[p].id] = None
  <2>1. PICK n : n = [j EXCEPT !.at = "done", !.stage = "done", !.status = "failed"]
    OBVIOUS
  <2>2. job' = [job EXCEPT ![p].at = "done", ![p].stage = "done", ![p].status = "failed"]
    BY <1>4 DEF ReadLayer
  <2>3. job' = [job EXCEPT ![p] = n]
    BY <1>1, <1>3, <2>1, <2>2 DEF IsJob, Fields
  <2>4. IsJob(n) /\ n.at = "done" /\ n.task = "none" /\ n.failed = j.failed
    BY <1>3, <2>1 DEF IsJob, Fields
  <2>5. JobSound(p, n)
    BY <1>3, <2>4 DEF JobSound, Before
  <2> QED
    BY <1>1, <1>2, <2>3, <2>5, JobKeeps
<1>5. CASE layers[job[p].id] # None
  <2>1. PICK payload : payload = Payload(layers[job[p].id])
    OBVIOUS
  <2>2. PICK at : at = IF p \in Mock THEN "mock" ELSE "connecting"
    OBVIOUS
  <2>3. PICK n : n = [j EXCEPT !.at = at, !.stage = "connecting", !.payload = payload]
    OBVIOUS
  <2>4. job' = [job EXCEPT ![p].at = at, ![p].stage = "connecting", ![p].payload = payload]
    BY <1>5, <2>1, <2>2 DEF ReadLayer
  <2>5. job' = [job EXCEPT ![p] = n]
    BY <1>1, <1>3, <2>3, <2>4 DEF IsJob, Fields
  <2>6. IsJob(n) /\ n.at = at /\ n.task = "none" /\ n.status # "won" /\ n.failed = j.failed
    BY <1>3, <2>3 DEF IsJob, Fields
  <2>7. JobSound(p, n)
    BY <1>3, <2>2, <2>6 DEF JobSound
  <2> QED
    BY <1>1, <1>2, <2>5, <2>7, JobKeeps
<1> QED
  BY <1>4, <1>5

LEMMA RunMockKeeps ==
    ASSUME PushInv, NEW p \in Pushes, RunMock(p)
    PROVE  PushInv'
<1>1. PICK j : j = job[p]
  OBVIOUS
<1>2. j.at = "mock" /\ UNCHANGED <<tasks, taken, touched>>
  BY <1>1 DEF RunMock, JobOnly
<1>3. /\ JobSound(p, j) /\ IsJob(j) /\ job = [q \in Pushes |-> job[q]] /\ p \notin touched
  BY <1>1, <1>2, JobIs DEF Before
<1>4. p \in Mock
  BY <1>2, <1>3 DEF JobSound
<1>5. PICK warned : job' = [job EXCEPT ![p].at = "record", ![p].stage = "logging_out", ![p].task = "ok",
                                       ![p].warned = warned]
  BY DEF RunMock
<1>6. PICK n : n = [j EXCEPT !.at = "record", !.stage = "logging_out", !.task = "ok", !.warned = warned]
  OBVIOUS
<1>7. job' = [job EXCEPT ![p] = n]
  BY <1>1, <1>3, <1>5, <1>6 DEF IsJob, Fields
<1>8. IsJob(n) /\ n.at = "record" /\ n.task = "ok"
  BY <1>3, <1>6 DEF IsJob, Fields
<1>9. JobSound(p, n)
  BY <1>3, <1>4, <1>8 DEF JobSound, Before
<1> QED
  BY <1>1, <1>2, <1>7, <1>9, JobKeeps

\* A step that raised before the gateway answered with a task.
LEMMA BrokenKeeps ==
    ASSUME PushInv, NEW p \in Pushes, NEW stage, NEW failed, Broken(p, stage, failed),
           job[p].at \in {"connecting", "pushing", "polling"},
           job[p].at = "polling" => stage \notin EarlyStages /\ failed \notin EarlyStages,
           UNCHANGED <<tasks, taken, touched>>
    PROVE  PushInv'
<1>1. PICK j : j = job[p]
  OBVIOUS
<1>2. JobSound(p, j) /\ IsJob(j) /\ job = [q \in Pushes |-> job[q]]
  BY <1>1, JobIs
<1>3. PICK n : n = [j EXCEPT !.at = "record", !.stage = stage, !.failed = failed]
  OBVIOUS
<1>4. job' = [job EXCEPT ![p] = n]
  BY <1>1, <1>2, <1>3 DEF Broken, IsJob, Fields
<1>5. /\ IsJob(n) /\ n.at = "record" /\ n.task = j.task /\ n.stage = stage /\ n.failed = failed
      /\ n.status = j.status /\ n.payload = j.payload
  BY <1>2, <1>3 DEF IsJob, Fields
<1>6. j.status # "won" /\ p \notin Mock /\ (j.task # "none" => j.at = "polling")
  BY <1>1, <1>2 DEF JobSound, Before
<1>7. JobSound(p, n)
  BY <1>1, <1>2, <1>5, <1>6 DEF JobSound, Before
<1> QED
  BY <1>1, <1>4, <1>7, JobKeeps

LEMMA ConnectKeeps ==
    ASSUME PushInv, NEW p \in Pushes, Connect(p)
    PROVE  PushInv'
<1>1. PICK j : j = job[p]
  OBVIOUS
<1>2. j.at = "connecting" /\ UNCHANGED <<tasks, taken, touched>>
  BY <1>1 DEF Connect, JobOnly
<1>3. /\ JobSound(p, j) /\ IsJob(j) /\ job = [q \in Pushes |-> job[q]]
      /\ j.task = "none" /\ j.status # "won" /\ p \notin touched /\ j.failed \notin EarlyStages
  BY <1>1, <1>2, JobIs DEF Before
<1>4. \/ \E failed : Broken(p, "connecting", failed)
      \/ job' = [job EXCEPT ![p].at = "pushing", ![p].stage = "pushing"]
  BY DEF Connect
<1>5. CASE \E failed : Broken(p, "connecting", failed)
  BY <1>1, <1>2, <1>5, BrokenKeeps
<1>6. CASE job' = [job EXCEPT ![p].at = "pushing", ![p].stage = "pushing"]
  <2>1. PICK n : n = [j EXCEPT !.at = "pushing", !.stage = "pushing"]
    OBVIOUS
  <2>2. job' = [job EXCEPT ![p] = n]
    BY <1>1, <1>3, <1>6, <2>1 DEF IsJob, Fields
  <2>3. /\ IsJob(n) /\ n.at = "pushing" /\ n.stage = "pushing" /\ n.task = "none" /\ n.status # "won"
        /\ n.failed = j.failed
    BY <1>3, <2>1 DEF IsJob, Fields
  <2>4. p \notin Mock
    BY <1>2, <1>3 DEF JobSound
  <2>5. JobSound(p, n)
    BY <1>3, <2>3, <2>4 DEF JobSound
  <2> QED
    BY <1>1, <1>2, <2>2, <2>5, JobKeeps
<1> QED
  BY <1>4, <1>5, <1>6

LEMMA PushKeeps ==
    ASSUME PushInv, NEW p \in Pushes, Push(p)
    PROVE  PushInv'
<1>1. PICK j : j = job[p]
  OBVIOUS
<1>2. j.at = "pushing" /\ UNCHANGED <<tasks, taken, touched>>
  BY <1>1 DEF Push, JobOnly
<1>3. /\ JobSound(p, j) /\ IsJob(j) /\ job = [q \in Pushes |-> job[q]]
      /\ j.task = "none" /\ j.status # "won" /\ p \notin touched /\ j.failed \notin EarlyStages
  BY <1>1, <1>2, JobIs DEF Before
<1>4. j.stage = "pushing" /\ p \notin Mock
  BY <1>2, <1>3 DEF JobSound
<1>5. \/ job' = [job EXCEPT ![p].at = "polling", ![p].stage = "polling", ![p].task = "pending"]
      \/ \E failed : Broken(p, "logging_out", failed)
      \/ job' = [job EXCEPT ![p].at = "record", ![p].stage = "logging_out", ![p].failed = FailedAt(p),
                            ![p].task = "pending"]
  BY DEF Push
<1>6. CASE job' = [job EXCEPT ![p].at = "polling", ![p].stage = "polling", ![p].task = "pending"]
  <2>1. PICK n : n = [j EXCEPT !.at = "polling", !.stage = "polling", !.task = "pending"]
    OBVIOUS
  <2>2. job' = [job EXCEPT ![p] = n]
    BY <1>1, <1>3, <1>6, <2>1 DEF IsJob, Fields
  <2>3. /\ IsJob(n) /\ n.at = "polling" /\ n.stage = "polling" /\ n.task = "pending" /\ n.status # "won"
        /\ n.failed = j.failed
    BY <1>3, <2>1 DEF IsJob, Fields
  <2>4. JobSound(p, n)
    BY <1>3, <1>4, <2>3 DEF JobSound, Before, EarlyStages
  <2> QED
    BY <1>1, <1>2, <2>2, <2>4, JobKeeps
<1>7. CASE \E failed : Broken(p, "logging_out", failed)
  BY <1>1, <1>2, <1>7, BrokenKeeps
<1>8. CASE job' = [job EXCEPT ![p].at = "record", ![p].stage = "logging_out", ![p].failed = FailedAt(p),
                              ![p].task = "pending"]
  <2>1. FailedAt(p) = "pushing"
    BY <1>1, <1>4 DEF FailedAt
  <2>2. PICK n : n = [j EXCEPT !.at = "record", !.stage = "logging_out", !.failed = "pushing", !.task = "pending"]
    OBVIOUS
  <2>3. job' = [job EXCEPT ![p].at = "record", ![p].stage = "logging_out", ![p].failed = "pushing",
                              ![p].task = "pending"]
    BY <1>8, <2>1
  <2>4. job' = [job EXCEPT ![p] = n]
    BY <1>1, <1>3, <2>2, <2>3 DEF IsJob, Fields
  <2>5. /\ IsJob(n) /\ n.at = "record" /\ n.stage = "logging_out" /\ n.task = "pending" /\ n.status # "won"
        /\ n.failed = "pushing"
    BY <1>3, <2>2 DEF IsJob, Fields
  <2>6. JobSound(p, n)
    BY <1>3, <1>4, <2>5 DEF JobSound, Before, EarlyStages
  <2> QED
    BY <1>1, <1>2, <2>4, <2>6, JobKeeps
<1> QED
  BY <1>5, <1>6, <1>7, <1>8

LEMMA PollKeeps ==
    ASSUME PushInv, NEW p \in Pushes, Poll(p)
    PROVE  PushInv'
<1>1. PICK j : j = job[p]
  OBVIOUS
<1>2. j.at = "polling" /\ UNCHANGED <<tasks, taken, touched>>
  BY <1>1 DEF Poll, JobOnly
<1>3. JobSound(p, j) /\ IsJob(j) /\ job = [q \in Pushes |-> job[q]]
  BY <1>1, JobIs
<1>4. j.stage = "polling" /\ p \notin Mock /\ j.failed \notin EarlyStages
  BY <1>2, <1>3 DEF JobSound
<1>5. \/ Broken(p, "logging_out", FailedAt(p))
      \/ \E status, warned :
            /\ status = "won" /\ ~warned => j.task \in {"ok", "quietly"}
            /\ job' = [job EXCEPT ![p].at = "record", ![p].stage = "logging_out",
                                  ![p].status = status, ![p].warned = warned]
  BY <1>1 DEF Poll, Succeeded
<1>6. CASE Broken(p, "logging_out", FailedAt(p))
  <2>1. FailedAt(p) \notin EarlyStages
    BY <1>1, <1>4 DEF FailedAt, EarlyStages
  <2> QED
    BY <1>1, <1>2, <1>6, <2>1, BrokenKeeps DEF EarlyStages
<1>7. CASE \E status, warned :
            /\ status = "won" /\ ~warned => j.task \in {"ok", "quietly"}
            /\ job' = [job EXCEPT ![p].at = "record", ![p].stage = "logging_out",
                                  ![p].status = status, ![p].warned = warned]
  <2>1. PICK status, warned :
            /\ status = "won" /\ ~warned => j.task \in {"ok", "quietly"}
            /\ job' = [job EXCEPT ![p].at = "record", ![p].stage = "logging_out",
                                  ![p].status = status, ![p].warned = warned]
    BY <1>7
  <2>2. PICK n : n = [j EXCEPT !.at = "record", !.stage = "logging_out", !.status = status, !.warned = warned]
    OBVIOUS
  <2>3. job' = [job EXCEPT ![p] = n]
    BY <1>1, <1>3, <2>1, <2>2 DEF IsJob, Fields
  <2>4. /\ IsJob(n) /\ n.at = "record" /\ n.stage = "logging_out" /\ n.task = j.task /\ n.status = status
        /\ n.failed = j.failed /\ n.warned = warned /\ n.payload = j.payload
    BY <1>3, <2>2 DEF IsJob, Fields
  <2>5. JobSound(p, n)
    BY <1>3, <1>4, <2>1, <2>4 DEF JobSound, Before, EarlyStages
  <2> QED
    BY <1>1, <1>2, <2>3, <2>5, JobKeeps
<1> QED
  BY <1>5, <1>6, <1>7

\* How a thread ends: with the record of its push or, when that fails, without.
LEMMA RecordKeeps ==
    ASSUME PushInv, NEW p \in Pushes, Record(p)
    PROVE  PushInv'
<1>1. PICK j : j = job[p]
  OBVIOUS
<1>2. j.at = "record" /\ UNCHANGED <<taken, touched>> /\ tasks' \subseteq tasks \cup {TaskOf(p)}
  BY <1>1 DEF Record
<1>3. JobSound(p, j) /\ IsJob(j) /\ job = [q \in Pushes |-> job[q]]
  BY <1>1, JobIs
<1>4. job' = Caught(p) \/ job' = Finish(p)
  BY DEF Record
<1>5. \E n : job' = [job EXCEPT ![p] = n] /\ JobSound(p, n) /\ n.at = "done" /\ n.payload = j.payload /\ n.task = j.task
  <2>1. CASE job' = Caught(p)
    <3>1. PICK n : n = [j EXCEPT !.at = "done", !.status = "failed", !.failed = j.stage]
      OBVIOUS
    <3>2. job' = [job EXCEPT ![p] = n]
      BY <1>1, <1>3, <2>1, <3>1 DEF Caught, IsJob, Fields
    <3>3. /\ IsJob(n) /\ n.at = "done" /\ n.stage = j.stage /\ n.task = j.task /\ n.status = "failed"
          /\ n.failed = j.stage /\ n.payload = j.payload
      BY <1>3, <3>1 DEF IsJob, Fields
    <3>4. JobSound(p, n)
      BY <1>2, <1>3, <3>3 DEF JobSound, Before, EarlyStages
    <3> QED
      BY <3>2, <3>3, <3>4
  <2>2. CASE job' = Finish(p)
    <3>1. PICK s : s = Verdict(p)
      OBVIOUS
    <3>2. PICK g : g = IF j.failed = None THEN "done" ELSE j.failed
      OBVIOUS
    <3>3. PICK n : n = [j EXCEPT !.at = "done", !.status = s, !.stage = g]
      OBVIOUS
    <3>4. job' = [job EXCEPT ![p].at = "done", ![p].status = s, ![p].stage = g]
      BY <1>1, <2>2, <3>1, <3>2 DEF Finish
    <3>5. job' = [job EXCEPT ![p] = n]
      BY <1>1, <1>3, <3>3, <3>4 DEF IsJob, Fields
    <3>6. /\ IsJob(n) /\ n.at = "done" /\ n.stage = g /\ n.task = j.task
          /\ n.failed = j.failed /\ n.payload = j.payload
      BY <1>3, <3>3 DEF IsJob, Fields
    <3>7. j.failed \notin EarlyStages => g \notin EarlyStages
      BY <3>2 DEF EarlyStages
    <3>8. JobSound(p, n)
      BY <1>2, <1>3, <3>6, <3>7 DEF JobSound, Before
    <3> QED
      BY <3>5, <3>6, <3>8
  <2> QED
    BY <1>4, <2>1, <2>2
<1>6. PICK n : job' = [job EXCEPT ![p] = n] /\ JobSound(p, n) /\ n.at = "done" /\ n.payload = j.payload /\ n.task = j.task
  BY <1>5
<1>7. job' = [q \in Pushes |-> job'[q]] /\ job'[p] = n /\ \A q \in Pushes : q # p => job'[q] = job[q]
  BY <1>3, <1>6
<1>8. ASSUME NEW q \in Pushes PROVE JobSound(q, job[q])'
  <2>1. PICK x : x = job'[q]
    OBVIOUS
  <2>2. JobSound(q, x)
    BY <1>6, <1>7, <2>1 DEF PushInv
  <2>3. JobSound(q, x)'
    BY <1>2, <2>2 DEF JobSound, Took
  <2> QED
    BY <2>1, <2>3 DEF JobSound
<1>9. ASSUME NEW t \in tasks'
      PROVE  /\ t.of \in Pushes /\ job'[t.of].at = "done"
             /\ t.status = "succeeded" /\ ~t.warned /\ t.of \notin Mock \cup Dry =>
                  Took(t.of, job'[t.of].payload) \/ job'[t.of].task = "quietly"
  <2>1. CASE t \in tasks
    BY <1>1, <1>2, <1>6, <1>7, <2>1 DEF PushInv, RecordsSound, SucceededWasTaken, Green, TakenWhole, Took
  <2>2. CASE t = TaskOf(p)
    <3>1. t.of = p /\ t.status = Verdict(p) /\ t.warned = j.warned
      BY <1>1, <2>2 DEF TaskOf
    <3>2. p \notin Mock /\ Verdict(p) = "succeeded" => j.status = "won"
      BY <1>1 DEF Verdict
    <3>3. p \notin Mock \cup Dry /\ j.status = "won" /\ ~j.warned =>
            Took(p, j.payload) \/ j.task = "quietly"
      BY <1>2, <1>3 DEF JobSound
    <3> QED
      BY <1>6, <1>7, <3>1, <3>2, <3>3
  <2> QED
    BY <1>2, <2>1, <2>2
<1>10. RecordsSound'
  BY <1>2, <1>9 DEF RecordsSound, SucceededWasTaken, Green, TakenWhole, Took
<1> QED
  BY <1>2, <1>7, <1>8, <1>10 DEF PushInv

\* What the gateway took stays taken, and only the push it works on has changed it.
LEMMA ProcessKeeps ==
    ASSUME PushInv, NEW p \in Pushes, Process(p)
    PROVE  PushInv'
<1>1. PICK j : j = job[p]
  OBVIOUS
<1>2. PICK how \in Endings :
         /\ job' = [job EXCEPT ![p].task = how]
         /\ IF p \in Dry \/ how = "failed"
            THEN UNCHANGED <<on, taken, touched>>
            ELSE /\ touched' = touched \cup {p}
                 /\ taken' = IF how = "ok" THEN taken \cup {[of |-> p, what |-> j.payload]} ELSE taken
  BY <1>1 DEF Process
<1>3. j.task = "pending" /\ UNCHANGED tasks
  BY <1>1 DEF Process
<1>4. JobSound(p, j) /\ IsJob(j) /\ job = [q \in Pushes |-> job[q]]
  BY <1>1, JobIs
<1>5. p \notin Mock /\ p \notin touched /\ j.at \notin Before
  BY <1>3, <1>4 DEF JobSound
<1>6. PICK n : n = [j EXCEPT !.task = how]
  OBVIOUS
<1>7. job' = [job EXCEPT ![p] = n]
  BY <1>1, <1>2, <1>4, <1>6 DEF IsJob, Fields
<1>8. /\ IsJob(n) /\ n.at = j.at /\ n.stage = j.stage /\ n.task = how /\ n.status = j.status
      /\ n.failed = j.failed /\ n.warned = j.warned /\ n.payload = j.payload
  BY <1>4, <1>6 DEF IsJob, Fields
<1>9. job' = [q \in Pushes |-> job'[q]] /\ job'[p] = n /\ \A q \in Pushes : q # p => job'[q] = job[q]
  BY <1>4, <1>7
<1>10. taken \subseteq taken' /\ touched \subseteq touched' /\ touched' \subseteq touched \cup {p}
  BY <1>2
<1>11. ASSUME p \in touched' PROVE p \notin Dry /\ how \in {"ok", "partly", "quietly"}
  BY <1>2, <1>5, <1>11 DEF Endings
<1>12. ASSUME p \notin Dry, how = "ok" PROVE Took(p, j.payload)'
  <2>1. taken' = taken \cup {[of |-> p, what |-> j.payload]}
    BY <1>2, <1>12
  <2>2. PICK x : x = [of |-> p, what |-> j.payload]
    OBVIOUS
  <2>3. x \in taken' /\ x.of = p /\ x.what = j.payload
    BY <2>1, <2>2
  <2> QED
    BY <2>3 DEF Took
<1>13. JobSound(p, n)'
  <2>1. Took(p, n.payload)' <=> Took(p, j.payload)'
    BY <1>8 DEF Took
  <2>2. ~(n.at = "record" /\ n.status = "won" /\ ~n.warned)
    BY <1>3, <1>4, <1>5, <1>8 DEF JobSound
  <2>3. n.failed \notin EarlyStages /\ n.stage \notin EarlyStages
    BY <1>3, <1>4, <1>5, <1>8 DEF JobSound
  <2> QED
    BY <1>4, <1>5, <1>8, <1>11, <1>12, <2>1, <2>2, <2>3 DEF JobSound
<1>14. ASSUME NEW q \in Pushes PROVE JobSound(q, job[q])'
  <2>1. CASE q = p
    BY <1>9, <1>13, <2>1 DEF JobSound
  <2>2. CASE q # p
    <3>1. PICK x : x = job[q]
      OBVIOUS
    <3>2. JobSound(q, x)
      BY <3>1 DEF PushInv
    <3>3. q \in touched' => q \in touched
      BY <1>10, <2>2
    <3>4. Took(q, x.payload) => Took(q, x.payload)'
      BY <1>10 DEF Took
    <3>5. JobSound(q, x)'
      BY <3>2, <3>3, <3>4 DEF JobSound
    <3>6. job'[q] = x
      BY <1>9, <2>2, <3>1
    <3> QED
      BY <3>5, <3>6 DEF JobSound
  <2> QED
    BY <2>1, <2>2
<1>15. \A t \in tasks' : /\ t.of \in Pushes /\ job'[t.of].at = "done" /\ job'[t.of].payload = job[t.of].payload
                         /\ job'[t.of].task = job[t.of].task \/ job[t.of].task = "pending"
  BY <1>1, <1>3, <1>8, <1>9 DEF PushInv, RecordsSound
<1>16. RecordsSound'
  <2>1. tasks' = tasks /\ Green' = Green
    BY <1>3 DEF Green
  <2>2. \A t \in Green : TakenWhole(t.of) \/ job[t.of].task = "quietly"
    BY DEF PushInv, RecordsSound, SucceededWasTaken
  <2>3. \A t \in Green : TakenWhole(t.of) => TakenWhole(t.of)'
    BY <1>10, <1>15, <2>1 DEF TakenWhole, Green
  <2>4. \A t \in Green : job[t.of].task = "quietly" => job'[t.of].task = "quietly"
    BY <1>15, <2>1 DEF Green
  <2>5. SucceededWasTaken'
    BY <2>1, <2>2, <2>3, <2>4 DEF SucceededWasTaken
  <2> QED
    BY <1>15, <2>5 DEF RecordsSound
<1>17. touched' \subseteq Pushes
  BY <1>10 DEF PushInv
<1> QED
  BY <1>9, <1>14, <1>16, <1>17 DEF PushInv

LEMMA AnswerKeeps ==
    ASSUME PushInv, NEW p \in Pushes, AnswerAgent(p)
    PROVE  PushInv'
<1>1. PICK j : j = job[p]
  OBVIOUS
<1>2. UNCHANGED <<tasks, taken, touched>>
  BY DEF AnswerAgent
<1>3. JobSound(p, j) /\ IsJob(j) /\ job = [q \in Pushes |-> job[q]]
  BY <1>1, JobIs
<1>4. PICK told : job' = [job EXCEPT ![p].told = told]
  BY DEF AnswerAgent
<1>5. PICK n : n = [j EXCEPT !.told = told]
  OBVIOUS
<1>6. job' = [job EXCEPT ![p] = n]
  BY <1>1, <1>3, <1>4, <1>5 DEF IsJob, Fields
<1>7. /\ IsJob(n) /\ n.at = j.at /\ n.stage = j.stage /\ n.task = j.task /\ n.status = j.status
      /\ n.failed = j.failed /\ n.warned = j.warned /\ n.payload = j.payload
  BY <1>3, <1>5 DEF IsJob, Fields
<1>8. JobSound(p, n)
  BY <1>3, <1>7 DEF JobSound
<1> QED
  BY <1>1, <1>2, <1>6, <1>7, <1>8, JobKeeps

\* A restart loses the thread and the progress, never what the gateway goes on with.
LEMMA RestartKeeps ==
    ASSUME PushInv, Restart
    PROVE  PushInv'
<1> DEFINE ended(j) == j.at \in {"off", "ask", "done", "refused"}
           lost(j) == [j EXCEPT !.at = "lost", !.status = "none"]
<1>1. /\ job' = [p \in Pushes |-> IF ended(job[p]) THEN job[p] ELSE lost(job[p])]
      /\ UNCHANGED <<tasks, taken, touched>>
  BY DEF Restart
<1>2. ASSUME NEW q \in Pushes
      PROVE  /\ JobSound(q, job[q])'
             /\ job[q].at = "done" => job'[q] = job[q]
  <2>1. PICK j : j = job[q]
    OBVIOUS
  <2>2. PICK n : n = job'[q]
    OBVIOUS
  <2>3. JobSound(q, j) /\ IsJob(j)
    BY <2>1, JobIs
  <2>4. CASE ended(j)
    <3>1. n = j
      BY <1>1, <2>1, <2>2, <2>4
    <3>2. JobSound(q, j)'
      BY <1>1, <2>3 DEF JobSound, Took
    <3> QED
      BY <2>1, <2>2, <3>1, <3>2 DEF JobSound
  <2>5. CASE ~ended(j)
    <3>1. n = [j EXCEPT !.at = "lost", !.status = "none"]
      BY <1>1, <2>1, <2>2, <2>5
    <3>2. /\ IsJob(n) /\ n.at = "lost" /\ n.stage = j.stage /\ n.task = j.task /\ n.status = "none"
          /\ n.failed = j.failed /\ n.payload = j.payload
      BY <2>3, <3>1 DEF IsJob, Fields
    <3>3. JobSound(q, n)
      BY <2>3, <3>2 DEF JobSound, Before
    <3>4. JobSound(q, n)'
      BY <1>1, <3>3 DEF JobSound, Took
    <3> QED
      BY <2>1, <2>2, <2>5, <3>4 DEF JobSound
  <2> QED
    BY <2>4, <2>5
<1>3. job' = [q \in Pushes |-> job'[q]]
  BY <1>1
<1>4. \A t \in tasks' : t.of \in Pushes /\ job'[t.of] = job[t.of] /\ job[t.of].at = "done"
  BY <1>1, <1>2 DEF PushInv, RecordsSound
<1>5. RecordsSound'
  BY <1>1, <1>4 DEF PushInv, RecordsSound, SucceededWasTaken, Green, TakenWhole
<1> QED
  BY <1>1, <1>2, <1>3, <1>5 DEF PushInv

---------------------------------------------------------------------------
(* The theorems *)

LEMMA PushInitSound == PushInit => PushInv
<1> SUFFICES ASSUME PushInit PROVE PushInv
  OBVIOUS
<1>1. tasks = {} /\ taken = {} /\ touched = {}
  BY DEF PushInit
<1>2. PICK cast \in Casts :
        job = [p \in Pushes |-> [NoJob EXCEPT !.at = IF p \in cast.pushes THEN "ask" ELSE "off"]]
  BY DEF PushInit
<1>3. ASSUME NEW p \in Pushes PROVE JobSound(p, job[p])
  <2>1. PICK at \in {"ask", "off"} : job[p] = [NoJob EXCEPT !.at = at]
    BY <1>2
  <2>2. PICK j : j = [NoJob EXCEPT !.at = at]
    OBVIOUS
  <2>3. j = [at |-> at, id |-> 0, host |-> None, cert |-> None, fp |-> None, payload |-> None,
             task |-> "none", stage |-> "queued", status |-> "none", failed |-> None,
             warned |-> FALSE, told |-> "nothing"]
    BY <2>2 DEF NoJob
  <2>4. IsJob(j)
    BY <2>3 DEF IsJob, Fields
  <2>5. j.at = at /\ j.task = "none" /\ j.status = "none" /\ j.failed = None
    BY <2>3
  <2>6. None \notin EarlyStages
    BY NoneAssumption DEF EarlyStages
  <2>7. JobSound(p, j)
    BY <1>1, <2>4, <2>5, <2>6 DEF JobSound, Before
  <2> QED
    BY <2>1, <2>2, <2>7
<1>4. job = [p \in Pushes |-> job[p]]
  BY <1>2
<1> QED
  BY <1>1, <1>3, <1>4 DEF PushInv, RecordsSound, SucceededWasTaken, Green, TakenWhole

\* Authoring and the saved gateway.
LEMMA ElsewhereKeeps ==
    ASSUME PushInv, Authoring \/ Profile \/ Rest \/ UNCHANGED pushVars
    PROVE  PushInv'
<1>1. CASE Authoring
  <2>1. UNCHANGED <<job, taken, touched>> /\ tasks' \subseteq tasks
    BY <1>1 DEF Authoring, Create, ReadDraft, SaveDraft, Import, AgentImport, Update, QuickEdit, Delete,
       DeleteHistory, AuthorOnly
  <2> QED
    BY <2>1, AsideKeeps
<1>2. CASE Profile
  <2>1. UNCHANGED <<job, taken, touched>> /\ tasks' \subseteq tasks
    BY <1>2 DEF Profile, NewGateway, EditGateway, SetCert, DeleteGateway, PinNow, Fetch, GatewayOnly
  <2> QED
    BY <2>1, AsideKeeps
<1>3. CASE Rest \/ UNCHANGED pushVars
  <2>1. UNCHANGED <<job, taken, touched>> /\ tasks' \subseteq tasks
    BY <1>3 DEF Rest, pushVars
  <2> QED
    BY <2>1, AsideKeeps
<1> QED
  BY <1>1, <1>2, <1>3

LEMMA PushStepKeeps == PushInv /\ [PushNext]_pushVars => PushInv'
<1> SUFFICES ASSUME PushInv, [PushNext]_pushVars PROVE PushInv'
  OBVIOUS
<1>1. CASE Authoring \/ Profile \/ Rest \/ UNCHANGED pushVars
  BY <1>1, ElsewhereKeeps
<1>2. CASE Restart
  BY <1>2, RestartKeeps
<1>3. ASSUME NEW p \in Pushes,
             PortalAsk(p) \/ AgentAsk(p) \/ Connected(p) \/ Thread(p) \/ Process(p) \/ AnswerAgent(p)
      PROVE  PushInv'
  BY <1>3, AskKeeps, AgentAskKeeps, ConnectedKeeps, ReadLayerKeeps, RunMockKeeps, ConnectKeeps, PushKeeps,
     PollKeeps, RecordKeeps, ProcessKeeps, AnswerKeeps
  DEF Thread
<1> QED
  BY <1>1, <1>2, <1>3 DEF PushNext

\* What each push has reached, against what the gateways took of it, is an invariant (_run()).
THEOREM PushInvariant == PushSpec => []PushInv
<1>1. PushInit => PushInv
  BY PushInitSound
<1>2. PushInv /\ [PushNext]_pushVars => PushInv'
  BY PushStepKeeps
<1> QED
  BY <1>1, <1>2, PTL DEF PushSpec

\* A record that says succeeded, without the warning that the task was not confirmed, is of a push
\* whose task ended, and that the gateway took whole or had no error to show for (_run(), _finish()).
THEOREM Taken == PushSpec => []SucceededWasTaken
<1>1. PushInv => SucceededWasTaken
  BY DEF PushInv, RecordsSound
<1> QED
  BY <1>1, PushInvariant, PTL

\* A push that is shown to have broken while connecting or logging in, a dry run and one to the
\* mock changed no gateway (_run()).
THEOREM EarlyLeavesAlone == PushSpec => []FailedEarlyLeftAlone
<1>1. PushInv => FailedEarlyLeftAlone
  <2> SUFFICES ASSUME PushInv, NEW p \in touched
               PROVE  /\ p \notin Mock \cup Dry
                      /\ job[p].at = "done" => job[p].failed \notin {"connecting", "logging_in"}
    BY DEF FailedEarlyLeftAlone
  <2>1. p \in Pushes /\ JobSound(p, job[p])
    BY DEF PushInv
  <2>2. job[p].task \in {"ok", "partly", "quietly"} /\ p \notin Mock \cup Dry
    BY <2>1 DEF JobSound
  <2>3. job[p].failed \notin EarlyStages
    BY <2>1, <2>2 DEF JobSound
  <2> QED
    BY <2>2, <2>3 DEF EarlyStages
<1> QED
  BY <1>1, PushInvariant, PTL
=============================================================================
