---------------------------- MODULE SessionsProofs ----------------------------
(***************************************************************************)
(* Proofs about Sessions for every set of applies and reads, every number   *)
(* of sessions, of faults and of edits of the server's row: what an apply   *)
(* commits is its own, what is kept for the next apply is clean, and what   *)
(* stays open is known.                                                     *)
(***************************************************************************)
EXTENDS Sessions, TLAPS

---------------------------------------------------------------------------
(* The inductive invariant                                                 *)

\* An apply has a session in hand, and a pooled one has the lock as well.
Hands == {"stage", "commit", "undo", "clean", "drop"}
Locks == {"probe", "login"} \cup Hands
ReadHands == {"insert", "wait", "read"}

Session == [ro : BOOLEAN, in : BOOLEAN, open : BOOLEAN, on : BOOLEAN,
            holds : SUBSET Calls, user : Actors \cup {None}, host : Nat]

Commitment == [by : Calls, of : Calls, host : Nat]

\* Sessions, pools and requests are as the process and the server hold them.
TypeOK ==
    /\ ses \in Seq(Session)
    /\ wpool \in 0 .. Len(ses) /\ rpool \in 0 .. Len(ses)
    /\ wlock \in Calls \cup {None, "closer"}
    /\ pc \in [Actors -> Locks \cup ReadHands \cup {"start", "off", "done", "rlogin"}]
    /\ my \in [Actors -> 0 .. Len(ses)]
    /\ told \in [Actors -> {"nothing", "failed", "published", "validated", "read"}]
    /\ asked \in [Actors -> Nat] /\ conf \in Nat
    /\ closer \in [at : {"up", "closing", "wait", "take", "discard", "logout", "down"}, took : 0 .. Len(ses)]
    /\ gaveUp \in BOOLEAN /\ faults \in Nat
    /\ committed \subseteq Commitment
    /\ unheard \subseteq 1 .. Len(ses)

\* A request has a session while it works with it; of the pooled applies that is the one
\* that has the lock.
HandsFull ==
    /\ \A c \in Calls : pc[c] \in Hands <=> my[c] # 0
    /\ \A c \in Calls : IF c \in Private THEN wlock # c /\ pc[c] \notin {"probe", "login"}
                        ELSE wlock = c <=> pc[c] \in Locks
    /\ \A c \in Calls : pc[c] \in Locks \cup {"start", "off", "done"}
    /\ \A r \in Readers : pc[r] \in ReadHands <=> my[r] # 0
    /\ \A r \in Readers : pc[r] \in ReadHands \cup {"start", "off", "done", "rlogin"}

\* Reads and applies never share a session, and nothing is staged in a reader.
KindsKept ==
    /\ \A c \in Calls : my[c] # 0 => ~ses[my[c]].ro
    /\ \A r \in Readers : my[r] # 0 => ses[my[r]].ro
    /\ wpool # 0 => ~ses[wpool].ro
    /\ rpool # 0 => ses[rpool].ro
    /\ closer.took # 0 => ~ses[closer.took].ro
    /\ \A i \in DOMAIN ses : ses[i].ro => ses[i].holds = {}

\* Two applies never have the same session, and a private one is neither kept nor taken.
Alone ==
    /\ \A c, d \in Calls : my[c] # 0 /\ my[c] = my[d] => c = d
    /\ \A c \in Private : my[c] # 0 => my[c] # wpool /\ my[c] # closer.took

\* The shutdown works on a session that was kept, and that nobody is given any more.
CloserKnows ==
    /\ closer.at \in {"wait", "take", "discard", "logout"} => closer.took # 0
    /\ closer.at \in {"discard", "logout"} => wpool # closer.took
    /\ wlock = "closer" => closer.at \in {"take", "discard", "logout"}
    /\ closer.at \in {"take", "discard", "logout"} /\ ~gaveUp => wlock = "closer"

Torn(i) == closer.at \in {"discard", "logout"} /\ closer.took = i

\* What is kept is logged in, as far as the process knows.
KeptIsIn == wpool # 0 => ses[wpool].in /\ ses[wpool].open

\* While an apply logs in there is no session it would displace.
NothingKept == \A c \in Calls : pc[c] = "login" => wpool = 0

\* What a session holds was staged by the apply that has it in hand, or the session is
\* out of use.
HoldsOwn == \A i \in DOMAIN ses : \A x \in ses[i].holds : ~ses[i].in \/ my[x] = i

\* What an apply is about to publish is there, or the server will not take it.
ReadyToCommit ==
    \A c \in Calls : pc[c] = "commit" /\ ~gaveUp => c \in ses[my[c]].holds \/ ~Alive(my[c])

\* The session of a pooled apply is the one kept, unless the shutdown took it.
PooledInHand ==
    \A c \in Calls \ Private : my[c] # 0 => my[c] = wpool \/ Torn(my[c]) \/ ~ses[my[c]].open

\* A session is open in the process only where somebody will close it or find it.
OpenIsKnown ==
    \A i \in DOMAIN ses : ses[i].open =>
        \/ i = wpool \/ i = rpool \/ Torn(i)
        \/ \E c \in Calls : my[c] = i
        \/ \E r \in Readers : pc[r] = "insert" /\ my[r] = i

\* What is open on the server is logged in as far as the process knows, unless a logout was lost; and
\* its client is open, but for one session that a read logged in again while the shutdown closed it.
OnIsOpen ==
    /\ \A i \in DOMAIN ses : ses[i].on => ses[i].in \/ i \in unheard
    /\ closer.at \in {"up", "closing"} => \A i \in DOMAIN ses : ~Reopened(i)
    /\ \A i, j \in DOMAIN ses : Reopened(i) /\ Reopened(j) => i = j

IInv ==
    /\ TypeOK
    /\ HandsFull
    /\ KindsKept
    /\ Alone
    /\ CloserKnows
    /\ KeptIsIn
    /\ NothingKept
    /\ HoldsOwn
    /\ ReadyToCommit
    /\ PooledInHand
    /\ OpenIsKnown
    /\ OnIsOpen
    /\ OwnChangesOnly
    /\ PublishedIsCommitted

---------------------------------------------------------------------------
(* Sessions one at a time                                                  *)

\* The sessions of a state, as the server and the process have them after a step.
Same(j) == /\ ses'[j] \in Session
           /\ ses'[j].ro = ses[j].ro /\ ses'[j].host = ses[j].host

\* A session may lose what it is or holds, but gets nothing.
Falls(j) == /\ Same(j)
            /\ ses'[j].in => ses[j].in /\ ses'[j].open = ses[j].open
            /\ ses'[j].open => ses[j].open
            /\ ses'[j].on => ses[j].on
            /\ ses'[j].holds \subseteq ses[j].holds

\* One session changes.
LEMMA SessionChanges ==
    ASSUME TypeOK, NEW i \in DOMAIN ses, NEW s \in Session, ses' = [ses EXCEPT ![i] = s]
    PROVE  /\ ses' \in Seq(Session) /\ Len(ses') = Len(ses) /\ DOMAIN ses' = DOMAIN ses
           /\ ses'[i] = s
           /\ \A j \in DOMAIN ses : j # i => ses'[j] = ses[j]
  BY DEF TypeOK

\* A login adds a session.
LEMMA SessionAdded ==
    ASSUME TypeOK, NEW s \in Session, ses' = Append(ses, s)
    PROVE  /\ ses' \in Seq(Session) /\ Len(ses') = Len(ses) + 1
           /\ DOMAIN ses' = DOMAIN ses \cup {Len(ses) + 1}
           /\ ses'[Len(ses) + 1] = s
           /\ \A j \in DOMAIN ses : ses'[j] = ses[j]
  BY DEF TypeOK

LEMMA SessionIs == ASSUME TypeOK, NEW i \in DOMAIN ses PROVE ses[i] \in Session
  BY DEF TypeOK

\* Discarding, logging out and closing.
LEMMA DroppedIs ==
    ASSUME TypeOK, NEW i \in DOMAIN ses, NEW discarded \in BOOLEAN, NEW out \in BOOLEAN,
           ses' = Dropped(i, discarded, out)
    PROVE  /\ ses' \in Seq(Session) /\ Len(ses') = Len(ses) /\ DOMAIN ses' = DOMAIN ses
           /\ \A j \in DOMAIN ses : Falls(j) /\ (j # i => ses'[j] = ses[j])
           /\ ~ses'[i].in /\ ~ses'[i].open
           /\ out => ~ses'[i].on
<1> DEFINE s == [ses[i] EXCEPT !.holds = IF discarded /\ Alive(i) THEN {} ELSE @,
                               !.on = @ /\ ~out, !.in = FALSE, !.open = FALSE]
<1>1. ses[i] \in Session
  BY SessionIs
<1>2. ses' = [ses EXCEPT ![i] = s]
  BY <1>1 DEF Dropped, TypeOK
<1>3. /\ s \in Session /\ ~s.in /\ ~s.open /\ s.ro = ses[i].ro /\ s.host = ses[i].host
      /\ s.holds \subseteq ses[i].holds /\ (s.on <=> ses[i].on /\ ~out)
  BY <1>1 DEF Session
<1> HIDE DEF s
<1>4. QED
  BY <1>1, <1>2, <1>3, SessionChanges, SessionIs DEF Falls, Same

\* Discarding alone.
LEMMA EmptiedIs ==
    ASSUME TypeOK, NEW i \in DOMAIN ses, ses' = Emptied(i) \/ ses' = Cleaned(i)
    PROVE  /\ ses' \in Seq(Session) /\ Len(ses') = Len(ses) /\ DOMAIN ses' = DOMAIN ses
           /\ \A j \in DOMAIN ses : Falls(j) /\ (j # i => ses'[j] = ses[j])
           /\ ses'[i].holds = {}
           /\ ses'[i].in = ses[i].in /\ ses'[i].open = ses[i].open /\ ses'[i].on = ses[i].on
<1>1. ses[i] \in Session
  BY SessionIs
<1>2. CASE ses' = Emptied(i)
  <2> DEFINE s == [ses[i] EXCEPT !.holds = {}]
  <2>1. ses' = [ses EXCEPT ![i] = s]
    BY <1>2 DEF Emptied
  <2>2. /\ s \in Session /\ s.in = ses[i].in /\ s.open = ses[i].open /\ s.on = ses[i].on
        /\ s.ro = ses[i].ro /\ s.host = ses[i].host /\ s.holds = {}
    BY <1>1 DEF Session
  <2> HIDE DEF s
  <2>3. QED
    BY <1>1, <2>1, <2>2, SessionChanges, SessionIs DEF Falls, Same
<1>3. CASE ses' = Cleaned(i)
  <2> DEFINE s == [ses[i] EXCEPT !.holds = {}, !.user = None]
  <2>1. ses' = [ses EXCEPT ![i] = s]
    BY <1>1, <1>3 DEF Cleaned, Emptied, TypeOK
  <2>2. /\ s \in Session /\ s.in = ses[i].in /\ s.open = ses[i].open /\ s.on = ses[i].on
        /\ s.ro = ses[i].ro /\ s.host = ses[i].host /\ s.holds = {}
    BY <1>1 DEF Session
  <2> HIDE DEF s
  <2>3. QED
    BY <1>1, <2>1, <2>2, SessionChanges, SessionIs DEF Falls, Same
<1>4. QED
  BY <1>2, <1>3

\* Letting go of a session: it is out of use, and off on the server unless that was lost.
LEMMA DropIs ==
    ASSUME TypeOK, NEW i \in DOMAIN ses, Drop(i)
    PROVE  /\ ses' \in Seq(Session) /\ Len(ses') = Len(ses) /\ DOMAIN ses' = DOMAIN ses
           /\ \A j \in DOMAIN ses : Falls(j) /\ (j # i => ses'[j] = ses[j])
           /\ ~ses'[i].in /\ ~ses'[i].open
           /\ ses'[i].on => i \in unheard'
           /\ unheard \subseteq unheard' /\ unheard' \subseteq 1 .. Len(ses)
           /\ wpool' = IF wpool = i THEN 0 ELSE wpool
           /\ faults' \in Nat
<1>1. \/ ses' = Dropped(i, TRUE, TRUE) /\ UNCHANGED <<faults, unheard>>
      \/ ses' = Dropped(i, FALSE, TRUE) /\ faults' = faults + 1 /\ UNCHANGED unheard
      \/ ses' = Dropped(i, TRUE, FALSE) /\ faults' = faults + 1 /\ unheard' = unheard \cup {i}
  BY DEF Drop, Fault
<1>2. wpool' = IF wpool = i THEN 0 ELSE wpool
  BY DEF Drop
<1>3. unheard \subseteq unheard' /\ unheard' \subseteq 1 .. Len(ses) /\ faults' \in Nat
  <2>1. faults \in Nat /\ unheard \subseteq 1 .. Len(ses) /\ i \in 1 .. Len(ses)
    BY DEF TypeOK
  <2>2. faults' \in Nat
    <3>1. faults' = faults \/ faults' = faults + 1
      BY <1>1
    <3>2. QED
      BY <2>1, <3>1
  <2>3. unheard \subseteq unheard' /\ unheard' \subseteq unheard \cup {i}
    <3>1. unheard' = unheard \/ unheard' = unheard \cup {i}
      BY <1>1
    <3>2. QED
      BY <3>1
  <2>4. QED
    BY <2>1, <2>2, <2>3
<1>4. CASE ses' = Dropped(i, TRUE, TRUE)
  BY <1>2, <1>3, <1>4, DroppedIs
<1>5. CASE ses' = Dropped(i, FALSE, TRUE)
  BY <1>2, <1>3, <1>5, DroppedIs
<1>6. CASE ses' = Dropped(i, TRUE, FALSE) /\ unheard' = unheard \cup {i}
  BY <1>2, <1>3, <1>6, DroppedIs
<1>7. QED
  BY <1>1, <1>4, <1>5, <1>6

---------------------------------------------------------------------------
(* Requests one at a time                                                  *)

Places == Locks \cup ReadHands \cup {"start", "off", "done", "rlogin"}
Answers == {"nothing", "failed", "published", "validated", "read"}

LEMMA Going ==
    ASSUME TypeOK, NEW a \in Actors, NEW p \in Places, Go(a, p)
    PROVE  /\ pc' \in [Actors -> Places] /\ pc'[a] = p
           /\ \A b \in Actors : b # a => pc'[b] = pc[b]
  BY DEF Go, TypeOK, Places

LEMMA Saying ==
    ASSUME TypeOK, NEW a \in Actors, NEW w \in Answers, Say(a, w)
    PROVE  /\ told' \in [Actors -> Answers] /\ told'[a] = w
           /\ \A b \in Actors : b # a => told'[b] = told[b]
  BY DEF Say, TypeOK, Answers

LEMMA Holding ==
    ASSUME TypeOK, NEW a \in Actors, NEW i \in Nat, my' = [my EXCEPT ![a] = i]
    PROVE  /\ my' \in [Actors -> 0 .. Len(ses) \cup {i}] /\ my'[a] = i
           /\ \A b \in Actors : b # a => my'[b] = my[b]
  BY DEF TypeOK

\* The parts of the invariant, to start from.
LEMMA Parts ==
    IInv => /\ TypeOK /\ HandsFull /\ KindsKept /\ Alone /\ CloserKnows /\ KeptIsIn /\ NothingKept /\ HoldsOwn
            /\ ReadyToCommit /\ PooledInHand /\ OpenIsKnown /\ OnIsOpen
            /\ OwnChangesOnly /\ PublishedIsCommitted
  BY DEF IInv

LEMMA ActorsAre == Calls \subseteq Actors /\ Readers \subseteq Actors /\ Calls \cap Readers = {}
                   /\ Private \subseteq Calls /\ None \notin Actors /\ "closer" \notin Calls /\ "closer" # None
  BY SetsAssumption, NoneAssumption DEF Actors

\* Every number that stands for a session is one of the sessions, or none.
LEMMA Ranges ==
    TypeOK => /\ DOMAIN ses = 1 .. Len(ses) /\ Len(ses) \in Nat
              /\ wpool = 0 \/ wpool \in DOMAIN ses
              /\ rpool = 0 \/ rpool \in DOMAIN ses
              /\ closer.took = 0 \/ closer.took \in DOMAIN ses
              /\ \A a \in Actors : my[a] = 0 \/ my[a] \in DOMAIN ses
              /\ 0 \notin DOMAIN ses
<1> SUFFICES ASSUME TypeOK PROVE /\ DOMAIN ses = 1 .. Len(ses) /\ Len(ses) \in Nat
                                 /\ wpool \in 0 .. Len(ses) /\ rpool \in 0 .. Len(ses)
                                 /\ closer.took \in 0 .. Len(ses)
                                 /\ \A a \in Actors : my[a] \in 0 .. Len(ses)
  OBVIOUS
<1>1. QED
  BY DEF TypeOK

---------------------------------------------------------------------------
(* The applies                                                             *)

LEMMA StepStage == ASSUME IInv, NEW c \in Calls, Stage(c) PROVE IInv'
<1> DEFINE i == my[c]
<1> USE Parts, ActorsAre
<1>1. /\ pc[c] = "stage" /\ i # 0 /\ i \in DOMAIN ses /\ ~ses[i].ro
      /\ UNCHANGED <<wpool, wlock, rpool, my, told, asked, conf, closer, gaveUp, committed, unheard>>
      /\ faults' \in Nat
  BY DEF Stage, HandsFull, KindsKept, TypeOK, Hands, Idle, Answered, Lost, Refused, Fault
<1>2. pc' \in [Actors -> Places] /\ pc'[c] \in {"commit", "undo"} /\ \A b \in Actors : b # c => pc'[b] = pc[b]
  BY Going DEF Stage, Places, Locks, Hands
<1>3. /\ ses' \in Seq(Session) /\ Len(ses') = Len(ses) /\ DOMAIN ses' = DOMAIN ses
      /\ \A j \in DOMAIN ses : /\ Same(j)
                               /\ ses'[j].in = ses[j].in /\ ses'[j].open = ses[j].open /\ ses'[j].on = ses[j].on
                               /\ j # i => ses'[j] = ses[j]
      /\ ses'[i].holds \subseteq ses[i].holds \cup {c}
      /\ pc'[c] = "commit" => c \in ses'[i].holds
  <2>1. CASE UNCHANGED ses /\ Go(c, "undo")
    BY <1>1, <2>1, SessionIs, Going DEF TypeOK, Same, Places, Locks, Hands
  <2>2. CASE ses' = Staged(i, c)
    <3> DEFINE s == [ses[i] EXCEPT !.holds = @ \cup {c}]
    <3>1. ses[i] \in Session
      BY <1>1, SessionIs
    <3>2. ses' = [ses EXCEPT ![i] = s]
      BY <2>2 DEF Staged
    <3>3. /\ s \in Session /\ s.in = ses[i].in /\ s.open = ses[i].open /\ s.on = ses[i].on
          /\ s.ro = ses[i].ro /\ s.host = ses[i].host /\ s.holds = ses[i].holds \cup {c}
      BY <3>1 DEF Session
    <3> HIDE DEF s
    <3>4. QED
      BY <1>1, <3>1, <3>2, <3>3, SessionChanges, SessionIs DEF Same
  <2>3. QED
    BY <2>1, <2>2 DEF Stage
<1>a. TypeOK'
  BY <1>1, <1>2, <1>3 DEF TypeOK, Places
<1>b. HandsFull' /\ NothingKept'
  BY <1>1, <1>2 DEF HandsFull, Hands, Locks, NothingKept
<1>c. KindsKept'
  BY <1>1, <1>3, Ranges DEF KindsKept, Same
<1>d. Alone' /\ CloserKnows'
  BY <1>1 DEF Alone, CloserKnows
<1>e. KeptIsIn'
  BY <1>1, <1>3, Ranges DEF KeptIsIn
<1>f. HoldsOwn'
  BY <1>1, <1>3 DEF HoldsOwn
<1>g. ReadyToCommit'
  <2>1. ASSUME NEW d \in Calls, d # c, pc'[d] = "commit" /\ ~gaveUp'
        PROVE  d \in ses'[my'[d]].holds \/ ~Alive(my[d])'
    <3>1. pc[d] = "commit" /\ my[d] \in DOMAIN ses /\ my[d] # i
      BY <1>1, <1>2, <2>1, Ranges DEF Alone, HandsFull, Hands
    <3>2. QED
      BY <1>1, <1>3, <2>1, <3>1 DEF ReadyToCommit, Alive
  <2>2. QED
    BY <1>1, <1>3, <2>1 DEF ReadyToCommit
<1>h. PooledInHand'
  BY <1>1, <1>3, Ranges DEF PooledInHand, Torn
<1>i. OpenIsKnown'
  BY <1>1, <1>2, <1>3 DEF OpenIsKnown, Torn
<1>j. OnIsOpen'
  BY <1>1, <1>3 DEF OnIsOpen, Reopened
<1>k. OwnChangesOnly' /\ PublishedIsCommitted'
  BY <1>1 DEF OwnChangesOnly, PublishedIsCommitted
<1>l. QED
  BY <1>a, <1>b, <1>c, <1>d, <1>e, <1>f, <1>g, <1>h, <1>i, <1>j, <1>k DEF IInv

\* Where sessions only lose what they hold, and nothing is given or taken back, the parts of
\* the invariant that tell who has what stay.
LEMMA WhileFalling ==
    ASSUME IInv, DOMAIN ses' = DOMAIN ses,
           \A j \in DOMAIN ses : Falls(j) /\ ses'[j].in = ses[j].in /\ ses'[j].open = ses[j].open,
           UNCHANGED <<wpool, rpool, my>>, closer'.took = closer.took,
           closer'.at \in {"discard", "logout"} <=> closer.at \in {"discard", "logout"},
           closer'.at \in {"up", "closing"} => closer.at \in {"up", "closing"},
           unheard \subseteq unheard', \A r \in Readers : pc'[r] = pc[r]
    PROVE  KindsKept' /\ Alone' /\ KeptIsIn' /\ HoldsOwn' /\ PooledInHand' /\ OpenIsKnown' /\ OnIsOpen'
<1> USE Parts, ActorsAre
<1>1. KindsKept'
  BY Ranges DEF KindsKept, Falls, Same
<1>2. Alone'
  BY DEF Alone
<1>3. KeptIsIn'
  BY Ranges DEF KeptIsIn
<1>4. HoldsOwn'
  BY DEF HoldsOwn, Falls
<1>5. PooledInHand'
  BY Ranges DEF PooledInHand, Torn
<1>6. OpenIsKnown'
  BY DEF OpenIsKnown, Torn
<1>7. OnIsOpen'
  BY DEF OnIsOpen, Reopened, Falls
<1>8. QED
  BY <1>1, <1>2, <1>3, <1>4, <1>5, <1>6, <1>7

\* Where the session of an apply is dropped as it leaves.
LEMMA WhileDropping ==
    ASSUME IInv, NEW c \in Calls, my[c] # 0, Drop(my[c]), my' = [my EXCEPT ![c] = 0],
           UNCHANGED <<rpool, closer>>, \A r \in Readers : pc'[r] = pc[r]
    PROVE  /\ KindsKept' /\ Alone' /\ KeptIsIn' /\ HoldsOwn' /\ PooledInHand' /\ OpenIsKnown' /\ OnIsOpen'
           /\ my' \in [Actors -> 0 .. Len(ses)] /\ my'[c] = 0
           /\ \A b \in Actors : b # c => my'[b] = my[b]
           /\ wpool' \in {0, wpool}
<1> DEFINE i == my[c]
<1> USE Parts, ActorsAre
<1>1. i \in DOMAIN ses
  BY Ranges
<1>2. /\ DOMAIN ses' = DOMAIN ses
      /\ \A j \in DOMAIN ses : Falls(j) /\ (j # i => ses'[j] = ses[j])
      /\ ~ses'[i].in /\ ~ses'[i].open
      /\ ses'[i].on => i \in unheard'
      /\ unheard \subseteq unheard'
      /\ wpool' = IF wpool = i THEN 0 ELSE wpool
  BY <1>1, DropIs
<1>3. /\ my' \in [Actors -> 0 .. Len(ses)] /\ my'[c] = 0
      /\ \A b \in Actors : b # c => my'[b] = my[b]
  BY DEF TypeOK
<1>4. KindsKept'
  BY <1>2, <1>3, Ranges DEF KindsKept, Falls, Same
<1>5. Alone'
  BY <1>2, <1>3 DEF Alone
<1>6. KeptIsIn'
  BY <1>2, Ranges DEF KeptIsIn
<1>7. HoldsOwn'
  BY <1>1, <1>2, <1>3, SessionIs DEF HoldsOwn, Falls, Session, Same
<1>8. PooledInHand'
  BY <1>2, <1>3, Ranges DEF PooledInHand, Torn, Alone
<1>9. OpenIsKnown'
  BY <1>2, <1>3 DEF OpenIsKnown, Torn, Falls
<1>10. OnIsOpen'
  BY <1>2 DEF OnIsOpen, Reopened, Falls
<1>11. QED
  BY <1>2, <1>3, <1>4, <1>5, <1>6, <1>7, <1>8, <1>9, <1>10

LEMMA StepCommit == ASSUME IInv, NEW c \in Calls, Commit(c) PROVE IInv'
<1> DEFINE i == my[c]
<1> USE Parts, ActorsAre
<1>1. /\ pc[c] = "commit" /\ i # 0 /\ i \in DOMAIN ses
      /\ UNCHANGED <<wpool, wlock, rpool, my, asked, conf, closer, gaveUp, unheard>>
      /\ faults' \in Nat
  <2>1. pc[c] = "commit" /\ UNCHANGED <<wpool, wlock, rpool, my, asked, conf, closer, gaveUp, unheard>>
    BY DEF Commit, Idle
  <2>2. faults' = faults \/ faults' = faults + 1
    BY DEF Commit, Answered, Lost, Refused, Fault
  <2>3. QED
    BY <2>1, <2>2, Ranges DEF HandsFull, Hands, TypeOK
<1>2. pc' \in [Actors -> Places] /\ pc'[c] \in {"clean", "undo"} /\ \A b \in Actors : b # c => pc'[b] = pc[b]
  BY Going DEF Commit, Places, Locks, Hands
<1>3. /\ ses' \in Seq(Session) /\ Len(ses') = Len(ses) /\ DOMAIN ses' = DOMAIN ses
      /\ \A j \in DOMAIN ses : /\ Falls(j) /\ (j # i => ses'[j] = ses[j])
                               /\ ses'[j].in = ses[j].in /\ ses'[j].open = ses[j].open
  <2>1. CASE UNCHANGED ses
    BY <2>1, SessionIs DEF TypeOK, Falls, Same
  <2>2. CASE ses' = Emptied(i)
    BY <1>1, <2>2, EmptiedIs
  <2>3. QED
    BY <2>1, <2>2 DEF Commit
<1>4. /\ told' \in [Actors -> Answers]
      /\ \A b \in Actors : b # c => told'[b] = told[b]
      /\ told'[c] = told[c] \/ told'[c] = IF c \in Publishing THEN "published" ELSE "validated"
  BY Saying DEF Commit, Answers, TypeOK
<1>5. committed' = committed \/ (Alive(i) /\ c \in Publishing /\ committed' = committed \cup Commits(i, c))
  BY DEF Commit, Answered, Lost
<1>6. Alive(i) => \A x \in Commits(i, c) : x.by = c /\ x.of = c /\ x \in Commitment
  <2>1. Alive(i) => \A x \in ses[i].holds : x = c
    <3>1. ASSUME Alive(i), NEW x \in ses[i].holds PROVE x = c
      <4>1. x \in Calls
        BY <1>1, SessionIs DEF Session
      <4>2. my[x] = i
        BY <1>1, <3>1 DEF HoldsOwn, Alive
      <4>3. QED
        BY <1>1, <4>1, <4>2 DEF Alone
    <3>2. QED
      BY <3>1
  <2>2. ses[i].host \in Nat
    BY <1>1, SessionIs DEF Session
  <2>3. QED
    BY <2>1, <2>2 DEF Commits, Commitment
<1>a. TypeOK'
  BY <1>1, <1>2, <1>3, <1>4, <1>5, <1>6 DEF TypeOK, Places, Answers
<1>b. HandsFull' /\ NothingKept'
  BY <1>1, <1>2 DEF HandsFull, Hands, Locks, NothingKept
<1>c. KindsKept' /\ Alone' /\ KeptIsIn' /\ HoldsOwn' /\ PooledInHand' /\ OpenIsKnown' /\ OnIsOpen'
  BY <1>1, <1>2, <1>3, WhileFalling
<1>d. CloserKnows'
  BY <1>1 DEF CloserKnows
<1>e. ReadyToCommit'
  <2>1. ASSUME NEW d \in Calls, pc'[d] = "commit" /\ ~gaveUp'
        PROVE  d \in ses'[my'[d]].holds \/ ~Alive(my[d])'
    <3>1. pc[d] = "commit" /\ my[d] \in DOMAIN ses /\ my[d] # i
      BY <1>1, <1>2, <2>1, Ranges DEF Alone, HandsFull, Hands
    <3>2. QED
      BY <1>1, <1>3, <2>1, <3>1 DEF ReadyToCommit, Alive
  <2>2. QED
    BY <1>1, <1>3, <2>1 DEF ReadyToCommit
<1>f. OwnChangesOnly'
  BY <1>5, <1>6 DEF OwnChangesOnly
<1>g. PublishedIsCommitted'
  <2>1. committed \subseteq committed'
    BY <1>5
  <2>2. ASSUME told'[c] = "published", told[c] # "published", ~gaveUp
        PROVE  \E x \in committed' : x.by = c /\ x.of = c
    <3>1. Answered(i) /\ c \in Publishing /\ committed' = committed \cup Commits(i, c)
      <4>1. told' # told
        BY <2>2
      <4>2. /\ Answered(i) /\ Say(c, IF c \in Publishing THEN "published" ELSE "validated")
            /\ committed' = IF c \in Publishing THEN committed \cup Commits(i, c) ELSE committed
        BY <4>1 DEF Commit
      <4>3. told'[c] = IF c \in Publishing THEN "published" ELSE "validated"
        BY <4>2 DEF Say, TypeOK
      <4>4. QED
        BY <2>2, <4>2, <4>3
    <3>2. c \in ses[i].holds
      BY <1>1, <2>2, <3>1 DEF ReadyToCommit, Answered
    <3>3. [by |-> c, of |-> c, host |-> ses[i].host] \in committed'
      BY <3>1, <3>2 DEF Commits
    <3>4. QED
      BY <3>3
  <2>3. QED
    BY <1>1, <1>4, <2>1, <2>2 DEF PublishedIsCommitted
<1>h. QED
  BY <1>a, <1>b, <1>c, <1>d, <1>e, <1>f, <1>g DEF IInv

LEMMA StepUndo == ASSUME IInv, NEW c \in Calls, Undo(c) PROVE IInv'
<1> DEFINE i == my[c]
<1> USE Parts, ActorsAre
<1>1. /\ pc[c] = "undo" /\ i # 0 /\ i \in DOMAIN ses
      /\ UNCHANGED <<wpool, wlock, rpool, my, asked, conf, closer, gaveUp, committed, unheard>>
      /\ faults' \in Nat
  <2>1. pc[c] = "undo" /\ UNCHANGED <<wpool, wlock, rpool, my, asked, conf, closer, gaveUp, committed, unheard>>
    BY DEF Undo, Idle
  <2>2. faults' = faults \/ faults' = faults + 1
    BY DEF Undo, Answered, Lost, Refused, Fault
  <2>3. QED
    BY <2>1, <2>2, Ranges DEF HandsFull, Hands, TypeOK
<1>2. pc' \in [Actors -> Places] /\ pc'[c] \in {"drop", "clean"} /\ \A b \in Actors : b # c => pc'[b] = pc[b]
  BY Going DEF Undo, Places, Locks, Hands
<1>3. /\ ses' \in Seq(Session) /\ Len(ses') = Len(ses) /\ DOMAIN ses' = DOMAIN ses
      /\ \A j \in DOMAIN ses : /\ Falls(j) /\ (j # i => ses'[j] = ses[j])
                               /\ ses'[j].in = ses[j].in /\ ses'[j].open = ses[j].open
  <2>1. CASE UNCHANGED ses
    BY <2>1, SessionIs DEF TypeOK, Falls, Same
  <2>2. CASE ses' = Emptied(i)
    BY <1>1, <2>2, EmptiedIs
  <2>3. QED
    BY <2>1, <2>2 DEF Undo
<1>4. told' \in [Actors -> Answers] /\ told'[c] = "failed" /\ \A b \in Actors : b # c => told'[b] = told[b]
  BY Saying DEF Undo, Answers
<1>a. TypeOK'
  BY <1>1, <1>2, <1>3, <1>4 DEF TypeOK, Places, Answers
<1>b. HandsFull' /\ NothingKept'
  BY <1>1, <1>2 DEF HandsFull, Hands, Locks, NothingKept
<1>c. KindsKept' /\ Alone' /\ KeptIsIn' /\ HoldsOwn' /\ PooledInHand' /\ OpenIsKnown' /\ OnIsOpen'
  BY <1>1, <1>2, <1>3, WhileFalling
<1>d. CloserKnows' /\ OwnChangesOnly'
  BY <1>1 DEF CloserKnows, OwnChangesOnly
<1>e. ReadyToCommit'
  <2>1. ASSUME NEW d \in Calls, pc'[d] = "commit" /\ ~gaveUp'
        PROVE  d \in ses'[my'[d]].holds \/ ~Alive(my[d])'
    <3>1. pc[d] = "commit" /\ my[d] \in DOMAIN ses /\ my[d] # i
      BY <1>1, <1>2, <2>1, Ranges DEF Alone, HandsFull, Hands
    <3>2. QED
      BY <1>1, <1>3, <2>1, <3>1 DEF ReadyToCommit, Alive
  <2>2. QED
    BY <1>1, <1>3, <2>1 DEF ReadyToCommit
<1>f. PublishedIsCommitted'
  BY <1>1, <1>4 DEF PublishedIsCommitted
<1>g. QED
  BY <1>a, <1>b, <1>c, <1>d, <1>e, <1>f DEF IInv

LEMMA StepAcquire == ASSUME IInv, NEW c \in Calls, Acquire(c) PROVE IInv'
<1> USE Parts, ActorsAre
<1>1. /\ pc[c] = "start" /\ c \notin Private /\ wlock = None /\ wlock' = c
      /\ asked' = [asked EXCEPT ![c] = conf]
      /\ UNCHANGED <<ses, wpool, rpool, my, told, conf, closer, gaveUp, committed, unheard, faults>>
  BY DEF Acquire
<1>2. pc' \in [Actors -> Places] /\ pc'[c] = "probe" /\ \A b \in Actors : b # c => pc'[b] = pc[b]
  BY Going DEF Acquire, Places, Locks, Hands
<1>a. TypeOK'
  BY <1>1, <1>2 DEF TypeOK, Places
<1>b. HandsFull' /\ NothingKept'
  BY <1>1, <1>2 DEF HandsFull, Hands, Locks, NothingKept
<1>c. KindsKept' /\ Alone' /\ KeptIsIn' /\ HoldsOwn' /\ PooledInHand' /\ OpenIsKnown' /\ OnIsOpen'
  <2>1. \A j \in DOMAIN ses : Falls(j) /\ ses'[j] = ses[j]
    BY <1>1, SessionIs DEF Falls, Same
  <2>2. QED
    BY <1>1, <1>2, <2>1, WhileFalling
<1>d. CloserKnows' /\ OwnChangesOnly' /\ PublishedIsCommitted'
  BY <1>1 DEF CloserKnows, OwnChangesOnly, PublishedIsCommitted
<1>e. ReadyToCommit'
  BY <1>1, <1>2 DEF ReadyToCommit, Alive
<1>f. QED
  BY <1>a, <1>b, <1>c, <1>d, <1>e DEF IInv

LEMMA StepProbe == ASSUME IInv, NEW c \in Calls, Probe(c) PROVE IInv'
<1> USE Parts, ActorsAre
<1>1. /\ pc[c] = "probe" /\ c \notin Private /\ wlock = c /\ my[c] = 0
      /\ UNCHANGED <<wlock, rpool, told, asked, conf, closer, gaveUp, committed>>
  BY DEF Probe, Idle, HandsFull, Locks, Hands
<1>2. \A d \in Calls \ Private : my[d] = 0
  BY <1>1 DEF HandsFull, Locks
<1>3. CASE wpool = 0 /\ Go(c, "login") /\ UNCHANGED <<ses, wpool, my, faults, unheard>>
  <2>1. pc' \in [Actors -> Places] /\ pc'[c] = "login" /\ \A b \in Actors : b # c => pc'[b] = pc[b]
    BY <1>3, Going DEF Places, Locks, Hands
  <2>a. TypeOK'
    BY <1>1, <1>3, <2>1 DEF TypeOK, Places
  <2>b. HandsFull' /\ NothingKept'
    BY <1>1, <1>3, <2>1 DEF HandsFull, Hands, Locks, NothingKept
  <2>c. KindsKept' /\ Alone' /\ KeptIsIn' /\ HoldsOwn' /\ PooledInHand' /\ OpenIsKnown' /\ OnIsOpen'
    <3>1. \A j \in DOMAIN ses : Falls(j) /\ ses'[j] = ses[j]
      BY <1>3, SessionIs DEF Falls, Same
    <3>2. QED
      BY <1>1, <1>3, <2>1, <3>1, WhileFalling
  <2>d. CloserKnows' /\ OwnChangesOnly' /\ PublishedIsCommitted'
    BY <1>1, <1>3 DEF CloserKnows, OwnChangesOnly, PublishedIsCommitted
  <2>e. ReadyToCommit'
    BY <1>3, <1>1, <2>1 DEF ReadyToCommit, Alive
  <2>f. QED
    BY <2>a, <2>b, <2>c, <2>d, <2>e DEF IInv
<1>4. CASE /\ wpool # 0 /\ Alive(wpool)
           /\ my' = [my EXCEPT ![c] = wpool] /\ ses' = [ses EXCEPT ![wpool].user = c]
           /\ Go(c, "stage") /\ UNCHANGED <<wpool, faults, unheard>>
  <2>1. pc' \in [Actors -> Places] /\ pc'[c] = "stage" /\ \A b \in Actors : b # c => pc'[b] = pc[b]
    BY <1>4, Going DEF Places, Locks, Hands
  <2>2. wpool \in DOMAIN ses /\ wpool \in 0 .. Len(ses)
    BY <1>4, Ranges DEF TypeOK
  <2>3. my' \in [Actors -> 0 .. Len(ses)] /\ my'[c] = wpool /\ \A b \in Actors : b # c => my'[b] = my[b]
    BY <1>4, <2>2 DEF TypeOK
  <2>4. /\ ses' \in Seq(Session) /\ Len(ses') = Len(ses) /\ DOMAIN ses' = DOMAIN ses
        /\ \A j \in DOMAIN ses : /\ Falls(j) /\ ses'[j].holds = ses[j].holds
                                 /\ ses'[j].in = ses[j].in /\ ses'[j].open = ses[j].open /\ ses'[j].on = ses[j].on
    <3> DEFINE s == [ses[wpool] EXCEPT !.user = c]
    <3>1. ses[wpool] \in Session
      BY <2>2, SessionIs
    <3>2. ses' = [ses EXCEPT ![wpool] = s]
      BY <1>4
    <3>3. /\ s \in Session /\ s.in = ses[wpool].in /\ s.open = ses[wpool].open /\ s.on = ses[wpool].on
          /\ s.ro = ses[wpool].ro /\ s.host = ses[wpool].host /\ s.holds = ses[wpool].holds
      BY <3>1 DEF Session
    <3> HIDE DEF s
    <3>4. QED
      BY <2>2, <3>1, <3>2, <3>3, SessionChanges, SessionIs DEF Falls, Same
  <2>a. TypeOK'
    BY <1>1, <1>4, <2>1, <2>3, <2>4 DEF TypeOK, Places
  <2>b. HandsFull' /\ NothingKept'
    BY <1>1, <1>4, <2>1, <2>3 DEF HandsFull, Hands, Locks, NothingKept
  <2>c. KindsKept'
    BY <1>1, <1>4, <2>3, <2>4, Ranges DEF KindsKept, Falls, Same
  <2>d. Alone'
    BY <1>1, <1>2, <1>4, <2>3 DEF Alone
  <2>e. CloserKnows' /\ OwnChangesOnly' /\ PublishedIsCommitted'
    BY <1>1, <1>4 DEF CloserKnows, OwnChangesOnly, PublishedIsCommitted
  <2>f. KeptIsIn'
    BY <1>4, <2>2, <2>4 DEF KeptIsIn
  <2>g. HoldsOwn'
    <3>1. ASSUME NEW j \in DOMAIN ses, NEW x \in ses[j].holds, ses[j].in PROVE my'[x] = j
      <4>1. x \in Calls /\ my[x] = j
        BY <3>1, SessionIs DEF HoldsOwn, Session
      <4>2. x # c
        BY <1>1, <3>1, <4>1, Ranges
      <4>3. QED
        BY <2>3, <4>1, <4>2
    <3>2. QED
      BY <2>4, <3>1 DEF HoldsOwn
  <2>h. ReadyToCommit'
    <3>1. ASSUME NEW d \in Calls, pc'[d] = "commit" /\ ~gaveUp'
          PROVE  d \in ses'[my'[d]].holds \/ ~Alive(my[d])'
      <4>1. d # c /\ pc[d] = "commit" /\ my[d] \in DOMAIN ses /\ my'[d] = my[d]
        BY <2>1, <2>3, <3>1, Ranges DEF HandsFull, Hands
      <4>2. QED
        BY <1>1, <2>4, <3>1, <4>1 DEF ReadyToCommit, Alive
    <3>2. QED
      BY <3>1 DEF ReadyToCommit
  <2>i. PooledInHand'
    BY <1>2, <1>4, <2>3 DEF PooledInHand
  <2>j. OpenIsKnown'
    <3>1. \A j \in DOMAIN ses, d \in Calls : my[d] = j => my'[d] = j
      BY <1>1, <2>3, Ranges
    <3>2. QED
      BY <1>1, <1>4, <2>1, <2>3, <2>4, <3>1 DEF OpenIsKnown, Torn
  <2>k. OnIsOpen'
    BY <1>1, <1>4, <2>4 DEF OnIsOpen, Reopened
  <2>l. QED
    BY <2>a, <2>b, <2>c, <2>d, <2>e, <2>f, <2>g, <2>h, <2>i, <2>j, <2>k DEF IInv
<1>5. CASE wpool # 0 /\ Drop(wpool) /\ Go(c, "login") /\ UNCHANGED my
  <2>1. pc' \in [Actors -> Places] /\ pc'[c] = "login" /\ \A b \in Actors : b # c => pc'[b] = pc[b]
    BY <1>5, Going DEF Places, Locks, Hands
  <2>2. wpool \in DOMAIN ses
    BY <1>5, Ranges
  <2>3. /\ ses' \in Seq(Session) /\ Len(ses') = Len(ses) /\ DOMAIN ses' = DOMAIN ses
        /\ \A j \in DOMAIN ses : Falls(j) /\ (j # wpool => ses'[j] = ses[j])
        /\ ~ses'[wpool].in /\ ~ses'[wpool].open
        /\ ses'[wpool].on => wpool \in unheard'
        /\ unheard \subseteq unheard' /\ unheard' \subseteq 1 .. Len(ses)
        /\ wpool' = 0 /\ faults' \in Nat
    BY <1>5, <2>2, DropIs
  <2>a. TypeOK'
    BY <1>1, <1>5, <2>1, <2>3 DEF TypeOK, Places
  <2>b. HandsFull' /\ NothingKept'
    BY <1>1, <1>5, <2>1, <2>3 DEF HandsFull, Hands, Locks, NothingKept
  <2>c. KindsKept'
    BY <1>1, <1>5, <2>3, Ranges DEF KindsKept, Falls, Same
  <2>d. Alone'
    BY <1>1, <1>5, <2>3 DEF Alone
  <2>e. CloserKnows' /\ OwnChangesOnly' /\ PublishedIsCommitted' /\ KeptIsIn'
    BY <1>1, <2>3 DEF CloserKnows, OwnChangesOnly, PublishedIsCommitted, KeptIsIn
  <2>g. HoldsOwn'
    BY <1>5, <2>3 DEF HoldsOwn, Falls
  <2>h. ReadyToCommit'
    <3>1. ASSUME NEW d \in Calls, pc'[d] = "commit" /\ ~gaveUp'
          PROVE  d \in ses'[my'[d]].holds \/ ~Alive(my[d])'
      <4>1. pc[d] = "commit" /\ my[d] \in DOMAIN ses /\ my[d] # wpool
        BY <1>2, <2>1, <3>1, Ranges DEF HandsFull, Hands, Alone
      <4>2. QED
        BY <1>1, <1>5, <2>3, <3>1, <4>1 DEF ReadyToCommit, Alive
    <3>2. QED
      BY <3>1 DEF ReadyToCommit
  <2>i. PooledInHand'
    BY <1>2, <1>5 DEF PooledInHand
  <2>j. OpenIsKnown'
    BY <1>1, <1>5, <2>1, <2>3 DEF OpenIsKnown, Torn, Falls
  <2>k. OnIsOpen'
    BY <1>1, <1>5, <2>3 DEF OnIsOpen, Reopened, Falls
  <2>l. QED
    BY <2>a, <2>b, <2>c, <2>d, <2>e, <2>g, <2>h, <2>i, <2>j, <2>k DEF IInv
<1>6. QED
  BY <1>3, <1>4, <1>5 DEF Probe

\* A login: the new session is nobody else's, holds nothing, and is in hand.
LEMMA WhileAdding ==
    ASSUME IInv, NEW a \in Actors, NEW s \in Session, ses' = Append(ses, s),
           s.holds = {}, s.in, s.open, s.ro <=> a \in Readers,
           my' = [my EXCEPT ![a] = Len(ses) + 1], my[a] = 0,
           a \in Readers => pc'[a] = "insert",
           \A r \in Readers : pc'[r] = "insert" \/ pc[r] # "insert",
           IF a \in Calls \ Private THEN wpool = 0 /\ wpool' = Len(ses) + 1 /\ wlock = a ELSE wpool' = wpool,
           UNCHANGED <<rpool, closer, unheard>>
    PROVE  /\ KindsKept' /\ Alone' /\ KeptIsIn' /\ HoldsOwn' /\ PooledInHand' /\ OpenIsKnown' /\ OnIsOpen'
           /\ ses' \in Seq(Session) /\ Len(ses') = Len(ses) + 1
           /\ my' \in [Actors -> 0 .. Len(ses')] /\ my'[a] = Len(ses) + 1
           /\ \A b \in Actors : b # a => my'[b] = my[b]
           /\ \A j \in DOMAIN ses : ses'[j] = ses[j]
<1> DEFINE n == Len(ses) + 1
<1> USE Parts, ActorsAre
<1>1. /\ ses' \in Seq(Session) /\ Len(ses') = n /\ DOMAIN ses' = DOMAIN ses \cup {n}
      /\ ses'[n] = s /\ \A j \in DOMAIN ses : ses'[j] = ses[j]
  BY SessionAdded
<1>2. n \notin DOMAIN ses /\ n # 0 /\ n # closer.took /\ n # rpool /\ n # wpool
      /\ \A b \in Actors : my[b] # n
  BY Ranges
<1>3. my' \in [Actors -> 0 .. Len(ses')] /\ my'[a] = n /\ \A b \in Actors : b # a => my'[b] = my[b]
  BY <1>1 DEF TypeOK
<1> HIDE DEF n
<1>4. KindsKept'
  <2>1. \A c \in Calls : my'[c] # 0 => ~ses'[my'[c]].ro
    <3>1. ASSUME NEW c \in Calls, my'[c] # 0, c # a PROVE ~ses'[my'[c]].ro
      BY <1>1, <1>3, <3>1, Ranges DEF KindsKept
    <3>2. a \in Calls => ~ses'[my'[a]].ro
      BY <1>1, <1>3
    <3>3. QED
      BY <3>1, <3>2
  <2>2. \A r \in Readers : my'[r] # 0 => ses'[my'[r]].ro
    <3>1. ASSUME NEW r \in Readers, my'[r] # 0, r # a PROVE ses'[my'[r]].ro
      BY <1>1, <1>3, <3>1, Ranges DEF KindsKept
    <3>2. a \in Readers => ses'[my'[a]].ro
      BY <1>1, <1>3
    <3>3. QED
      BY <3>1, <3>2
  <2>3. /\ wpool' # 0 => ~ses'[wpool'].ro
        /\ rpool' # 0 => ses'[rpool'].ro
        /\ closer'.took # 0 => ~ses'[closer'.took].ro
    BY <1>1, <1>2, Ranges DEF KindsKept, n
  <2>4. \A i \in DOMAIN ses' : ses'[i].ro => ses'[i].holds = {}
    BY <1>1 DEF KindsKept
  <2>5. QED
    BY <2>1, <2>2, <2>3, <2>4 DEF KindsKept
<1>5. Alone'
  <2>1. \A c, d \in Calls : my'[c] # 0 /\ my'[c] = my'[d] => c = d
    BY <1>2, <1>3 DEF Alone
  <2>2. \A c \in Private : my'[c] # 0 => my'[c] # wpool' /\ my'[c] # closer'.took
    BY <1>2, <1>3 DEF Alone, n
  <2>3. QED
    BY <2>1, <2>2 DEF Alone
<1>6. KeptIsIn'
  BY <1>1, <1>2, Ranges DEF KeptIsIn, n
<1>7. HoldsOwn'
  <2>1. ASSUME NEW j \in DOMAIN ses, NEW x \in ses[j].holds, ses[j].in PROVE my'[x] = j
    <3>1. x \in Calls /\ my[x] = j
      BY <2>1, SessionIs DEF HoldsOwn, Session
    <3>2. x # a
      BY <2>1, <3>1, Ranges
    <3>3. QED
      BY <1>3, <3>1, <3>2
  <2>2. QED
    BY <1>1, <2>1 DEF HoldsOwn
<1>8. PooledInHand'
  <2>1. ASSUME NEW c \in Calls \ Private, my'[c] # 0
        PROVE  my'[c] = wpool' \/ Torn(my[c])' \/ ~ses'[my'[c]].open
    <3>1. CASE c = a
      BY <1>3, <3>1 DEF n
    <3>2. CASE c # a
      <4>1. a \notin Calls \ Private
        BY <1>3, <2>1, <3>2 DEF HandsFull, Locks
      <4>2. my[c] \in DOMAIN ses /\ my'[c] = my[c]
        BY <1>3, <2>1, <3>2, Ranges
      <4>3. QED
        BY <1>1, <2>1, <4>1, <4>2 DEF PooledInHand, Torn
    <3>3. QED
      BY <3>1, <3>2
  <2>2. QED
    BY <2>1 DEF PooledInHand
<1>9. OpenIsKnown'
  <2>1. ASSUME NEW j \in DOMAIN ses, ses[j].open
        PROVE  \/ j = wpool' \/ j = rpool' \/ Torn(j)'
               \/ \E c \in Calls : my'[c] = j
               \/ \E r \in Readers : pc'[r] = "insert" /\ my'[r] = j
    <3>1. CASE j = wpool
      BY <3>1, Ranges
    <3>2. CASE j = rpool \/ Torn(j)
      BY <3>2 DEF Torn
    <3>3. CASE \E c \in Calls : my[c] = j
      BY <1>3, <2>1, <3>3, Ranges
    <3>4. CASE \E r \in Readers : pc[r] = "insert" /\ my[r] = j
      BY <1>3, <2>1, <3>4, Ranges
    <3>5. QED
      BY <2>1, <3>1, <3>2, <3>3, <3>4 DEF OpenIsKnown
  <2>2. /\ a \in Calls \ Private => wpool' = n
        /\ a \in Private => my'[a] = n
        /\ a \in Readers => pc'[a] = "insert" /\ my'[a] = n
    BY <1>3 DEF n
  <2>3. a \in Calls \ Private \/ a \in Private \/ a \in Readers
    BY DEF Actors
  <2>4. QED
    BY <1>1, <2>1, <2>2, <2>3 DEF OpenIsKnown
<1>10. OnIsOpen'
  BY <1>1 DEF OnIsOpen, Reopened
<1>11. QED
  BY <1>1, <1>3, <1>4, <1>5, <1>6, <1>7, <1>8, <1>9, <1>10 DEF n

\* What the other applies are about to publish is not touched by a login.
LEMMA ReadyWhileAdding ==
    ASSUME IInv, NEW c \in Actors, c \in Calls => pc'[c] # "commit",
           \A b \in Actors : b # c => pc'[b] = pc[b] /\ my'[b] = my[b],
           \A j \in DOMAIN ses : ses'[j] = ses[j], gaveUp' = gaveUp
    PROVE  ReadyToCommit'
<1> USE Parts, ActorsAre
<1>1. ASSUME NEW d \in Calls, pc'[d] = "commit" /\ ~gaveUp'
      PROVE  d \in ses'[my'[d]].holds \/ ~Alive(my[d])'
  <2>1. d # c /\ pc[d] = "commit" /\ my'[d] = my[d]
    BY <1>1
  <2>2. my[d] \in DOMAIN ses
    BY <2>1, Ranges DEF HandsFull, Hands
  <2>3. QED
    BY <1>1, <2>1, <2>2 DEF ReadyToCommit, Alive
<1>2. QED
  BY <1>1 DEF ReadyToCommit

\* A number that stood for a session still does after a login.
LEMMA NumbersGrow ==
    ASSUME TypeOK, Len(ses') = Len(ses) + 1, UNCHANGED <<rpool, closer, unheard>>
    PROVE  /\ rpool' \in 0 .. Len(ses') /\ wpool \in 0 .. Len(ses')
           /\ Len(ses) + 1 \in 0 .. Len(ses')
           /\ closer' \in [at : {"up", "closing", "wait", "take", "discard", "logout", "down"}, took : 0 .. Len(ses')]
           /\ unheard' \subseteq 1 .. Len(ses')
<1>1. 0 .. Len(ses) \subseteq 0 .. Len(ses') /\ 1 .. Len(ses) \subseteq 1 .. Len(ses')
      /\ Len(ses) + 1 \in 0 .. Len(ses')
  BY Ranges
<1>2. QED
  BY <1>1 DEF TypeOK

LEMMA StepLogin == ASSUME IInv, NEW c \in Calls, Login(c) PROVE IInv'
<1> USE Parts, ActorsAre
<1>1. /\ pc[c] = "login" /\ c \notin Private /\ wlock = c /\ my[c] = 0 /\ wpool = 0
      /\ UNCHANGED <<asked, conf, closer, gaveUp, rpool, committed, unheard>>
  BY DEF Login, Idle, HandsFull, Locks, Hands, NothingKept
<1>2. CASE /\ UNCHANGED <<faults, told, wlock>>
           /\ ses' = Append(ses, [NewSession(c, FALSE) EXCEPT !.user = c])
           /\ wpool' = Len(ses) + 1 /\ my' = [my EXCEPT ![c] = Len(ses) + 1]
           /\ Go(c, "stage")
  <2> DEFINE s == [NewSession(c, FALSE) EXCEPT !.user = c]
  <2>1. pc' \in [Actors -> Places] /\ pc'[c] = "stage" /\ \A b \in Actors : b # c => pc'[b] = pc[b]
    BY <1>2, Going DEF Places, Locks, Hands
  <2>2. s \in Session /\ s.holds = {} /\ s.in /\ s.open /\ s.ro = FALSE
    BY DEF NewSession, Session, TypeOK
  <2>3. ses' = Append(ses, s)
    BY <1>2
  <2> HIDE DEF s
  <2>4. /\ KindsKept' /\ Alone' /\ KeptIsIn' /\ HoldsOwn' /\ PooledInHand' /\ OpenIsKnown' /\ OnIsOpen'
        /\ ses' \in Seq(Session) /\ Len(ses') = Len(ses) + 1
        /\ my' \in [Actors -> 0 .. Len(ses')] /\ my'[c] = Len(ses) + 1
        /\ \A b \in Actors : b # c => my'[b] = my[b]
        /\ \A j \in DOMAIN ses : ses'[j] = ses[j]
    BY <1>1, <1>2, <2>1, <2>2, <2>3, WhileAdding
  <2>a. TypeOK'
    BY <1>1, <1>2, <2>1, <2>4, NumbersGrow DEF TypeOK, Places
  <2>5. my'[c] # 0 /\ \A b \in Actors : b # c => my'[b] = my[b]
    BY <2>4, Ranges
  <2>b. HandsFull' /\ NothingKept'
    BY <1>1, <1>2, <2>1, <2>5 DEF HandsFull, Hands, Locks, NothingKept
  <2>c. CloserKnows' /\ OwnChangesOnly' /\ PublishedIsCommitted'
    BY <1>1, <1>2, Ranges DEF CloserKnows, OwnChangesOnly, PublishedIsCommitted
  <2>d. ReadyToCommit'
    BY <1>1, <2>1, <2>4, ReadyWhileAdding
  <2>e. QED
    BY <2>4, <2>a, <2>b, <2>c, <2>d DEF IInv
<1>3. CASE /\ Fault /\ Say(c, "failed") /\ Go(c, "done") /\ wlock' = None /\ UNCHANGED <<ses, wpool, my>>
  <2>1. pc' \in [Actors -> Places] /\ pc'[c] = "done" /\ \A b \in Actors : b # c => pc'[b] = pc[b]
    BY <1>3, Going DEF Places
  <2>2. told' \in [Actors -> Answers] /\ told'[c] = "failed" /\ \A b \in Actors : b # c => told'[b] = told[b]
    BY <1>3, Saying DEF Answers
  <2>3. faults' \in Nat
    BY <1>3 DEF Fault, TypeOK
  <2>a. TypeOK'
    BY <1>1, <1>3, <2>1, <2>2, <2>3 DEF TypeOK, Places, Answers
  <2>b. HandsFull' /\ NothingKept'
    BY <1>1, <1>3, <2>1 DEF HandsFull, Hands, Locks, NothingKept
  <2>c. KindsKept' /\ Alone' /\ KeptIsIn' /\ HoldsOwn' /\ PooledInHand' /\ OpenIsKnown' /\ OnIsOpen'
    <3>1. \A j \in DOMAIN ses : Falls(j) /\ ses'[j] = ses[j]
      BY <1>3, SessionIs DEF Falls, Same
    <3>2. QED
      BY <1>1, <1>3, <2>1, <3>1, WhileFalling
  <2>d. CloserKnows' /\ OwnChangesOnly' /\ PublishedIsCommitted'
    BY <1>1, <1>3, <2>2 DEF CloserKnows, OwnChangesOnly, PublishedIsCommitted
  <2>e. ReadyToCommit'
    BY <1>1, <1>3, <2>1, ReadyWhileAdding
  <2>f. QED
    BY <2>a, <2>b, <2>c, <2>d, <2>e DEF IInv
<1>4. QED
  BY <1>2, <1>3 DEF Login

LEMMA StepEnter == ASSUME IInv, NEW c \in Calls, Enter(c) PROVE IInv'
<1> USE Parts, ActorsAre
<1>1. /\ pc[c] = "start" /\ c \in Private /\ my[c] = 0 /\ wlock # c
      /\ asked' = [asked EXCEPT ![c] = conf]
      /\ UNCHANGED <<wpool, wlock, rpool, conf, closer, gaveUp, committed, unheard>>
  BY DEF Enter, HandsFull, Locks, Hands
<1>2. CASE /\ UNCHANGED <<faults, told>>
           /\ ses' = Append(ses, [NewSession(c, FALSE) EXCEPT !.user = c, !.host = conf])
           /\ my' = [my EXCEPT ![c] = Len(ses) + 1] /\ Go(c, "stage")
  <2> DEFINE s == [NewSession(c, FALSE) EXCEPT !.user = c, !.host = conf]
  <2>1. pc' \in [Actors -> Places] /\ pc'[c] = "stage" /\ \A b \in Actors : b # c => pc'[b] = pc[b]
    BY <1>2, Going DEF Places, Locks, Hands
  <2>2. s \in Session /\ s.holds = {} /\ s.in /\ s.open /\ s.ro = FALSE
    BY DEF NewSession, Session, TypeOK
  <2>3. ses' = Append(ses, s)
    BY <1>2
  <2> HIDE DEF s
  <2>4. /\ KindsKept' /\ Alone' /\ KeptIsIn' /\ HoldsOwn' /\ PooledInHand' /\ OpenIsKnown' /\ OnIsOpen'
        /\ ses' \in Seq(Session) /\ Len(ses') = Len(ses) + 1
        /\ my' \in [Actors -> 0 .. Len(ses')] /\ my'[c] = Len(ses) + 1
        /\ \A b \in Actors : b # c => my'[b] = my[b]
        /\ \A j \in DOMAIN ses : ses'[j] = ses[j]
    BY <1>1, <1>2, <2>1, <2>2, <2>3, WhileAdding
  <2>a. TypeOK'
    BY <1>1, <1>2, <2>1, <2>4, NumbersGrow DEF TypeOK, Places
  <2>5. my'[c] # 0 /\ \A b \in Actors : b # c => my'[b] = my[b]
    BY <2>4, Ranges
  <2>b. HandsFull' /\ NothingKept'
    BY <1>1, <1>2, <2>1, <2>5 DEF HandsFull, Hands, Locks, NothingKept
  <2>c. CloserKnows' /\ OwnChangesOnly' /\ PublishedIsCommitted'
    BY <1>1, <1>2 DEF CloserKnows, OwnChangesOnly, PublishedIsCommitted
  <2>d. ReadyToCommit'
    BY <1>1, <2>1, <2>4, ReadyWhileAdding
  <2>e. QED
    BY <2>4, <2>a, <2>b, <2>c, <2>d DEF IInv
<1>3. CASE /\ Fault /\ Say(c, "failed") /\ Go(c, "done") /\ UNCHANGED <<ses, my>>
  <2>1. pc' \in [Actors -> Places] /\ pc'[c] = "done" /\ \A b \in Actors : b # c => pc'[b] = pc[b]
    BY <1>3, Going DEF Places
  <2>2. told' \in [Actors -> Answers] /\ told'[c] = "failed" /\ \A b \in Actors : b # c => told'[b] = told[b]
    BY <1>3, Saying DEF Answers
  <2>3. faults' \in Nat
    BY <1>3 DEF Fault, TypeOK
  <2>a. TypeOK'
    BY <1>1, <1>3, <2>1, <2>2, <2>3 DEF TypeOK, Places, Answers
  <2>b. HandsFull' /\ NothingKept'
    BY <1>1, <1>3, <2>1 DEF HandsFull, Hands, Locks, NothingKept
  <2>c. KindsKept' /\ Alone' /\ KeptIsIn' /\ HoldsOwn' /\ PooledInHand' /\ OpenIsKnown' /\ OnIsOpen'
    <3>1. \A j \in DOMAIN ses : Falls(j) /\ ses'[j] = ses[j]
      BY <1>3, SessionIs DEF Falls, Same
    <3>2. QED
      BY <1>1, <1>3, <2>1, <3>1, WhileFalling
  <2>d. CloserKnows' /\ OwnChangesOnly' /\ PublishedIsCommitted'
    BY <1>1, <2>2 DEF CloserKnows, OwnChangesOnly, PublishedIsCommitted
  <2>e. ReadyToCommit'
    BY <1>1, <1>3, <2>1, ReadyWhileAdding
  <2>f. QED
    BY <2>a, <2>b, <2>c, <2>d, <2>e DEF IInv
<1>4. QED
  BY <1>2, <1>3 DEF Enter

\* What the other applies are about to publish is not touched by letting go of a session.
LEMMA ReadyWhileDropping ==
    ASSUME IInv, NEW c \in Calls, my[c] # 0, pc'[c] # "commit",
           \A b \in Actors : b # c => pc'[b] = pc[b] /\ my'[b] = my[b],
           \A j \in DOMAIN ses : j # my[c] => ses'[j] = ses[j], gaveUp' = gaveUp
    PROVE  ReadyToCommit'
<1> USE Parts, ActorsAre
<1>1. ASSUME NEW d \in Calls, pc'[d] = "commit" /\ ~gaveUp'
      PROVE  d \in ses'[my'[d]].holds \/ ~Alive(my[d])'
  <2>1. d # c /\ pc[d] = "commit" /\ my'[d] = my[d]
    BY <1>1
  <2>2. my[d] \in DOMAIN ses /\ my[d] # my[c]
    BY <2>1, Ranges DEF HandsFull, Hands, Alone
  <2>3. QED
    BY <1>1, <2>1, <2>2 DEF ReadyToCommit, Alive
<1>2. QED
  BY <1>1 DEF ReadyToCommit

\* An apply that leaves and drops its session.
LEMMA StepLeave ==
    ASSUME IInv, NEW c \in Calls, my[c] # 0, Drop(my[c]), Go(c, "done"), my' = [my EXCEPT ![c] = 0],
           IF c \in Private THEN wlock' = wlock ELSE wlock' = None,
           UNCHANGED <<rpool, told, asked, conf, closer, gaveUp, committed>>
    PROVE  IInv'
<1> USE Parts, ActorsAre
<1>1. pc' \in [Actors -> Places] /\ pc'[c] = "done" /\ \A b \in Actors : b # c => pc'[b] = pc[b]
  BY Going DEF Places
<1>2. my[c] \in DOMAIN ses
  BY Ranges
<1>3. /\ KindsKept' /\ Alone' /\ KeptIsIn' /\ HoldsOwn' /\ PooledInHand' /\ OpenIsKnown' /\ OnIsOpen'
      /\ my' \in [Actors -> 0 .. Len(ses)] /\ my'[c] = 0
      /\ \A b \in Actors : b # c => my'[b] = my[b]
      /\ wpool' \in {0, wpool}
  BY <1>1, WhileDropping
<1>4. /\ ses' \in Seq(Session) /\ Len(ses') = Len(ses) /\ faults' \in Nat
      /\ \A j \in DOMAIN ses : j # my[c] => ses'[j] = ses[j]
      /\ unheard' \subseteq 1 .. Len(ses)
  BY <1>2, DropIs
<1>a. TypeOK'
  BY <1>1, <1>3, <1>4 DEF TypeOK, Places
<1>b. HandsFull' /\ NothingKept'
  BY <1>1, <1>3 DEF HandsFull, Hands, Locks, NothingKept
<1>c. CloserKnows' /\ OwnChangesOnly' /\ PublishedIsCommitted'
  BY <1>3 DEF CloserKnows, OwnChangesOnly, PublishedIsCommitted, HandsFull, Hands, Locks
<1>d. ReadyToCommit'
  BY <1>1, <1>3, <1>4, ReadyWhileDropping
<1>e. QED
  BY <1>3, <1>a, <1>b, <1>c, <1>d DEF IInv

LEMMA StepAbandon == ASSUME IInv, NEW c \in Calls, Abandon(c) PROVE IInv'
<1>1. my[c] # 0
  BY Parts, ActorsAre DEF Abandon, HandsFull, Hands
<1>2. QED
  BY <1>1, StepLeave DEF Abandon, Leave, Idle

LEMMA StepExit == ASSUME IInv, NEW c \in Calls, Exit(c) PROVE IInv'
<1>1. my[c] # 0
  BY Parts, ActorsAre DEF Exit, HandsFull, Hands
<1>2. QED
  BY <1>1, StepLeave DEF Exit, Idle

LEMMA StepClean == ASSUME IInv, NEW c \in Calls, Clean(c) PROVE IInv'
<1> DEFINE i == my[c]
<1> USE Parts, ActorsAre
<1>1. /\ pc[c] = "clean" /\ c \notin Private /\ wlock = c /\ i # 0 /\ i \in DOMAIN ses
      /\ Go(c, "done") /\ wlock' = None /\ my' = [my EXCEPT ![c] = 0]
      /\ UNCHANGED <<rpool, told, asked, conf, closer, gaveUp, committed>>
  BY Ranges DEF Clean, Leave, Idle, HandsFull, Hands, Locks
<1>2. CASE Drop(i)
  BY <1>1, <1>2, StepLeave
<1>3. CASE UNCHANGED faults /\ ses' = Cleaned(i) /\ UNCHANGED <<wpool, unheard>>
  <2>1. pc' \in [Actors -> Places] /\ pc'[c] = "done" /\ \A b \in Actors : b # c => pc'[b] = pc[b]
    BY <1>1, Going DEF Places
  <2>2. my' \in [Actors -> 0 .. Len(ses)] /\ my'[c] = 0 /\ \A b \in Actors : b # c => my'[b] = my[b]
    BY <1>1 DEF TypeOK
  <2>3. /\ ses' \in Seq(Session) /\ Len(ses') = Len(ses) /\ DOMAIN ses' = DOMAIN ses
        /\ \A j \in DOMAIN ses : /\ Falls(j) /\ (j # i => ses'[j] = ses[j])
                                 /\ ses'[j].in = ses[j].in /\ ses'[j].open = ses[j].open
        /\ ses'[i].holds = {}
    BY <1>1, <1>3, EmptiedIs
  <2>a. TypeOK'
    BY <1>1, <1>3, <2>1, <2>2, <2>3 DEF TypeOK, Places
  <2>b. HandsFull' /\ NothingKept'
    BY <1>1, <1>3, <2>1, <2>2 DEF HandsFull, Hands, Locks, NothingKept
  <2>c. KindsKept'
    BY <1>1, <1>3, <2>2, <2>3, Ranges DEF KindsKept, Falls, Same
  <2>d. Alone'
    BY <1>1, <1>3, <2>2 DEF Alone
  <2>e. CloserKnows' /\ OwnChangesOnly' /\ PublishedIsCommitted'
    BY <1>1, <1>3 DEF CloserKnows, OwnChangesOnly, PublishedIsCommitted
  <2>f. KeptIsIn'
    BY <1>3, <2>3, Ranges DEF KeptIsIn
  <2>g. HoldsOwn'
    <3>1. ASSUME NEW j \in DOMAIN ses, NEW x \in ses'[j].holds, ses'[j].in PROVE my'[x] = j
      <4>1. j # i /\ x \in ses[j].holds /\ ses[j].in
        BY <2>3, <3>1
      <4>2. x \in Calls /\ my[x] = j
        BY <4>1, SessionIs DEF HoldsOwn, Session
      <4>3. QED
        BY <2>2, <4>1, <4>2
    <3>2. QED
      BY <2>3, <3>1 DEF HoldsOwn
  <2>h. ReadyToCommit'
    BY <1>1, <2>1, <2>2, <2>3, ReadyWhileDropping
  <2>i. PooledInHand'
    BY <1>1, <1>3, <2>2, <2>3, Ranges DEF PooledInHand, Torn
  <2>j. OpenIsKnown'
    <3>1. ASSUME NEW j \in DOMAIN ses, ses'[j].open
          PROVE  \/ j = wpool' \/ j = rpool' \/ Torn(j)'
                 \/ \E d \in Calls : my'[d] = j
                 \/ \E r \in Readers : pc'[r] = "insert" /\ my'[r] = j
      <4>1. CASE j = i
        BY <1>1, <1>3, <2>3, <3>1, <4>1 DEF PooledInHand, Torn
      <4>2. CASE j # i
        BY <1>1, <1>3, <2>1, <2>2, <2>3, <3>1, <4>2 DEF OpenIsKnown, Torn
      <4>3. QED
        BY <4>1, <4>2
    <3>2. QED
      BY <2>3, <3>1 DEF OpenIsKnown
  <2>k. OnIsOpen'
    BY <1>1, <1>3, <2>3 DEF OnIsOpen, Reopened, Falls
  <2>l. QED
    BY <2>a, <2>b, <2>c, <2>d, <2>e, <2>f, <2>g, <2>h, <2>i, <2>j, <2>k DEF IInv
<1>4. QED
  BY <1>2, <1>3 DEF Clean, NotClean, Answered

---------------------------------------------------------------------------
(* The reads                                                               *)

\* A step of a read touches no session of an apply, and nothing that an apply has.
ReadStep(r) ==
    /\ ses' \in Seq(Session) /\ Len(ses') = Len(ses) /\ DOMAIN ses' = DOMAIN ses
    /\ \A j \in DOMAIN ses : /\ Same(j) /\ (ses[j].ro \/ ses'[j] = ses[j])
                             /\ ses[j].ro => ses'[j].holds = {}
                             /\ ses'[j].open => ses[j].open
                             /\ ses'[j].on => ses'[j].in \/ j \in unheard'
                             /\ ses'[j].in /\ ~ses'[j].open => ses[j].in /\ ~ses[j].open
    /\ \A b \in Actors : b # r => pc'[b] = pc[b] /\ my'[b] = my[b] /\ told'[b] = told[b]
    /\ my'[r] = 0 \/ (my'[r] \in DOMAIN ses /\ ses[my'[r]].ro)
    /\ rpool' = 0 \/ (rpool' \in DOMAIN ses /\ ses[rpool'].ro)
    /\ UNCHANGED <<wpool, wlock, closer, gaveUp, committed>>

LEMMA WhileReading ==
    ASSUME IInv, NEW r \in Readers, ReadStep(r)
    PROVE  /\ KindsKept' /\ Alone' /\ CloserKnows' /\ KeptIsIn' /\ NothingKept' /\ HoldsOwn'
           /\ ReadyToCommit' /\ PooledInHand' /\ OnIsOpen' /\ OwnChangesOnly' /\ PublishedIsCommitted'
<1> USE Parts, ActorsAre DEF ReadStep
<1>1. \A c \in Calls : pc'[c] = pc[c] /\ my'[c] = my[c] /\ told'[c] = told[c]
  OBVIOUS
<1>2. \A c \in Calls : my[c] # 0 => my[c] \in DOMAIN ses /\ ses'[my[c]] = ses[my[c]]
  BY Ranges DEF KindsKept
<1>3. wpool # 0 => wpool \in DOMAIN ses /\ ses'[wpool] = ses[wpool]
  BY Ranges DEF KindsKept
<1>4. KindsKept'
  <2>1. /\ \A c \in Calls : my'[c] # 0 => ~ses'[my'[c]].ro
        /\ wpool' # 0 => ~ses'[wpool'].ro
    BY <1>1, <1>2, <1>3 DEF KindsKept
  <2>2. \A q \in Readers : my'[q] # 0 => ses'[my'[q]].ro
    BY Ranges DEF KindsKept, Same
  <2>3. /\ rpool' # 0 => ses'[rpool'].ro
        /\ closer'.took # 0 => ~ses'[closer'.took].ro
        /\ \A i \in DOMAIN ses' : ses'[i].ro => ses'[i].holds = {}
    BY Ranges DEF KindsKept, Same
  <2>4. QED
    BY <2>1, <2>2, <2>3 DEF KindsKept
<1>5. Alone' /\ CloserKnows' /\ NothingKept' /\ OwnChangesOnly' /\ PublishedIsCommitted'
  BY <1>1 DEF Alone, CloserKnows, NothingKept, OwnChangesOnly, PublishedIsCommitted
<1>6. KeptIsIn'
  BY <1>3 DEF KeptIsIn
<1>7. HoldsOwn'
  <2>1. ASSUME NEW j \in DOMAIN ses, NEW x \in ses'[j].holds, ses'[j].in PROVE my'[x] = j
    <3>1. ses'[j] = ses[j]
      BY <2>1
    <3>2. x \in Calls /\ my[x] = j
      BY <2>1, <3>1, SessionIs DEF HoldsOwn, Session
    <3>3. QED
      BY <1>1, <3>2
  <2>2. QED
    BY <2>1 DEF HoldsOwn
<1>8. ReadyToCommit'
  <2>1. \A c \in Calls : pc[c] = "commit" => my[c] # 0
    BY DEF HandsFull, Hands
  <2>2. QED
    BY <1>1, <1>2, <2>1 DEF ReadyToCommit, Alive
<1>9. PooledInHand'
  BY <1>1, <1>2 DEF PooledInHand, Torn
<1>10. OnIsOpen'
  BY DEF OnIsOpen, Reopened
<1>11. QED
  BY <1>4, <1>5, <1>6, <1>7, <1>8, <1>9, <1>10

\* Where no session changes, nothing is on that was not accounted for.
LEMMA ReadsOnly ==
    ASSUME IInv, ses' = ses, unheard' = unheard
    PROVE  /\ ses' \in Seq(Session) /\ Len(ses') = Len(ses) /\ DOMAIN ses' = DOMAIN ses
           /\ \A j \in DOMAIN ses : /\ Same(j) /\ ses'[j] = ses[j]
                                    /\ ses[j].ro => ses'[j].holds = {}
                                    /\ ses'[j].on => ses'[j].in \/ j \in unheard'
  BY Parts, SessionIs DEF Same, TypeOK, KindsKept, OnIsOpen, Reopened

LEMMA StepLook == ASSUME IInv, NEW r \in Readers, Look(r) PROVE IInv'
<1> USE Parts, ActorsAre
<1>1. /\ pc[r] = "start" /\ my[r] = 0 /\ asked' = [asked EXCEPT ![r] = conf]
      /\ my' = [my EXCEPT ![r] = rpool]
      /\ UNCHANGED <<ses, wpool, wlock, rpool, told, conf, closer, gaveUp, committed, unheard, faults>>
  BY DEF Look, HandsFull, ReadHands
<1>2. /\ pc' \in [Actors -> Places] /\ pc'[r] = IF rpool = 0 THEN "rlogin" ELSE "wait"
      /\ \A b \in Actors : b # r => pc'[b] = pc[b]
  BY Going DEF Look, Places, ReadHands
<1>3. my' \in [Actors -> 0 .. Len(ses)] /\ my'[r] = rpool /\ \A b \in Actors : b # r => my'[b] = my[b]
  BY <1>1 DEF TypeOK
<1>4. ReadStep(r)
  BY <1>1, <1>2, <1>3, ReadsOnly, Ranges DEF ReadStep, KindsKept
<1>a. TypeOK'
  BY <1>1, <1>2, <1>3 DEF TypeOK, Places
<1>b. HandsFull'
  BY <1>1, <1>2, <1>3 DEF HandsFull, ReadHands
<1>c. OpenIsKnown'
  BY <1>1, <1>2, <1>3 DEF OpenIsKnown, Torn
<1>d. QED
  BY <1>4, <1>a, <1>b, <1>c, WhileReading DEF IInv

LEMMA StepReadLogin == ASSUME IInv, NEW r \in Readers, ReadLogin(r) PROVE IInv'
<1> USE Parts, ActorsAre
<1>1. /\ pc[r] = "rlogin" /\ my[r] = 0
      /\ UNCHANGED <<wpool, wlock, rpool, asked, conf, closer, gaveUp, committed, unheard>>
  BY DEF ReadLogin, Idle, HandsFull, ReadHands
<1>2. CASE /\ UNCHANGED <<faults, told>> /\ ses' = Append(ses, NewSession(r, TRUE))
           /\ my' = [my EXCEPT ![r] = Len(ses) + 1] /\ Go(r, "insert")
  <2> DEFINE s == NewSession(r, TRUE)
  <2>1. pc' \in [Actors -> Places] /\ pc'[r] = "insert" /\ \A b \in Actors : b # r => pc'[b] = pc[b]
    BY <1>2, Going DEF Places, ReadHands
  <2>2. s \in Session /\ s.holds = {} /\ s.in /\ s.open /\ s.ro = TRUE
    BY DEF NewSession, Session, TypeOK
  <2>3. ses' = Append(ses, s)
    BY <1>2
  <2> HIDE DEF s
  <2>4. /\ KindsKept' /\ Alone' /\ KeptIsIn' /\ HoldsOwn' /\ PooledInHand' /\ OpenIsKnown' /\ OnIsOpen'
        /\ ses' \in Seq(Session) /\ Len(ses') = Len(ses) + 1
        /\ my' \in [Actors -> 0 .. Len(ses')] /\ my'[r] = Len(ses) + 1
        /\ \A b \in Actors : b # r => my'[b] = my[b]
        /\ \A j \in DOMAIN ses : ses'[j] = ses[j]
    BY <1>1, <1>2, <2>1, <2>2, <2>3, WhileAdding
  <2>5. my'[r] # 0 /\ \A b \in Actors : b # r => my'[b] = my[b]
    BY <2>4, Ranges
  <2>a. TypeOK'
    BY <1>1, <1>2, <2>1, <2>4, NumbersGrow DEF TypeOK, Places
  <2>b. HandsFull' /\ NothingKept'
    BY <1>1, <1>2, <2>1, <2>5 DEF HandsFull, ReadHands, NothingKept
  <2>c. CloserKnows' /\ OwnChangesOnly' /\ PublishedIsCommitted'
    BY <1>1, <1>2 DEF CloserKnows, OwnChangesOnly, PublishedIsCommitted
  <2>d. ReadyToCommit'
    BY <1>1, <2>1, <2>4, ReadyWhileAdding
  <2>e. QED
    BY <2>4, <2>a, <2>b, <2>c, <2>d DEF IInv
<1>3. CASE /\ Fault /\ Say(r, "failed") /\ Go(r, "done") /\ UNCHANGED <<ses, my>>
  <2>1. pc' \in [Actors -> Places] /\ pc'[r] = "done" /\ \A b \in Actors : b # r => pc'[b] = pc[b]
    BY <1>3, Going DEF Places
  <2>2. told' \in [Actors -> Answers] /\ \A b \in Actors : b # r => told'[b] = told[b]
    BY <1>3, Saying DEF Answers
  <2>3. faults' \in Nat
    BY <1>3 DEF Fault, TypeOK
  <2>4. ReadStep(r)
    BY <1>1, <1>3, <2>1, <2>2, ReadsOnly, Ranges DEF ReadStep, KindsKept
  <2>a. TypeOK'
    BY <1>1, <1>3, <2>1, <2>2, <2>3 DEF TypeOK, Places, Answers
  <2>b. HandsFull'
    BY <1>1, <1>3, <2>1 DEF HandsFull, ReadHands
  <2>c. OpenIsKnown'
    BY <1>1, <1>3, <2>1 DEF OpenIsKnown, Torn
  <2>d. QED
    BY <2>4, <2>a, <2>b, <2>c, WhileReading DEF IInv
<1>4. QED
  BY <1>2, <1>3 DEF ReadLogin

LEMMA StepInsert == ASSUME IInv, NEW r \in Readers, Insert(r) PROVE IInv'
<1> DEFINE i == my[r]
<1> USE Parts, ActorsAre
<1>1. /\ pc[r] = "insert" /\ i # 0 /\ i \in DOMAIN ses /\ ses[i].ro
      /\ UNCHANGED <<wpool, wlock, told, asked, conf, closer, gaveUp, committed>>
  BY Ranges DEF Insert, Idle, HandsFull, ReadHands, KindsKept
<1>2. pc' \in [Actors -> Places] /\ pc'[r] = "wait" /\ \A b \in Actors : b # r => pc'[b] = pc[b]
  BY Going DEF Insert, Places, ReadHands
<1>3. CASE rpool = 0 /\ rpool' = i /\ UNCHANGED <<ses, my, faults, unheard>>
  <2>1. ReadStep(r)
    BY <1>1, <1>2, <1>3, ReadsOnly, Ranges DEF ReadStep, KindsKept
  <2>2. i \in 0 .. Len(ses)
    BY DEF TypeOK
  <2>a. TypeOK'
    BY <1>1, <1>2, <1>3, <2>2 DEF TypeOK, Places
  <2>b. HandsFull'
    BY <1>1, <1>2, <1>3 DEF HandsFull, ReadHands
  <2>c. OpenIsKnown'
    <3>1. ASSUME NEW j \in DOMAIN ses, ses[j].open, j # i
          PROVE  \/ j = wpool \/ Torn(j) \/ \E c \in Calls : my[c] = j
                 \/ \E q \in Readers : q # r /\ pc[q] = "insert" /\ my[q] = j
      BY <1>3, <3>1, Ranges DEF OpenIsKnown
    <3>2. \A q \in Readers : q # r => pc'[q] = pc[q]
      BY <1>2
    <3>3. QED
      BY <1>1, <1>3, <3>1, <3>2 DEF OpenIsKnown, Torn
  <2>d. QED
    BY <2>1, <2>a, <2>b, <2>c, WhileReading DEF IInv
<1>4. CASE rpool # 0 /\ LoserClosed(i) /\ my' = [my EXCEPT ![r] = rpool] /\ UNCHANGED rpool
  <2>1. my' \in [Actors -> 0 .. Len(ses)] /\ my'[r] = rpool /\ \A b \in Actors : b # r => my'[b] = my[b]
    BY <1>4 DEF TypeOK
  <2>2. /\ ses' \in Seq(Session) /\ Len(ses') = Len(ses) /\ DOMAIN ses' = DOMAIN ses
        /\ \A j \in DOMAIN ses : Falls(j) /\ (j # i => ses'[j] = ses[j])
        /\ ~ses'[i].in /\ ~ses'[i].open
        /\ (ses'[i].on => i \in unheard') /\ unheard \subseteq unheard' /\ unheard' \subseteq unheard \cup {i}
    <3>1. CASE ses' = Dropped(i, FALSE, TRUE) /\ UNCHANGED <<faults, unheard>>
      BY <1>1, <3>1, DroppedIs
    <3>2. CASE Fault /\ ses' = Dropped(i, FALSE, FALSE) /\ unheard' = unheard \cup {i}
      BY <1>1, <3>2, DroppedIs
    <3>3. QED
      BY <1>4, <3>1, <3>2 DEF LoserClosed
  <2>3. faults' \in Nat
    <3>1. faults' = faults \/ faults' = faults + 1
      BY <1>4 DEF LoserClosed, Fault
    <3>2. QED
      BY <3>1 DEF TypeOK
  <2>4. unheard' \subseteq 1 .. Len(ses)
    BY <1>1, <2>2, Ranges DEF TypeOK
  <2>5. \A j \in DOMAIN ses : /\ ses[j].ro => ses'[j].holds = {}
                             /\ ses'[j].on => ses'[j].in \/ j \in unheard'
    <3>1. ASSUME NEW j \in DOMAIN ses, ses[j].ro PROVE ses'[j].holds = {}
      BY <2>2, <3>1 DEF KindsKept, Falls
    <3>2. ASSUME NEW j \in DOMAIN ses, ses'[j].on PROVE ses'[j].in \/ j \in unheard'
      BY <2>2, <3>2 DEF OnIsOpen, Reopened
    <3>3. QED
      BY <3>1, <3>2
  <2>6. ReadStep(r)
    BY <1>1, <1>2, <1>4, <2>1, <2>2, <2>5, Ranges DEF ReadStep, KindsKept, Falls
  <2>a. TypeOK'
    BY <1>1, <1>2, <1>4, <2>1, <2>2, <2>3, <2>4 DEF TypeOK, Places
  <2>b. HandsFull'
    BY <1>1, <1>2, <1>4, <2>1 DEF HandsFull, ReadHands
  <2>c. OpenIsKnown'
    BY <1>1, <1>2, <1>4, <2>1, <2>2 DEF OpenIsKnown, Torn, Falls
  <2>d. QED
    BY <2>6, <2>a, <2>b, <2>c, WhileReading DEF IInv
<1>5. QED
  BY <1>3, <1>4 DEF Insert

LEMMA StepTake == ASSUME IInv, NEW r \in Readers, Take(r) PROVE IInv'
<1> DEFINE i == my[r]
           s == [ses[i] EXCEPT !.user = r]
<1> USE Parts, ActorsAre
<1>1. /\ pc[r] = "wait" /\ i # 0 /\ i \in DOMAIN ses /\ ses[i].ro /\ ses' = [ses EXCEPT ![i] = s]
      /\ UNCHANGED <<wpool, wlock, rpool, my, told, asked, conf, closer, gaveUp, committed, unheard, faults>>
  BY Ranges DEF Take, Idle, HandsFull, ReadHands, KindsKept
<1>2. pc' \in [Actors -> Places] /\ pc'[r] = "read" /\ \A b \in Actors : b # r => pc'[b] = pc[b]
  BY Going DEF Take, Places, ReadHands
<1>3. ses[i] \in Session
  BY <1>1, SessionIs
<1>4. /\ s \in Session /\ s.in = ses[i].in /\ s.open = ses[i].open /\ s.on = ses[i].on
      /\ s.ro = ses[i].ro /\ s.host = ses[i].host /\ s.holds = ses[i].holds
  BY <1>3 DEF Session
<1> HIDE DEF s
<1>5. /\ ses' \in Seq(Session) /\ Len(ses') = Len(ses) /\ DOMAIN ses' = DOMAIN ses
      /\ ses'[i] = s /\ \A j \in DOMAIN ses : j # i => ses'[j] = ses[j]
  BY <1>1, <1>4, SessionChanges
<1>6. ReadStep(r)
  BY <1>1, <1>2, <1>4, <1>5, Ranges, SessionIs DEF ReadStep, KindsKept, Same, OnIsOpen, Reopened
<1>a. TypeOK'
  BY <1>1, <1>2, <1>5 DEF TypeOK, Places
<1>b. HandsFull'
  BY <1>1, <1>2 DEF HandsFull, ReadHands
<1>c. OpenIsKnown'
  BY <1>1, <1>2, <1>4, <1>5 DEF OpenIsKnown, Torn
<1>d. QED
  BY <1>6, <1>a, <1>b, <1>c, WhileReading DEF IInv

LEMMA StepRead == ASSUME IInv, NEW r \in Readers, Read(r) PROVE IInv'
<1> DEFINE i == my[r]
           free == [ses[i] EXCEPT !.user = None, !.on = TRUE, !.in = TRUE]
           left == [ses[i] EXCEPT !.user = None]
<1> USE Parts, ActorsAre
<1>1. /\ pc[r] = "read" /\ i # 0 /\ i \in DOMAIN ses /\ ses[i].ro /\ ses[i].holds = {}
      /\ my' = [my EXCEPT ![r] = 0]
      /\ UNCHANGED <<wpool, wlock, rpool, asked, conf, closer, gaveUp, committed, unheard>>
  BY Ranges DEF Read, Idle, HandsFull, ReadHands, KindsKept
<1>2. pc' \in [Actors -> Places] /\ pc'[r] = "done" /\ \A b \in Actors : b # r => pc'[b] = pc[b]
  BY Going DEF Read, Places
<1>3. my' \in [Actors -> 0 .. Len(ses)] /\ my'[r] = 0 /\ \A b \in Actors : b # r => my'[b] = my[b]
  BY <1>1 DEF TypeOK
<1>4. told' \in [Actors -> Answers] /\ \A b \in Actors : b # r => told'[b] = told[b]
  BY Saying DEF Read, Answers
<1>5. faults' \in Nat
  <2>1. faults' = faults \/ faults' = faults + 1
    BY DEF Read, Answered, Refused, Fault
  <2>2. QED
    BY <2>1 DEF TypeOK
<1>6. ses[i] \in Session
  BY <1>1, SessionIs
<1>7. \/ ses' = [ses EXCEPT ![i] = left]
      \/ ses[i].open /\ ses' = [ses EXCEPT ![i] = free]
  <2>1. Free(i, TRUE) = [ses EXCEPT ![i] = free]
    BY <1>1, <1>6 DEF Free, TypeOK
  <2>2. \/ ses' = [ses EXCEPT ![i].user = None]
        \/ ses[i].open /\ ses' = Free(i, TRUE)
    BY DEF Read, Answered, Alive
  <2>3. QED
    BY <2>1, <2>2
<1>8. /\ free \in Session /\ free.ro = ses[i].ro /\ free.host = ses[i].host /\ free.open = ses[i].open
      /\ free.holds = ses[i].holds
      /\ left \in Session /\ left.ro = ses[i].ro /\ left.host = ses[i].host /\ left.open = ses[i].open
      /\ left.holds = ses[i].holds /\ left.on = ses[i].on /\ left.in = ses[i].in
      /\ free.in = TRUE
  BY <1>6 DEF Session
<1> HIDE DEF free, left
<1>9. /\ ses' \in Seq(Session) /\ Len(ses') = Len(ses) /\ DOMAIN ses' = DOMAIN ses
      /\ ses'[i] = left \/ (ses[i].open /\ ses'[i] = free)
      /\ \A j \in DOMAIN ses : j # i => ses'[j] = ses[j]
  BY <1>1, <1>7, <1>8, SessionChanges
<1>10. \A j \in DOMAIN ses : /\ Same(j) /\ (ses[j].ro \/ ses'[j] = ses[j])
                             /\ ses[j].ro => ses'[j].holds = {}
                             /\ ses'[j].open => ses[j].open
                             /\ ses'[j].on => ses'[j].in \/ j \in unheard'
                             /\ ses'[j].in /\ ~ses'[j].open => ses[j].in /\ ~ses[j].open
  <2>1. ASSUME NEW j \in DOMAIN ses, j # i
        PROVE  /\ Same(j) /\ ses'[j] = ses[j]
               /\ ses[j].ro => ses'[j].holds = {}
               /\ ses'[j].on => ses'[j].in \/ j \in unheard'
    BY <1>1, <1>9, <2>1, SessionIs DEF Same, KindsKept, OnIsOpen, Reopened
  <2>2. /\ Same(i) /\ ses'[i].holds = {} /\ (ses'[i].open => ses[i].open)
        /\ ses'[i].on => ses'[i].in \/ i \in unheard'
        /\ ses'[i].in /\ ~ses'[i].open => ses[i].in /\ ~ses[i].open
    <3>1. ses[i].on => ses[i].in \/ i \in unheard
      BY <1>1 DEF OnIsOpen
    <3>2. CASE ses'[i] = left
      BY <1>1, <1>8, <3>1, <3>2 DEF Same
    <3>3. CASE ses[i].open /\ ses'[i] = free
      BY <1>1, <1>8, <3>3 DEF Same
    <3>4. QED
      BY <1>9, <3>2, <3>3
  <2>3. QED
    BY <1>1, <2>1, <2>2
<1>11. ReadStep(r)
  BY <1>1, <1>2, <1>3, <1>4, <1>9, <1>10, Ranges DEF ReadStep, KindsKept, Same
<1>a. TypeOK'
  BY <1>1, <1>2, <1>3, <1>4, <1>5, <1>9 DEF TypeOK, Places, Answers
<1>b. HandsFull'
  BY <1>1, <1>2, <1>3 DEF HandsFull, ReadHands
<1>c. OpenIsKnown'
  <2>1. \A j \in DOMAIN ses : ses'[j].open => ses[j].open
    BY <1>10 DEF Same
  <2>2. QED
    BY <1>1, <1>2, <1>3, <1>9, <2>1 DEF OpenIsKnown, Torn
<1>d. QED
  BY <1>11, <1>a, <1>b, <1>c, WhileReading DEF IInv

---------------------------------------------------------------------------
(* Outside events                                                          *)

\* The server drops a session, with or without what it had staged.
LEMMA StepDisconnect ==
    ASSUME IInv, NEW i \in DOMAIN ses, NEW left \in SUBSET ses[i].holds, Fault,
           ses' = [ses EXCEPT ![i].on = FALSE, ![i].holds = left],
           UNCHANGED <<wpool, wlock, rpool, pc, my, told, asked, conf, closer, gaveUp, committed, unheard>>
    PROVE  IInv'
<1> DEFINE s == [ses[i] EXCEPT !.on = FALSE, !.holds = left]
<1> USE Parts, ActorsAre
<1>1. ses[i] \in Session
  BY SessionIs
<1>2. ses' = [ses EXCEPT ![i] = s]
  BY <1>1 DEF TypeOK
<1>3. /\ s \in Session /\ s.in = ses[i].in /\ s.open = ses[i].open /\ s.on = FALSE
      /\ s.ro = ses[i].ro /\ s.host = ses[i].host /\ s.holds = left
  BY <1>1 DEF Session
<1> HIDE DEF s
<1>4. /\ ses' \in Seq(Session) /\ Len(ses') = Len(ses) /\ DOMAIN ses' = DOMAIN ses
      /\ ses'[i] = s /\ \A j \in DOMAIN ses : j # i => ses'[j] = ses[j]
  BY <1>2, <1>3, SessionChanges
<1>5. \A j \in DOMAIN ses : Falls(j) /\ ses'[j].in = ses[j].in /\ ses'[j].open = ses[j].open
  BY <1>3, <1>4, SessionIs DEF Falls, Same
<1>6. faults' \in Nat
  BY DEF Fault, TypeOK
<1>a. TypeOK'
  BY <1>4, <1>6 DEF TypeOK
<1>b. HandsFull' /\ NothingKept' /\ CloserKnows' /\ OwnChangesOnly' /\ PublishedIsCommitted'
  BY DEF HandsFull, NothingKept, CloserKnows, OwnChangesOnly, PublishedIsCommitted
<1>c. KindsKept' /\ Alone' /\ KeptIsIn' /\ HoldsOwn' /\ PooledInHand' /\ OpenIsKnown' /\ OnIsOpen'
  BY <1>4, <1>5, WhileFalling
<1>d. ReadyToCommit'
  <2>1. ASSUME NEW d \in Calls, pc[d] = "commit" /\ ~gaveUp
        PROVE  d \in ses'[my[d]].holds \/ ~Alive(my[d])'
    <3>1. my[d] \in DOMAIN ses
      BY <2>1, Ranges DEF HandsFull, Hands
    <3>2. CASE my[d] = i
      BY <1>3, <1>4, <3>2 DEF Alive
    <3>3. CASE my[d] # i
      BY <1>4, <2>1, <3>1, <3>3 DEF ReadyToCommit, Alive
    <3>4. QED
      BY <3>2, <3>3
  <2>2. QED
    BY <2>1 DEF ReadyToCommit
<1>e. QED
  BY <1>a, <1>b, <1>c, <1>d DEF IInv

LEMMA StepExpire == ASSUME IInv, NEW i \in DOMAIN ses, Expire(i) PROVE IInv'
<1>1. {} \in SUBSET ses[i].holds
  OBVIOUS
<1>2. QED
  BY <1>1, StepDisconnect DEF Expire

LEMMA StepTakeOver == ASSUME IInv, NEW i \in DOMAIN ses, TakeOver(i) PROVE IInv'
<1>1. PICK left \in {{}, ses[i].holds} : ses' = [ses EXCEPT ![i].on = FALSE, ![i].holds = left]
  BY DEF TakeOver
<1>2. left \in SUBSET ses[i].holds
  BY <1>1
<1>3. QED
  BY <1>1, <1>2, StepDisconnect DEF TakeOver

\* What does not touch sessions, pools, requests and the shutdown keeps the invariant.
LEMMA StepElsewhere ==
    ASSUME IInv, conf' \in Nat,
           UNCHANGED <<ses, wpool, wlock, rpool, pc, my, told, asked, closer, gaveUp, committed, unheard, faults>>
    PROVE  IInv'
  BY DEF IInv, TypeOK, HandsFull, KindsKept, Alone, CloserKnows, KeptIsIn, NothingKept, HoldsOwn,
         ReadyToCommit, PooledInHand, OpenIsKnown, OnIsOpen, Reopened, OwnChangesOnly, PublishedIsCommitted, Alive, Torn

LEMMA StepEdit == ASSUME IInv, Edit PROVE IInv'
<1>1. conf' \in Nat
  BY Parts DEF Edit, TypeOK
<1>2. QED
  BY <1>1, StepElsewhere DEF Edit

---------------------------------------------------------------------------
(* The shutdown                                                            *)

\* What follows from a step of the shutdown on the shared reader, for the applies.
LEMMA WhileClosing ==
    ASSUME IInv, closer.at \in {"up", "closing"}, DOMAIN ses' = DOMAIN ses,
           \A j \in DOMAIN ses : /\ Same(j) /\ ses'[j].holds = ses[j].holds
                                 /\ ses'[j].in => ses[j].in
                                 /\ ses'[j].open => ses[j].open
                                 /\ j # rpool => ses'[j] = ses[j],
           rpool' \in {0, rpool}, closer'.took \in {0, wpool},
           closer'.at \in {"closing", "down"} \/ (closer'.at = "wait" /\ closer'.took # 0),
           UNCHANGED <<wpool, wlock, pc, my, told, gaveUp, committed>>
    PROVE  /\ HandsFull' /\ KindsKept' /\ Alone' /\ CloserKnows' /\ KeptIsIn' /\ NothingKept' /\ HoldsOwn'
           /\ ReadyToCommit' /\ PooledInHand' /\ OwnChangesOnly' /\ PublishedIsCommitted'
<1> USE Parts, ActorsAre
<1>0. rpool # 0 => rpool \in DOMAIN ses /\ ses[rpool].ro
  BY Ranges DEF KindsKept
<1>b. HandsFull' /\ NothingKept' /\ OwnChangesOnly' /\ PublishedIsCommitted'
  BY DEF HandsFull, NothingKept, OwnChangesOnly, PublishedIsCommitted
<1>c. KindsKept'
  BY Ranges DEF KindsKept, Same
<1>d. Alone' /\ CloserKnows'
  BY DEF Alone, CloserKnows
<1>e. KeptIsIn'
  BY <1>0, Ranges DEF KeptIsIn, KindsKept
<1>f. HoldsOwn'
  BY DEF HoldsOwn
<1>g. ReadyToCommit'
  <2>1. ASSUME NEW d \in Calls, pc[d] = "commit" /\ ~gaveUp
        PROVE  d \in ses'[my[d]].holds \/ ~Alive(my[d])'
    <3>1. my[d] \in DOMAIN ses /\ my[d] # rpool
      BY <1>0, <2>1, Ranges DEF HandsFull, Hands, KindsKept
    <3>2. QED
      BY <2>1, <3>1 DEF ReadyToCommit, Alive
  <2>2. QED
    BY <2>1 DEF ReadyToCommit
<1>h. PooledInHand'
  <2>1. ~Torn(0) /\ \A j \in DOMAIN ses : ~Torn(j)
    BY DEF Torn
  <2>2. QED
    BY <2>1, Ranges DEF PooledInHand
<1>k. QED
  BY <1>b, <1>c, <1>d, <1>e, <1>f, <1>g, <1>h

LEMMA StepClosePool == ASSUME IInv, ClosePool PROVE IInv'
<1> USE Parts, ActorsAre
<1>1. /\ closer.at = "up" /\ closer' = [at |-> "closing", took |-> 0]
      /\ UNCHANGED <<wpool, wlock, rpool, pc, my, told, asked, conf, gaveUp, committed>>
  BY DEF ClosePool, Closing
<1>2. /\ closer'.at = "closing" /\ closer'.took = 0
      /\ closer' \in [at : {"up", "closing", "wait", "take", "discard", "logout", "down"}, took : 0 .. Len(ses)]
  BY <1>1, Ranges
<1>3. /\ ses' \in Seq(Session) /\ Len(ses') = Len(ses) /\ DOMAIN ses' = DOMAIN ses
      /\ \A j \in DOMAIN ses : /\ Same(j) /\ ses'[j].holds = ses[j].holds
                               /\ ses'[j].in => ses[j].in
                               /\ ses'[j].open = ses[j].open
                               /\ ses'[j].on => ses[j].on
                               /\ j # rpool => ses'[j] = ses[j]
      /\ rpool # 0 => ~ses'[rpool].in /\ (ses'[rpool].on => rpool \in unheard')
      /\ unheard \subseteq unheard' /\ unheard' \subseteq 1 .. Len(ses) /\ faults' \in Nat
  <2>1. CASE rpool = 0 /\ UNCHANGED <<ses, unheard, faults>>
    BY <2>1, SessionIs DEF Same, TypeOK
  <2>2. ASSUME NEW heard \in BOOLEAN, rpool # 0, ses' = LoggedOut(rpool, heard),
               IF heard THEN UNCHANGED <<unheard, faults>>
               ELSE unheard' = unheard \cup {rpool} /\ faults' = faults + 1
        PROVE  <1>3!1 /\ <1>3!2 /\ <1>3!3 /\ <1>3!4
    <3> DEFINE s == [ses[rpool] EXCEPT !.on = @ /\ ~heard, !.in = FALSE]
    <3>1. rpool \in DOMAIN ses /\ ses[rpool] \in Session
      BY <2>2, Ranges, SessionIs
    <3>2. ses' = [ses EXCEPT ![rpool] = s]
      BY <2>2, <3>1 DEF LoggedOut, TypeOK
    <3>3. /\ s \in Session /\ s.ro = ses[rpool].ro /\ s.host = ses[rpool].host /\ s.open = ses[rpool].open
          /\ s.holds = ses[rpool].holds /\ ~s.in /\ (s.on <=> ses[rpool].on /\ ~heard)
      BY <3>1 DEF Session
    <3> HIDE DEF s
    <3>4. /\ ses' \in Seq(Session) /\ Len(ses') = Len(ses) /\ DOMAIN ses' = DOMAIN ses
          /\ ses'[rpool] = s /\ \A j \in DOMAIN ses : j # rpool => ses'[j] = ses[j]
      BY <3>1, <3>2, <3>3, SessionChanges
    <3>5. unheard \subseteq unheard' /\ unheard' \subseteq 1 .. Len(ses) /\ faults' \in Nat
      BY <2>2, <3>1, Ranges DEF TypeOK
    <3>6. \A j \in DOMAIN ses : /\ Same(j) /\ ses'[j].holds = ses[j].holds
                                /\ ses'[j].in => ses[j].in
                                /\ ses'[j].open = ses[j].open
                                /\ ses'[j].on => ses[j].on
                                /\ j # rpool => ses'[j] = ses[j]
      BY <3>3, <3>4, SessionIs DEF Same
    <3>7. ~ses'[rpool].in /\ (ses'[rpool].on => rpool \in unheard')
      BY <2>2, <3>3, <3>4
    <3> QED BY <3>4, <3>5, <3>6, <3>7
  <2>3. QED
    BY <2>1, <2>2 DEF ClosePool, Fault
<1>a. TypeOK'
  BY <1>1, <1>2, <1>3 DEF TypeOK
<1>b. /\ HandsFull' /\ KindsKept' /\ Alone' /\ CloserKnows' /\ KeptIsIn' /\ NothingKept' /\ HoldsOwn'
      /\ ReadyToCommit' /\ PooledInHand' /\ OwnChangesOnly' /\ PublishedIsCommitted'
  BY <1>1, <1>2, <1>3, WhileClosing
<1>c. OpenIsKnown'
  BY <1>1, <1>2, <1>3 DEF OpenIsKnown, Torn
<1>d. OnIsOpen'
  <2>1. \A i \in DOMAIN ses : ~Reopened(i)'
    BY <1>1, <1>3 DEF OnIsOpen, Reopened
  <2>2. ASSUME NEW i \in DOMAIN ses, ses'[i].on PROVE ses'[i].in \/ i \in unheard'
    BY <1>3, <2>2, Ranges DEF OnIsOpen
  <2> QED BY <1>3, <2>1, <2>2 DEF OnIsOpen
<1>e. QED
  BY <1>a, <1>b, <1>c, <1>d DEF IInv

LEMMA StepPoolClosed == ASSUME IInv, PoolClosed PROVE IInv'
<1> USE Parts, ActorsAre
<1>1. /\ closer.at = "closing" /\ rpool' = 0
      /\ closer' = [at |-> IF wpool = 0 THEN "down" ELSE "wait", took |-> wpool]
      /\ UNCHANGED <<wpool, wlock, pc, my, told, asked, conf, gaveUp, committed, unheard, faults>>
  BY DEF PoolClosed, Closing
<1>2. /\ closer'.at = IF wpool = 0 THEN "down" ELSE "wait"
      /\ closer'.took = wpool
      /\ closer' \in [at : {"up", "closing", "wait", "take", "discard", "logout", "down"}, took : 0 .. Len(ses)]
  BY <1>1 DEF TypeOK
<1>3. /\ ses' \in Seq(Session) /\ Len(ses') = Len(ses) /\ DOMAIN ses' = DOMAIN ses
      /\ \A j \in DOMAIN ses : /\ Same(j) /\ ses'[j].holds = ses[j].holds
                               /\ ses'[j].in = ses[j].in /\ ses'[j].on = ses[j].on
                               /\ ses'[j].open => ses[j].open
                               /\ j # rpool => ses'[j] = ses[j]
      /\ rpool # 0 => ~ses'[rpool].open
  <2>1. CASE rpool = 0
    BY <2>1, SessionIs DEF PoolClosed, Same, TypeOK
  <2>2. CASE rpool # 0
    <3> DEFINE s == [ses[rpool] EXCEPT !.open = FALSE]
    <3>1. rpool \in DOMAIN ses /\ ses[rpool] \in Session
      BY <2>2, Ranges, SessionIs
    <3>2. ses' = [ses EXCEPT ![rpool] = s]
      BY <2>2 DEF PoolClosed
    <3>3. /\ s \in Session /\ s.ro = ses[rpool].ro /\ s.host = ses[rpool].host /\ ~s.open
          /\ s.holds = ses[rpool].holds /\ s.in = ses[rpool].in /\ s.on = ses[rpool].on
      BY <3>1 DEF Session
    <3> HIDE DEF s
    <3>4. QED
      BY <3>1, <3>2, <3>3, SessionChanges, SessionIs DEF Same
  <2>3. QED
    BY <2>1, <2>2
<1>a. TypeOK'
  BY <1>1, <1>2, <1>3 DEF TypeOK
<1>b. /\ HandsFull' /\ KindsKept' /\ Alone' /\ CloserKnows' /\ KeptIsIn' /\ NothingKept' /\ HoldsOwn'
      /\ ReadyToCommit' /\ PooledInHand' /\ OwnChangesOnly' /\ PublishedIsCommitted'
  BY <1>1, <1>2, <1>3, WhileClosing
<1>c. OpenIsKnown'
  BY <1>1, <1>2, <1>3 DEF OpenIsKnown, Torn
<1>d. OnIsOpen'
  <2>1. \A i \in DOMAIN ses : Reopened(i)' => i = rpool
    BY <1>1, <1>3 DEF OnIsOpen, Reopened
  <2>2. ASSUME NEW i \in DOMAIN ses, ses'[i].on PROVE ses'[i].in \/ i \in unheard'
    <3>1. ses[i].in \/ i \in unheard
      BY <1>3, <2>2 DEF OnIsOpen
    <3> QED BY <1>1, <1>3, <3>1
  <2> QED BY <1>2, <1>3, <2>1, <2>2 DEF OnIsOpen
<1>e. QED
  BY <1>a, <1>b, <1>c, <1>d DEF IInv

LEMMA StepCloserTakes == ASSUME IInv, CloserTakes PROVE IInv'
<1> USE Parts, ActorsAre
<1>1. /\ closer.at = "wait" /\ closer' = [at |-> "take", took |-> closer.took]
      /\ UNCHANGED <<ses, wpool, rpool, pc, my, told, asked, conf, committed, unheard, faults>>
      /\ \/ wlock = None /\ wlock' = "closer" /\ gaveUp' = gaveUp
         \/ wlock # None /\ wlock' = wlock /\ gaveUp' = TRUE
  BY DEF CloserTakes, Closing
<1>2. /\ closer'.at = "take" /\ closer'.took = closer.took
      /\ closer' \in [at : {"up", "closing", "wait", "take", "discard", "logout", "down"}, took : 0 .. Len(ses)]
  BY <1>1 DEF TypeOK
<1>a. TypeOK'
  BY <1>1, <1>2 DEF TypeOK
<1>b. HandsFull' /\ NothingKept' /\ OwnChangesOnly' /\ PublishedIsCommitted'
  BY <1>1 DEF HandsFull, NothingKept, OwnChangesOnly, PublishedIsCommitted
<1>c. KindsKept' /\ Alone' /\ KeptIsIn' /\ HoldsOwn' /\ PooledInHand' /\ OpenIsKnown' /\ OnIsOpen'
  <2>1. \A j \in DOMAIN ses : Falls(j) /\ ses'[j] = ses[j]
    BY <1>1, SessionIs DEF Falls, Same
  <2>2. QED
    BY <1>1, <1>2, <2>1, WhileFalling
<1>d. CloserKnows'
  BY <1>1, <1>2 DEF CloserKnows
<1>e. ReadyToCommit'
  BY <1>1 DEF ReadyToCommit, Alive
<1>f. QED
  BY <1>a, <1>b, <1>c, <1>d, <1>e DEF IInv

LEMMA StepCloserChecks == ASSUME IInv, CloserChecks PROVE IInv'
<1> USE Parts, ActorsAre
<1>1. /\ closer.at = "take" /\ closer.took # 0
      /\ UNCHANGED <<ses, rpool, pc, my, told, asked, conf, gaveUp, committed, unheard, faults>>
  BY DEF CloserChecks, CloserKnows
<1>2. \/ /\ wpool = closer.took /\ wpool' = 0
         /\ closer' = [at |-> "discard", took |-> closer.took] /\ wlock' = wlock
      \/ /\ wpool # closer.took /\ wpool' = wpool
         /\ closer' = [at |-> "down", took |-> closer.took]
         /\ wlock' = IF wlock = "closer" THEN None ELSE wlock
  BY DEF CloserChecks, TakeOut, Closing, CloserUnlocks
<1>3. /\ closer'.took = closer.took /\ closer'.at = IF wpool = closer.took THEN "discard" ELSE "down"
      /\ closer' \in [at : {"up", "closing", "wait", "take", "discard", "logout", "down"}, took : 0 .. Len(ses)]
  BY <1>2 DEF TypeOK
<1>a. TypeOK'
  BY <1>1, <1>2, <1>3 DEF TypeOK
<1>b. HandsFull' /\ NothingKept' /\ OwnChangesOnly' /\ PublishedIsCommitted'
  BY <1>1, <1>2 DEF HandsFull, NothingKept, OwnChangesOnly, PublishedIsCommitted
<1>c. KindsKept'
  BY <1>1, <1>2, <1>3 DEF KindsKept
<1>d. Alone'
  BY <1>1, <1>2, <1>3 DEF Alone
<1>e. CloserKnows'
  BY <1>1, <1>2, <1>3 DEF CloserKnows
<1>f. KeptIsIn' /\ HoldsOwn' /\ OnIsOpen'
  BY <1>1, <1>2 DEF KeptIsIn, HoldsOwn, OnIsOpen, Reopened
<1>g. ReadyToCommit'
  BY <1>1 DEF ReadyToCommit, Alive
<1>h. PooledInHand'
  BY <1>1, <1>2, <1>3 DEF PooledInHand, Torn
<1>i. OpenIsKnown'
  BY <1>1, <1>2, <1>3 DEF OpenIsKnown, Torn
<1>j. QED
  BY <1>a, <1>b, <1>c, <1>d, <1>e, <1>f, <1>g, <1>h, <1>i DEF IInv

\* While the shutdown has the lock, the session it took is no apply's.
LEMMA TakenIsAlone ==
    ASSUME IInv, closer.at \in {"discard", "logout"}, ~gaveUp, NEW d \in Calls, my[d] # 0
    PROVE  my[d] # closer.took
<1> USE Parts, ActorsAre
<1>1. wlock = "closer" /\ wlock # d
  BY DEF CloserKnows
<1>2. d \in Private
  BY <1>1 DEF HandsFull, Locks
<1>3. QED
  BY <1>2 DEF Alone

LEMMA StepCloserDiscards == ASSUME IInv, CloserDiscards PROVE IInv'
<1> DEFINE i == closer.took
<1> USE Parts, ActorsAre
<1>1. /\ closer.at = "discard" /\ i # 0 /\ i \in DOMAIN ses
      /\ closer' = [at |-> "logout", took |-> i]
      /\ UNCHANGED <<wpool, wlock, rpool, pc, my, told, asked, conf, gaveUp, committed, unheard>>
      /\ faults' = faults \/ faults' = faults + 1
  BY Ranges DEF CloserDiscards, Fault, Closing, CloserKnows
<1>2. /\ closer'.at = "logout" /\ closer'.took = closer.took
      /\ closer' \in [at : {"up", "closing", "wait", "take", "discard", "logout", "down"}, took : 0 .. Len(ses)]
  BY <1>1 DEF TypeOK
<1>3. /\ ses' \in Seq(Session) /\ Len(ses') = Len(ses) /\ DOMAIN ses' = DOMAIN ses
      /\ \A j \in DOMAIN ses : /\ Falls(j) /\ (j # i => ses'[j] = ses[j])
                               /\ ses'[j].in = ses[j].in /\ ses'[j].open = ses[j].open
  <2>1. CASE ses' = Emptied(i)
    BY <1>1, <2>1, EmptiedIs
  <2>2. CASE ses' = ses
    BY <2>2, SessionIs DEF TypeOK, Falls, Same
  <2>3. QED
    BY <2>1, <2>2 DEF CloserDiscards
<1>a. TypeOK'
  BY <1>1, <1>2, <1>3 DEF TypeOK
<1>b. HandsFull' /\ NothingKept' /\ OwnChangesOnly' /\ PublishedIsCommitted'
  BY <1>1 DEF HandsFull, NothingKept, OwnChangesOnly, PublishedIsCommitted
<1>c. KindsKept' /\ Alone' /\ KeptIsIn' /\ HoldsOwn' /\ PooledInHand' /\ OpenIsKnown' /\ OnIsOpen'
  BY <1>1, <1>2, <1>3, WhileFalling
<1>d. CloserKnows'
  BY <1>1, <1>2 DEF CloserKnows
<1>e. ReadyToCommit'
  <2>1. ASSUME NEW d \in Calls, pc[d] = "commit" /\ ~gaveUp
        PROVE  d \in ses'[my[d]].holds \/ ~Alive(my[d])'
    <3>1. my[d] # 0 /\ my[d] \in DOMAIN ses
      BY <2>1, Ranges DEF HandsFull, Hands
    <3>2. my[d] # i
      BY <1>1, <2>1, <3>1, TakenIsAlone
    <3>3. QED
      BY <1>1, <1>3, <2>1, <3>1, <3>2 DEF ReadyToCommit, Alive
  <2>2. QED
    BY <1>1, <2>1 DEF ReadyToCommit
<1>f. QED
  BY <1>a, <1>b, <1>c, <1>d, <1>e DEF IInv

LEMMA StepCloserLogsOut == ASSUME IInv, CloserLogsOut PROVE IInv'
<1> DEFINE i == closer.took
<1> USE Parts, ActorsAre
<1>1. /\ closer.at = "logout" /\ i # 0 /\ i \in DOMAIN ses /\ wpool # i
      /\ closer' = [at |-> "down", took |-> i]
      /\ wlock' = IF wlock = "closer" THEN None ELSE wlock
      /\ UNCHANGED <<wpool, rpool, pc, my, told, asked, conf, gaveUp, committed>>
      /\ \/ ses' = Dropped(i, FALSE, TRUE) /\ unheard' = unheard /\ faults' = faults
         \/ ses' = Dropped(i, FALSE, FALSE) /\ unheard' = unheard \cup {i} /\ faults' = faults + 1
  BY Ranges DEF CloserLogsOut, Closing, CloserUnlocks, CloserKnows, Fault
<1>2. /\ closer'.at = "down" /\ closer'.took = closer.took
      /\ closer' \in [at : {"up", "closing", "wait", "take", "discard", "logout", "down"}, took : 0 .. Len(ses)]
  BY <1>1 DEF TypeOK
<1>3. /\ ses' \in Seq(Session) /\ Len(ses') = Len(ses) /\ DOMAIN ses' = DOMAIN ses
      /\ \A j \in DOMAIN ses : Falls(j) /\ (j # i => ses'[j] = ses[j])
      /\ ~ses'[i].in /\ ~ses'[i].open /\ (ses'[i].on => i \in unheard')
      /\ unheard \subseteq unheard' /\ unheard' \subseteq 1 .. Len(ses) /\ faults' \in Nat
  <2>1. CASE ses' = Dropped(i, FALSE, TRUE) /\ unheard' = unheard /\ faults' = faults
    BY <1>1, <2>1, DroppedIs DEF TypeOK
  <2>2. CASE ses' = Dropped(i, FALSE, FALSE) /\ unheard' = unheard \cup {i} /\ faults' = faults + 1
    <3>1. /\ ses' \in Seq(Session) /\ Len(ses') = Len(ses) /\ DOMAIN ses' = DOMAIN ses
          /\ \A j \in DOMAIN ses : Falls(j) /\ (j # i => ses'[j] = ses[j])
          /\ ~ses'[i].in /\ ~ses'[i].open
      BY <1>1, <2>2, DroppedIs
    <3>2. unheard' \subseteq 1 .. Len(ses) /\ faults' \in Nat
      BY <1>1, <2>2, Ranges DEF TypeOK
    <3> QED BY <2>2, <3>1, <3>2
  <2>3. QED
    BY <1>1, <2>1, <2>2
<1>a. TypeOK'
  BY <1>1, <1>2, <1>3 DEF TypeOK
<1>b. HandsFull' /\ NothingKept' /\ OwnChangesOnly' /\ PublishedIsCommitted'
  BY <1>1 DEF HandsFull, NothingKept, OwnChangesOnly, PublishedIsCommitted
<1>c. KindsKept'
  <2>1. \A j \in DOMAIN ses : ses'[j].ro = ses[j].ro /\ ses'[j].holds \subseteq ses[j].holds
    BY <1>3 DEF Falls, Same
  <2>2. UNCHANGED <<wpool, rpool, my>> /\ closer'.took = closer.took /\ DOMAIN ses' = DOMAIN ses
    BY <1>1, <1>2, <1>3
  <2>3. QED
    BY <2>1, <2>2, Ranges DEF KindsKept
<1>d. Alone' /\ CloserKnows'
  BY <1>1, <1>2 DEF Alone, CloserKnows
<1>e. KeptIsIn'
  BY <1>1, <1>3, Ranges DEF KeptIsIn
<1>f. HoldsOwn'
  BY <1>1, <1>3 DEF HoldsOwn, Falls
<1>g. ReadyToCommit'
  <2>1. ASSUME NEW d \in Calls, pc[d] = "commit" /\ ~gaveUp
        PROVE  d \in ses'[my[d]].holds \/ ~Alive(my[d])'
    <3>1. my[d] # 0 /\ my[d] \in DOMAIN ses
      BY <2>1, Ranges DEF HandsFull, Hands
    <3>2. my[d] # i
      BY <1>1, <2>1, <3>1, TakenIsAlone
    <3>3. QED
      BY <1>1, <1>3, <2>1, <3>1, <3>2 DEF ReadyToCommit, Alive
  <2>2. QED
    BY <1>1, <2>1 DEF ReadyToCommit
<1>h. PooledInHand'
  BY <1>1, <1>2, <1>3, Ranges DEF PooledInHand, Torn, Falls
<1>i. OpenIsKnown'
  <2>1. \A j \in DOMAIN ses : ses'[j].open => ses[j].open /\ ~Torn(j)
    BY <1>3 DEF Falls, Torn
  <2>2. UNCHANGED <<wpool, rpool, my, pc>> /\ DOMAIN ses' = DOMAIN ses
    BY <1>1, <1>3
  <2>3. QED
    BY <2>1, <2>2 DEF OpenIsKnown
<1>j. OnIsOpen'
  BY <1>1, <1>3 DEF OnIsOpen, Reopened, Falls
<1>k. QED
  BY <1>a, <1>b, <1>c, <1>d, <1>e, <1>f, <1>g, <1>h, <1>i, <1>j DEF IInv

---------------------------------------------------------------------------
(* The theorems                                                            *)

LEMMA InvInit == Init => IInv
<1> SUFFICES ASSUME Init PROVE IInv
  OBVIOUS
<1> USE ActorsAre DEF Init
<1>1. /\ ses = <<>> /\ Len(ses) = 0 /\ DOMAIN ses = {} /\ ses \in Seq(Session)
      /\ closer.at = "up" /\ closer.took = 0
  OBVIOUS
<1>2. /\ pc \in [Actors -> {"start", "off"}]
      /\ \A a \in Actors : pc[a] \in {"start", "off"} /\ my[a] = 0 /\ told[a] = "nothing"
  OBVIOUS
<1>3. TypeOK
  <2>1. 0 \in 0 .. Len(ses)
    BY <1>1
  <2>2. pc \in [Actors -> Places]
    BY <1>2 DEF Places
  <2>3. my \in [Actors -> 0 .. Len(ses)] /\ told \in [Actors -> Answers] /\ asked \in [Actors -> Nat]
    BY <2>1 DEF Answers
  <2>4. closer \in [at : {"up", "closing", "wait", "take", "discard", "logout", "down"}, took : 0 .. Len(ses)]
    BY <2>1
  <2>5. QED
    BY <1>1, <2>1, <2>2, <2>3, <2>4 DEF TypeOK, Places, Answers
<1>4. HandsFull /\ NothingKept
  BY <1>2 DEF HandsFull, NothingKept, Hands, Locks, ReadHands
<1>5. KindsKept /\ Alone /\ CloserKnows /\ KeptIsIn
  BY <1>1, <1>2 DEF KindsKept, Alone, CloserKnows, KeptIsIn
<1>6. HoldsOwn /\ ReadyToCommit /\ PooledInHand /\ OpenIsKnown /\ OnIsOpen
  BY <1>1, <1>2 DEF HoldsOwn, ReadyToCommit, PooledInHand, OpenIsKnown, OnIsOpen, Reopened
<1>7. OwnChangesOnly /\ PublishedIsCommitted
  BY <1>2 DEF OwnChangesOnly, PublishedIsCommitted
<1>8. QED
  BY <1>3, <1>4, <1>5, <1>6, <1>7 DEF IInv

LEMMA InvNext == IInv /\ [Next]_vars => IInv'
<1> SUFFICES ASSUME IInv, [Next]_vars PROVE IInv'
  OBVIOUS
<1>1. ASSUME NEW c \in Calls, Apply(c) PROVE IInv'
  BY <1>1, StepAcquire, StepProbe, StepLogin, StepStage, StepCommit, StepUndo, StepClean, StepAbandon,
     StepEnter, StepExit DEF Apply
<1>2. ASSUME NEW r \in Readers, Reading(r) PROVE IInv'
  BY <1>2, StepLook, StepReadLogin, StepInsert, StepTake, StepRead DEF Reading
<1>3. ASSUME NEW i \in DOMAIN ses, Expire(i) \/ TakeOver(i) PROVE IInv'
  BY <1>3, StepExpire, StepTakeOver
<1>4. ASSUME Shutdown PROVE IInv'
  BY <1>4, StepClosePool, StepPoolClosed, StepCloserTakes, StepCloserChecks, StepCloserDiscards, StepCloserLogsOut DEF Shutdown
<1>5. ASSUME Edit \/ Recreate PROVE IInv'
  BY <1>5, StepEdit DEF Recreate
<1>6. ASSUME UNCHANGED vars PROVE IInv'
  <2>1. conf' \in Nat
    BY <1>6, Parts DEF vars, TypeOK
  <2>2. QED
    BY <1>6, <2>1, StepElsewhere DEF vars
<1>7. QED
  BY <1>1, <1>2, <1>3, <1>4, <1>5, <1>6 DEF Next, AllDone

\* Sessions, pools, locks and requests are as the process and the server hold them, and it is
\* known who has which session.
THEOREM Invariant == Spec => []IInv
<1>1. Init => IInv
  BY InvInit
<1>2. IInv /\ [Next]_vars => IInv'
  BY InvNext
<1>3. QED
  BY <1>1, <1>2, PTL DEF Spec

\* The type invariant.
THEOREM TypeCorrect == Spec => []TypeOK
<1>1. IInv => TypeOK
  BY DEF IInv
<1>2. QED
  BY <1>1, Invariant, PTL

\* No apply commits what another staged, and nobody commits a dry run, for any number of
\* applies and sessions: what failed before leaves nothing in the session that is reused.
THEOREM OwnChanges == Spec => []OwnChangesOnly
<1>1. IInv => OwnChangesOnly
  BY DEF IInv
<1>2. QED
  BY <1>1, Invariant, PTL

\* The session kept between two applies has nothing staged and no lock on the server.
THEOREM KeptIsClean == Spec => []KeptClean
<1>1. IInv => KeptClean
  <2> SUFFICES ASSUME IInv, wpool # 0, wlock = None, NEW x \in ses[wpool].holds PROVE FALSE
    BY DEF KeptClean
  <2>1. wpool \in DOMAIN ses /\ ses[wpool].in
    BY Parts, Ranges DEF KeptIsIn
  <2>2. x \in Calls /\ my[x] = wpool
    BY <2>1, Parts, SessionIs DEF HoldsOwn, Session
  <2>3. x \in Private
    BY <2>2, Parts, ActorsAre DEF HandsFull, Locks
  <2>4. QED
    BY <2>2, <2>3, Parts DEF Alone
<1>2. QED
  BY <1>1, Invariant, PTL

\* An apply that says it published committed its change, unless the shutdown tore its session
\* down without its lock.
THEOREM Published == Spec => []PublishedIsCommitted
<1>1. IInv => PublishedIsCommitted
  BY DEF IInv
<1>2. QED
  BY <1>1, Invariant, PTL

\* When every request is answered, a session that still counts on the server is in a pool, in
\* the hands of the shutdown, or had its logout lost; but for one that a read logged in again while
\* the shutdown was closing it.
THEOREM NobodyLeft == Spec => []NoneLeftBehind
<1>1. IInv => NoneLeftBehind
  <2> SUFFICES ASSUME IInv, AllAnswered PROVE \A i, j \in Stray : Reopened(i) /\ i = j
    BY DEF NoneLeftBehind
  <2>1. /\ \A c \in Calls : my[c] = 0
        /\ \A r \in Readers : pc[r] # "insert"
    BY Parts, ActorsAre DEF AllAnswered, HandsFull, Hands
  <2>2. ASSUME NEW i \in Stray PROVE i \in DOMAIN ses /\ Reopened(i)
    <3>1. i \in DOMAIN ses /\ ses[i].on /\ i # wpool /\ i # rpool /\ i \notin unheard /\ ~Torn(i)
      BY <2>2 DEF Stray, Torn
    <3>2. ~ses[i].open
      BY <2>1, <3>1, Parts, Ranges DEF OpenIsKnown
    <3> QED BY <3>1, <3>2, Parts DEF OnIsOpen, Reopened
  <2> QED BY <2>2, Parts DEF OnIsOpen
<1>2. QED
  BY <1>1, Invariant, PTL
=============================================================================
