--------------------------- MODULE ServiceProofs ----------------------------
(* What holds of the service for every queue size, number of datagrams,    *)
(* drivers, faults and starts.                                             *)
EXTENDS Service, TLAPS

USE ServerAssumption, ServiceAssumption

Datagram == [n : Nat, kind : {"none", "roster", "final", "junk"}, of : SUBSET Drivers]

(* Every number given out is at most the last one. *)
Numbered ==
  /\ sent \in Nat
  /\ hand \in Datagram /\ hand.n <= sent
  /\ queue \in Seq(Datagram)
  /\ \A i \in 1..Len(queue) : queue[i].n <= sent

(* The actions that leave the queue and the hand alone. *)
QueueUntouched ==
  \/ TakeSentinel \/ Signal \/ Leave \/ Start \/ Listen
  \/ \E ok \in BOOLEAN : Finish(ok)
  \/ UNCHANGED serverVars

LEMMA Untouched ==
  ASSUME QueueUntouched PROVE UNCHANGED <<sent, hand, queue>>
  BY DEF QueueUntouched, TakeSentinel, Signal, Leave, Start, Listen, Finish, serverVars

(* What a step does to the server. *)
LEMMA ServerSteps ==
  ASSUME [Next]_vars
  PROVE  QueueUntouched \/ Send \/ Take \/ End \/ UNCHANGED <<sent, hand, queue>>
  <1>1. CASE Tick
    BY <1>1 DEF Tick, QueueUntouched
  <1>2. CASE TakeNext \/ ServerStep
    BY <1>2 DEF TakeNext, ServerStep, QueueUntouched
  <1>3. CASE Handle
    <2>1. CASE HandleRoster \/ IgnoreFinal
      BY <2>1 DEF HandleRoster, IgnoreFinal, QueueUntouched
    <2>2. ASSUME NEW ok \in BOOLEAN, HandleJunk(ok)
          PROVE  QueueUntouched
      BY <2>2 DEF HandleJunk, QueueUntouched
    <2>3. ASSUME NEW ok \in BOOLEAN, WriteFinal(ok)
          PROVE  QueueUntouched \/ UNCHANGED <<sent, hand, queue>>
      BY <2>3 DEF WriteFinal, QueueUntouched
    <2>4. ASSUME NEW ok \in BOOLEAN, OpenLetter(ok) \/ DumpLetter(ok)
          PROVE  QueueUntouched \/ UNCHANGED <<sent, hand, queue>>
      BY <2>4 DEF OpenLetter, DumpLetter, GiveUpLetter, QueueUntouched
    <2> QED BY <1>3, <2>1, <2>2, <2>3, <2>4 DEF Handle
  <1>4. CASE Replay
    BY <1>4 DEF Replay, ReplayUnreadable, ReplayInsert, ReplayRemove, QueueUntouched
  <1>5. CASE StartService \/ ListenService \/ EndService \/ LogFlushed \/ HostCrash
    BY <1>5 DEF StartService, ListenService, EndService, LogFlushed, HostCrash, QueueUntouched
  <1>6. CASE UNCHANGED vars
    BY <1>6 DEF vars
  <1> QED BY <1>1, <1>2, <1>3, <1>4, <1>5, <1>6 DEF Next

LEMMA InitNumbered == Init => Numbered
  BY DEF Init, ServerInit, Numbered, Nothing, Datagram

LEMMA WaitingNumbers ==
  ASSUME Numbered
  PROVE  /\ Waiting \in Seq(Nat) /\ Len(Waiting) = Len(queue)
         /\ \A i \in 1..Len(queue) : Waiting[i] = queue[i].n /\ Waiting[i] <= sent
  <1>1. queue \in Seq(Datagram) /\ Len(queue) \in Nat
    BY DEF Numbered
  <1>2. \A i \in 1..Len(queue) : queue[i] \in Datagram
    BY <1>1
  <1>3. \A i \in 1..Len(queue) : queue[i].n \in Nat
    BY <1>2 DEF Datagram
  <1>4. Waiting \in [1..Len(queue) -> Nat]
    BY <1>3 DEF Waiting
  <1>5. Waiting \in Seq(Nat) /\ Len(Waiting) = Len(queue)
    BY <1>1, <1>4
  <1> QED BY <1>5 DEF Waiting, Numbered

LEMMA StepNumbered ==
  ASSUME Numbered, [Next]_vars PROVE Numbered'
  <1>1. CASE QueueUntouched \/ UNCHANGED <<sent, hand, queue>>
    BY <1>1, Untouched DEF Numbered
  <1>2. CASE Send
    <2>1. PICK d \in Datagram : d.n = sent + 1 /\ Receive(d)
      BY <1>2 DEF Send, Datagram, Numbered
    <2>2. sent' = sent + 1 /\ hand' = hand
      BY <2>1 DEF Receive
    <2>3. queue \in Seq(Datagram) /\ \A i \in 1..Len(queue) : queue[i].n <= sent
      BY DEF Numbered
    <2>4. CASE queue' = queue
      <3>1. \A i \in 1..Len(queue) : queue[i].n \in Nat
        BY <2>3, WaitingNumbers DEF Waiting
      <3>2. hand.n \in Nat /\ sent \in Nat
        BY DEF Numbered, Datagram
      <3> QED BY <2>2, <2>3, <2>4, <3>1, <3>2 DEF Numbered
    <2>5. CASE queue' = Append(queue, d)
      <3>1. queue' \in Seq(Datagram) /\ Len(queue') = Len(queue) + 1
        BY <2>3, <2>5
      <3>2. \A i \in 1..Len(queue') : queue'[i] = IF i \in 1..Len(queue) THEN queue[i] ELSE d
        BY <2>3, <2>5
      <3>3. \A i \in 1..Len(queue') : queue'[i].n <= sent'
        <4> SUFFICES ASSUME NEW i \in 1..Len(queue') PROVE queue'[i].n <= sent'
          OBVIOUS
        <4>1. CASE i \in 1..Len(queue)
          <5>1. queue'[i] = queue[i] /\ queue[i] \in Datagram
            BY <2>3, <3>2, <4>1
          <5> QED BY <2>2, <2>3, <4>1, <5>1 DEF Numbered, Datagram
        <4>2. CASE i \notin 1..Len(queue)
          BY <2>1, <2>2, <3>2, <4>2 DEF Numbered
        <4> QED BY <4>1, <4>2
      <3> QED BY <2>2, <3>1, <3>3 DEF Numbered, Datagram
    <2> QED BY <2>1, <2>4, <2>5 DEF Receive, PutNowait
  <1>3. CASE Take
    BY <1>3 DEF Take, Numbered
  <1>4. CASE End
    BY <1>4 DEF End, Numbered
  <1> QED BY <1>1, <1>2, <1>3, <1>4, ServerSteps

-----------------------------------------------------------------------------
(* The server keeps the promise of Inbox for every queue size and however  *)
(* it is stopped and restarted: each step accepts one newer datagram,      *)
(* begins the oldest one, drops all, or is a stutter.                      *)
THEOREM ServiceImplementsInbox == Spec => ImplementsInbox
  <1>1. Init => Promised!InboxInit
    BY DEF Init, ServerInit, Nothing, Waiting, Promised!InboxInit
  <1>2. Numbered /\ [Next]_vars => [Promised!InboxNext]_(Promised!inboxVars)
    <2> SUFFICES ASSUME Numbered, [Next]_vars
                 PROVE  Promised!InboxNext \/ UNCHANGED <<Waiting, hand.n>>
      BY DEF Promised!inboxVars
    <2>1. CASE QueueUntouched \/ UNCHANGED <<sent, hand, queue>>
      BY <2>1, Untouched DEF Waiting
    <2>2. CASE Send
      <3>1. PICK d \in Datagram : d.n = sent + 1 /\ Receive(d)
        BY <2>2 DEF Send, Datagram, Numbered
      <3>2. CASE queue' = queue
        BY <3>1, <3>2 DEF Receive, Waiting
      <3>3. CASE queue' = Append(queue, d)
        <4>1. hand' = hand /\ Len(queue') = Len(queue) + 1
          BY <3>1, <3>3 DEF Receive, Numbered
        <4>2. Waiting \in Seq(Nat) /\ Len(Waiting) = Len(queue)
          BY WaitingNumbers
        <4>3. Waiting' = Append(Waiting, d.n)
          BY <3>3, <4>1, <4>2 DEF Waiting, Numbered
        <4>4. Len(Waiting') = Len(queue) + 1 /\ Waiting'[Len(Waiting')] = d.n
          BY <4>2, <4>3, <3>1 DEF Datagram
        <4>5. \A i \in 1..Len(Waiting) : Waiting[i] <= sent
          BY <4>2, WaitingNumbers
        <4>6. Promised!Newest <= sent /\ Promised!Newest \in Nat
          BY <4>2, <4>5 DEF Promised!Newest, Numbered, Datagram
        <4>7. d.n \in Nat /\ d.n > Promised!Newest
          BY <3>1, <4>6 DEF Datagram, Numbered
        <4> QED
          BY <4>1, <4>2, <4>3, <4>4, <4>7 DEF Promised!InboxNext, Promised!Accept
      <3> QED BY <3>1, <3>2, <3>3 DEF Receive, PutNowait
    <2>3. CASE Take
      <3>1. queue # <<>> /\ queue' = Tail(queue) /\ hand' = Head(queue)
        BY <2>3 DEF Take
      <3>2. Waiting \in Seq(Nat) /\ Len(Waiting) = Len(queue)
        BY WaitingNumbers
      <3>3. Waiting # <<>> /\ Head(Waiting) = hand'.n
        BY <3>1, <3>2 DEF Waiting, Numbered
      <3>4. Waiting' = Tail(Waiting)
        BY <3>1, <3>2 DEF Waiting, Numbered
      <3> QED BY <3>3, <3>4 DEF Promised!InboxNext, Promised!Begin
    <2>4. CASE End
      BY <2>4 DEF End, Waiting, Promised!InboxNext, Promised!Stop
    <2> QED BY <2>1, <2>2, <2>3, <2>4, ServerSteps
  <1>3. Numbered /\ [Next]_vars => Numbered'
    BY StepNumbered
  <1> QED
    BY <1>1, <1>2, <1>3, InitNumbered, PTL DEF Spec, ImplementsInbox, Promised!InboxSpec

(* What the promise alone gives, of this server: the handler is given the  *)
(* datagrams in the order of their arrival, and none twice, over any       *)
(* number of stops and starts (server.py:72-86).                           *)
FromPromise == INSTANCE InboxProofs WITH waiting <- Waiting, begun <- hand.n

THEOREM HandledInOrder == Spec => []Promised!Ordered
  <1>1. Promised!InboxInit <=> FromPromise!InboxInit
    BY DEF Promised!InboxInit, FromPromise!InboxInit
  <1>2. [Promised!InboxNext]_(Promised!inboxVars)
          <=> [FromPromise!InboxNext]_(FromPromise!inboxVars)
    BY DEF Promised!InboxNext, Promised!inboxVars, Promised!Accept, Promised!Begin,
           Promised!Stop, Promised!Newest, FromPromise!InboxNext, FromPromise!inboxVars,
           FromPromise!Accept, FromPromise!Begin, FromPromise!Stop, FromPromise!Newest
  <1>3. Promised!Ordered <=> FromPromise!Ordered
    BY DEF Promised!Ordered, FromPromise!Ordered
  <1> QED
    BY <1>1, <1>2, <1>3, ServiceImplementsInbox, FromPromise!InboxOrdered, PTL
    DEF ImplementsInbox, Promised!InboxSpec, FromPromise!InboxSpec

-----------------------------------------------------------------------------
(* Results have numbers, and their drivers are drivers of the session. *)
Sound ==
  /\ table \in [Drivers -> Nat] /\ durable \in [Drivers -> Nat]
  /\ \A l \in letters \cup todo : l.n \in Nat /\ l.of \subseteq Drivers
  /\ replaying # NoLetter => \A x \in replaying.of : x \in Drivers /\ (table[x] # 0 \/ x \in lost)
  /\ owed \subseteq Drivers

(* What is waiting or in hand has been numbered. *)
Begun ==
  /\ Handling => hand.n # 0
  /\ \A i \in 1..Len(queue) : queue[i].n # 0
  /\ Unwritten => hand.kind = "final"

(* A later classification names every driver an earlier one names. *)
Growing ==
  /\ hand.kind = "final" => hand.of \subseteq listed
  /\ \A i \in 1..Len(queue) : queue[i].kind = "final" =>
       /\ queue[i].of \subseteq listed
       /\ hand.kind = "final" => hand.of \subseteq queue[i].of
       /\ \A j \in 1..Len(queue) :
            i < j /\ queue[j].kind = "final" => queue[i].of \subseteq queue[j].of

(* A letter of this second was written by this process: the next one       *)
(* written over it names its drivers too.                                  *)
ThisSecond ==
  /\ clock \in Nat
  /\ worker = "writing" => opened \in Nat /\ opened <= clock
  /\ \A l \in letters : l.sec \in Nat /\ l.sec <= clock
  /\ \A l \in letters : l.sec = clock =>
       /\ l.of \subseteq userMap /\ l.of \subseteq listed
       /\ hand.kind = "final" => l.of \subseteq hand.of
       /\ \A i \in 1..Len(queue) : queue[i].kind = "final" => l.of \subseteq queue[i].of

KeptInv == Numbered /\ Sound /\ Begun /\ Growing /\ ThisSecond /\ ResultKept

LEMMA InitKept == Init => KeptInv
  BY InitNumbered
  DEF Init, ServerInit, KeptInv, Sound, Begun, Growing, ThisSecond, ResultKept, Handling,
      Unwritten, Nothing, NoLetter

(* A write never takes a result away. *)
LEMMA StoredKeeps ==
  ASSUME NEW rows \in [Drivers -> Nat], NEW d, d.n \in Nat \ {0}, d.of \subseteq Drivers
  PROVE  /\ Stored(rows, d) \in [Drivers -> Nat]
         /\ \A x \in Drivers : rows[x] # 0 => Stored(rows, d)[x] # 0
         /\ \A x \in d.of : Stored(rows, d)[x] # 0
  BY DEF Stored

(* The steps that touch neither the queue nor the results. *)
LEMMA KeptServer ==
  ASSUME KeptInv, UNCHANGED <<queue, hand, listed, userMap, table, letters, owed, forgone>>,
         UNCHANGED <<opened, todo, replaying, lost>>, durable' \in {durable, table},
         clock' \in Nat, clock' >= clock, Numbered',
         worker' = worker \/ (worker' = "done" /\ worker = "idle")
  PROVE  KeptInv'
  <1>1. Sound' /\ Growing'
    BY DEF KeptInv, Sound, Growing
  <1>2. Begun'
    BY DEF KeptInv, Begun, Handling, Unwritten
  <1>3. ThisSecond'
    <2>1. clock \in Nat /\ \A l \in letters : l.sec \in Nat /\ l.sec <= clock
      BY DEF KeptInv, ThisSecond
    <2>2. \A l \in letters : l.sec = clock' => l.sec = clock
      BY <2>1
    <2> QED BY <2>1, <2>2 DEF KeptInv, ThisSecond
  <1>4. ResultKept'
    BY DEF KeptInv, ResultKept, Resolved, Listed, Unwritten
  <1> QED BY <1>1, <1>2, <1>3, <1>4 DEF KeptInv

(* The host goes back to what was durable. *)
LEMMA KeptCrash ==
  ASSUME KeptInv, HostCrash, Numbered'
  PROVE  KeptInv'
  <1>1. /\ UNCHANGED <<queue, hand, worker, listed, clock, userMap, letters, opened, todo,
                       replaying, durable, owed, forgone>>
        /\ table' = durable
        /\ lost' = lost \cup {x \in Drivers : durable[x] = 0 /\ table[x] # 0}
    BY DEF HostCrash, serverVars, worldVars, history
  <1>2. Begun' /\ Growing' /\ ThisSecond'
    BY <1>1 DEF KeptInv, Begun, Growing, ThisSecond, Handling, Unwritten
  <1>3. Sound'
    BY <1>1 DEF KeptInv, Sound
  <1>4. ResultKept'
    BY <1>1 DEF KeptInv, ResultKept, Sound, Resolved, Listed, Unwritten
  <1> QED BY <1>2, <1>3, <1>4 DEF KeptInv

LEMMA KeptSend ==
  ASSUME KeptInv, Send, Numbered'
  PROVE  KeptInv'
  <1>1. PICK d \in Datagram : /\ d.n = sent + 1 /\ Receive(d)
                              /\ d.kind = "final" => listed \subseteq d.of
                              /\ listed' = IF d.kind = "final" THEN d.of ELSE listed
    <2>1. PICK kind \in {"roster", "final", "junk"}, of \in SUBSET Drivers :
            /\ kind = "final" => listed \subseteq of
            /\ listed' = IF kind = "final" THEN of ELSE listed
            /\ Receive([n |-> sent + 1, kind |-> kind, of |-> of])
      BY DEF Send
    <2> DEFINE d == [n |-> sent + 1, kind |-> kind, of |-> of]
    <2>2. d \in Datagram
      BY DEF Datagram, KeptInv, Numbered
    <2> QED BY <2>1, <2>2
  <1>2. /\ UNCHANGED <<hand, worker, clock, userMap, table, letters, opened, todo, replaying,
                       durable, owed, forgone, lost>>
        /\ listed \subseteq listed'
        /\ d.n # 0
        /\ d.kind = "final" => d.of = listed'
    BY <1>1 DEF Send, Receive, resultVars, hostVars, history, KeptInv, Numbered
  <1>3. /\ queue \in Seq(Datagram)
        /\ queue' = queue \/ queue' = Append(queue, d)
    BY <1>1 DEF Receive, PutNowait, KeptInv, Numbered
  <1>4. \A i \in 1..Len(queue') : \/ i \in 1..Len(queue) /\ queue'[i] = queue[i]
                                  \/ i = Len(queue) + 1 /\ queue'[i] = d
    BY <1>3
  <1>5. Sound' /\ Begun'
    BY <1>2, <1>4 DEF KeptInv, Sound, Begun, Handling, Unwritten
  <1>6. Growing'
    <2>1. \A i \in 1..Len(queue') : queue'[i].kind = "final" => queue'[i].of \subseteq listed'
      BY <1>2, <1>4 DEF KeptInv, Growing
    <2>2. hand.kind = "final" => hand.of \subseteq listed /\ hand.of \subseteq listed'
      BY <1>2 DEF KeptInv, Growing
    <2>3. \A i \in 1..Len(queue') : queue'[i].kind = "final" =>
            (hand.kind = "final" => hand.of \subseteq queue'[i].of)
      BY <1>2, <1>4, <2>2 DEF KeptInv, Growing
    <2>4. ASSUME NEW i \in 1..Len(queue'), NEW j \in 1..Len(queue'), i < j,
                 queue'[i].kind = "final", queue'[j].kind = "final"
          PROVE  queue'[i].of \subseteq queue'[j].of
      <3>1. i \in 1..Len(queue) /\ queue'[i] = queue[i]
        BY <1>3, <1>4, <2>4
      <3>2. CASE j \in 1..Len(queue) /\ queue'[j] = queue[j]
        BY <3>1, <3>2, <2>4 DEF KeptInv, Growing
      <3>3. CASE queue'[j] = d
        BY <1>2, <3>1, <3>3, <2>1, <2>4
      <3> QED BY <1>4, <3>2, <3>3
    <2> QED BY <1>2, <2>1, <2>2, <2>3, <2>4 DEF Growing
  <1>7. ThisSecond'
    BY <1>2, <1>4 DEF KeptInv, ThisSecond
  <1>8. ResultKept'
    BY <1>2 DEF KeptInv, ResultKept, Resolved, Listed, Unwritten
  <1> QED BY <1>5, <1>6, <1>7, <1>8 DEF KeptInv

LEMMA KeptTake ==
  ASSUME KeptInv, TakeNext, Numbered'
  PROVE  KeptInv'
  <1>1. /\ queue # <<>> /\ queue' = Tail(queue) /\ hand' = Head(queue)
        /\ worker = "idle" /\ worker' = "busy"
        /\ UNCHANGED <<listed, clock, userMap, table, letters, opened, todo, replaying, durable,
                       owed, forgone, lost>>
    BY DEF TakeNext, Take, worldVars, hostVars, resultVars, history
  <1>2. queue \in Seq(Datagram) /\ 1 \in 1..Len(queue) /\ hand' = queue[1]
    BY <1>1 DEF KeptInv, Numbered
  <1>3. \A i \in 1..Len(queue') : i + 1 \in 1..Len(queue) /\ queue'[i] = queue[i + 1]
    BY <1>1, <1>2
  <1>4. Sound' /\ Begun'
    BY <1>1, <1>2, <1>3 DEF KeptInv, Sound, Begun, Unwritten
  <1>5. Growing'
    <2>1. ASSUME NEW i \in 1..Len(queue'), queue'[i].kind = "final"
          PROVE  /\ queue'[i].of \subseteq listed'
                 /\ hand'.kind = "final" => hand'.of \subseteq queue'[i].of
                 /\ \A j \in 1..Len(queue') :
                      i < j /\ queue'[j].kind = "final" => queue'[i].of \subseteq queue'[j].of
      <3>1. i + 1 \in 1..Len(queue) /\ queue'[i] = queue[i + 1] /\ 1 < i + 1
        BY <1>3
      <3>2. \A j \in 1..Len(queue') : i < j => i + 1 < j + 1
        OBVIOUS
      <3> QED BY <1>1, <1>2, <1>3, <2>1, <3>1, <3>2 DEF KeptInv, Growing
    <2> QED BY <1>1, <1>2, <2>1 DEF KeptInv, Growing
  <1>6. ThisSecond'
    BY <1>1, <1>2, <1>3 DEF KeptInv, ThisSecond
  <1>7. ResultKept'
    BY <1>1 DEF KeptInv, ResultKept, Unwritten
  <1> QED BY <1>4, <1>5, <1>6, <1>7 DEF KeptInv

LEMMA KeptHandle ==
  ASSUME KeptInv, Handle, Numbered'
  PROVE  KeptInv'
  <1>1. UNCHANGED <<queue, hand, listed, clock, todo, replaying, durable, lost>>
    BY DEF Handle, HandleRoster, HandleJunk, IgnoreFinal, WriteFinal, OpenLetter, DumpLetter,
           GiveUpLetter, Finish, worldVars, hostVars, resultVars
  <1>2. hand \in Datagram
    BY DEF KeptInv, Numbered
  <1>3. CASE HandleRoster
    <2>1. /\ userMap \subseteq userMap' /\ worker' = "idle" /\ worker = "busy"
          /\ UNCHANGED <<table, letters, opened, owed, forgone>>
      BY <1>3 DEF HandleRoster, Finish, WorkerAfter, history
    <2> QED
      BY <1>1, <2>1 DEF KeptInv, Sound, Begun, Growing, ThisSecond, ResultKept, Handling,
                        Unwritten
  <1>4. CASE IgnoreFinal \/ \E ok \in BOOLEAN : HandleJunk(ok)
    <2>1. /\ worker' = "idle" /\ worker = "busy"
          /\ UNCHANGED <<userMap, table, letters, opened, owed, forgone>>
      BY <1>4 DEF IgnoreFinal, HandleJunk, Finish, WorkerAfter, history, resultVars
    <2> QED
      BY <1>1, <2>1 DEF KeptInv, Sound, Begun, Growing, ThisSecond, ResultKept, Handling,
                        Unwritten
  <1>5. ASSUME NEW ok \in BOOLEAN, WriteFinal(ok)
        PROVE  KeptInv'
    <2>1. /\ UNCHANGED <<userMap, letters, opened, forgone>>
          /\ worker = "busy" /\ hand.kind = "final"
          /\ owed' = owed \cup Resolved
          /\ table' = IF ok THEN Stored(table, [n |-> hand.n, of |-> Resolved]) ELSE table
          /\ worker' = IF ok THEN "idle" ELSE "failed"
      BY <1>5 DEF WriteFinal, Finish, WorkerAfter
    <2>2. hand.n \in Nat \ {0} /\ Resolved \subseteq Drivers
      BY <1>2, <2>1 DEF KeptInv, Begun, Handling, Datagram, Resolved, Listed
    <2>3. /\ table' \in [Drivers -> Nat]
          /\ \A x \in Drivers : table[x] # 0 => table'[x] # 0
          /\ ok => \A x \in Resolved : table'[x] # 0
      BY <2>1, <2>2, StoredKeeps DEF KeptInv, Sound
    <2>4. Sound'
      BY <1>1, <2>1, <2>2, <2>3 DEF KeptInv, Sound
    <2>5. Begun' /\ Growing' /\ ThisSecond'
      BY <1>1, <2>1 DEF KeptInv, Begun, Growing, ThisSecond, Handling, Unwritten
    <2>6. Resolved' = Resolved
      BY <1>1, <2>1 DEF Resolved, Listed
    <2>7. ResultKept'
      BY <1>1, <2>1, <2>3, <2>6 DEF KeptInv, ResultKept, Sound, Unwritten
    <2> QED BY <2>4, <2>5, <2>7 DEF KeptInv
  (* A letter is given up: its drivers are forgone. *)
  <1>6. ASSUME worker \in {"failed", "writing"}, worker' = "idle", letters' = letters,
               forgone' = forgone \cup Resolved, UNCHANGED <<userMap, table, owed>>
        PROVE  KeptInv'
    <2>1. Sound' /\ Begun' /\ Growing' /\ ThisSecond'
      BY <1>1, <1>6 DEF KeptInv, Sound, Begun, Growing, ThisSecond, Handling, Unwritten
    <2>2. ResultKept'
      BY <1>1, <1>6 DEF KeptInv, ResultKept, Unwritten
    <2> QED BY <2>1, <2>2 DEF KeptInv
  <1>7. CASE OpenLetter(FALSE) \/ DumpLetter(FALSE)
    <2>1. /\ worker \in {"failed", "writing"} /\ worker' = "idle"
          /\ UNCHANGED <<letters, userMap, table, owed>> /\ forgone' = forgone \cup Resolved
      BY <1>7 DEF OpenLetter, DumpLetter, GiveUpLetter, Finish, WorkerAfter
    <2> QED BY <1>6, <2>1
  (* The file is truncated: its letter names only drivers of this batch. *)
  <1>8. CASE OpenLetter(TRUE)
    <2>1. /\ UNCHANGED <<userMap, table, owed, forgone>>
          /\ worker = "failed" /\ worker' = "writing" /\ hand.kind = "final"
          /\ letters' = {k \in letters : k.sec # clock} \cup {TornLetter(clock)}
          /\ opened' = clock
      BY <1>8 DEF OpenLetter, WithLetter, TornLetter, KeptInv, Begun, Unwritten
    <2>2. \A l \in letters : l.sec = clock => l.of \subseteq Resolved
      BY <2>1 DEF KeptInv, ThisSecond, Resolved, Listed
    <2>3. \A l \in letters' : l \in letters \/ (l.sec = clock /\ l.n = 0 /\ l.of = {})
      BY <2>1 DEF TornLetter
    <2>4. Sound' /\ Begun' /\ Growing'
      BY <1>1, <2>1, <2>3 DEF KeptInv, Sound, Begun, Growing, Handling, Unwritten
    <2>5. ThisSecond'
      BY <1>1, <2>1, <2>3 DEF KeptInv, ThisSecond
    <2>6. Resolved' = Resolved
      BY <1>1, <2>1 DEF Resolved, Listed
    <2>7. ResultKept'
      BY <1>1, <2>1, <2>2, <2>6 DEF KeptInv, ResultKept, Unwritten
    <2> QED BY <2>4, <2>5, <2>7 DEF KeptInv
  <1>9. CASE DumpLetter(TRUE)
    <2> DEFINE new == [sec |-> opened, n |-> hand.n, of |-> Resolved]
    <2>1. /\ UNCHANGED <<userMap, table, owed, forgone>>
          /\ worker = "writing" /\ worker' = "idle" /\ hand.kind = "final"
          /\ letters' = (letters \ {TornLetter(opened)}) \cup {new}
      BY <1>9 DEF DumpLetter, Finish, WorkerAfter, KeptInv, Begun, Unwritten
    <2>2. /\ new.n \in Nat \ {0} /\ new.of \subseteq Drivers
          /\ new.of \subseteq userMap /\ new.of \subseteq hand.of
          /\ new.sec \in Nat /\ new.sec <= clock
      BY <1>2, <2>1 DEF KeptInv, Begun, Handling, ThisSecond, Datagram, Resolved, Listed
    <2>3. /\ TornLetter(opened).of = {} /\ \A l \in letters' : l = new \/ l \in letters
          /\ new \in letters'
      BY <2>1 DEF TornLetter
    <2>4. Sound' /\ Begun' /\ Growing'
      <3> HIDE DEF new
      <3> QED BY <1>1, <2>1, <2>2, <2>3
              DEF KeptInv, Sound, Begun, Growing, Handling, Unwritten
    <2>5. ThisSecond'
      <3>1. new.of \subseteq listed
        BY <2>1, <2>2 DEF KeptInv, Growing
      <3>2. \A i \in 1..Len(queue) : queue[i].kind = "final" => new.of \subseteq queue[i].of
        BY <2>1, <2>2 DEF KeptInv, Growing
      <3> HIDE DEF new
      <3> QED BY <1>1, <2>1, <2>2, <2>3, <3>1, <3>2 DEF KeptInv, ThisSecond
    <2>6. ResultKept'
      <3>1. new.of = Resolved
        OBVIOUS
      <3>2. \A l \in letters : l \in letters' \/ l.of = {}
        BY <2>1, <2>3
      <3> HIDE DEF new
      <3> QED BY <1>1, <2>1, <2>3, <3>1, <3>2 DEF KeptInv, ResultKept
    <2> QED BY <2>4, <2>5, <2>6 DEF KeptInv
  <1> QED BY <1>3, <1>4, <1>5, <1>7, <1>8, <1>9 DEF Handle

LEMMA KeptReplay ==
  ASSUME KeptInv, Replay, Numbered'
  PROVE  KeptInv'
  <1>1. UNCHANGED <<queue, hand, worker, listed, clock, userMap, opened, durable, owed, forgone,
                    lost>>
    BY DEF Replay, ReplayUnreadable, ReplayInsert, ReplayRemove, serverVars, worldVars, hostVars,
           history
  <1>2. Begun' /\ Growing' /\ Resolved' = Resolved
    BY <1>1 DEF KeptInv, Begun, Growing, Handling, Unwritten, Resolved, Listed
  <1>3. ASSUME NEW l \in todo, NEW ok \in BOOLEAN, ReplayInsert(l, ok)
        PROVE  KeptInv'
    <2>1. /\ letters' = letters /\ todo' \subseteq todo
          /\ table' = IF ok THEN Stored(table, l) ELSE table
          /\ replaying' = IF ok THEN l ELSE NoLetter
          /\ l.n # 0
      BY <1>3 DEF ReplayInsert, LeftAfter, Torn
    <2>2. l.n \in Nat \ {0} /\ l.of \subseteq Drivers /\ table \in [Drivers -> Nat]
      BY <2>1 DEF KeptInv, Sound
    <2>3. /\ table' \in [Drivers -> Nat]
          /\ \A x \in Drivers : table[x] # 0 => table'[x] # 0
          /\ ok => \A x \in l.of : table'[x] # 0
      BY <2>1, <2>2, StoredKeeps
    <2>4. Sound'
      BY <1>1, <2>1, <2>2, <2>3 DEF KeptInv, Sound
    <2>5. ThisSecond'
      BY <1>1, <2>1 DEF KeptInv, ThisSecond
    <2>6. ResultKept'
      BY <1>1, <1>2, <2>1, <2>3 DEF KeptInv, ResultKept, Sound, Unwritten
    <2> QED BY <1>2, <2>4, <2>5, <2>6 DEF KeptInv
  <1>4. ASSUME NEW ok \in BOOLEAN, ReplayRemove(ok)
        PROVE  KeptInv'
    <2>1. /\ letters' = letters \/ letters' = letters \ {replaying}
          /\ replaying # NoLetter /\ replaying' = NoLetter
          /\ UNCHANGED <<table, todo>>
      BY <1>4 DEF ReplayRemove, Unlinked
    <2>2. Sound' /\ ThisSecond'
      BY <1>1, <2>1 DEF KeptInv, Sound, ThisSecond
    <2>3. ResultKept'
      BY <1>1, <1>2, <2>1 DEF KeptInv, ResultKept, Sound, Unwritten
    <2> QED BY <1>2, <2>2, <2>3 DEF KeptInv
  <1>5. ASSUME NEW l \in todo, ReplayUnreadable(l)
        PROVE  KeptInv'
    <2>1. UNCHANGED <<letters, table, replaying>> /\ todo' \subseteq todo
      BY <1>5 DEF ReplayUnreadable, LeftAfter
    <2>2. Sound' /\ ThisSecond' /\ ResultKept'
      BY <1>1, <1>2, <2>1 DEF KeptInv, Sound, ThisSecond, ResultKept, Unwritten
    <2> QED BY <1>2, <2>2 DEF KeptInv
  <1> QED BY <1>3, <1>4, <1>5 DEF Replay

(* Nothing is handled before the process listens. *)
NotYet == proc \in {"down", "starting"} => worker = "idle"

LEMMA StepNotYet ==
  ASSUME NotYet, [Next]_vars PROVE NotYet'
  <1>1. CASE Send \/ Tick \/ TakeNext
    BY <1>1 DEF Send, Tick, TakeNext, Receive, Take, serverVars, Running, NotYet
  <1>2. CASE ServerStep
    BY <1>2 DEF ServerStep, TakeSentinel, Signal, Leave, Running, NotYet
  <1>3. CASE Handle
    <2>1. CASE HandleRoster \/ IgnoreFinal
      BY <2>1 DEF HandleRoster, IgnoreFinal, Finish, Running, NotYet
    <2>2. ASSUME NEW ok \in BOOLEAN, HandleJunk(ok) \/ WriteFinal(ok) \/ OpenLetter(ok)
                                   \/ DumpLetter(ok)
          PROVE  NotYet'
      BY <2>2 DEF HandleJunk, WriteFinal, OpenLetter, DumpLetter, GiveUpLetter, Finish, Running,
                  NotYet
    <2> QED BY <1>3, <2>1, <2>2 DEF Handle
  <1>4. CASE Replay
    BY <1>4 DEF Replay, ReplayUnreadable, ReplayInsert, ReplayRemove, serverVars, NotYet
  <1>5. CASE StartService \/ ListenService \/ EndService
    BY <1>5 DEF StartService, ListenService, EndService, Start, Listen, End, NotYet
  <1>6. CASE LogFlushed \/ HostCrash \/ UNCHANGED vars
    BY <1>6 DEF LogFlushed, HostCrash, serverVars, vars, NotYet
  <1> QED BY <1>1, <1>2, <1>3, <1>4, <1>5, <1>6 DEF Next

LEMMA KeptStartEnd ==
  ASSUME KeptInv, NotYet, StartService \/ EndService, Numbered'
  PROVE  KeptInv'
  <1>1. CASE StartService
    <2>1. /\ UNCHANGED <<queue, hand, worker, listed, table, letters, opened, durable, owed,
                         forgone, lost>>
          /\ clock' = clock + 1 /\ userMap' = {} /\ todo' = letters /\ replaying' = NoLetter
      BY <1>1 DEF StartService, Start, hostVars
    <2>2. worker = "idle"
      BY <1>1 DEF StartService, Start, NotYet
    <2> QED
      BY <2>1, <2>2 DEF KeptInv, Sound, Begun, Growing, ThisSecond, ResultKept, Handling,
                        Unwritten
  <1>2. CASE EndService
    <2>1. /\ queue' = <<>> /\ worker' = "idle"
          /\ forgone' = IF Unwritten THEN forgone \cup Resolved ELSE forgone
          /\ UNCHANGED <<hand, listed, clock, userMap, table, letters, todo, replaying, durable,
                         owed, lost>>
      BY <1>2 DEF EndService, End, worldVars, hostVars
    <2> QED
      BY <2>1 DEF KeptInv, Sound, Begun, Growing, ThisSecond, ResultKept, Handling, Unwritten
  <1> QED BY <1>1, <1>2

LEMMA StepKept ==
  ASSUME KeptInv, NotYet, [Next]_vars PROVE KeptInv'
  <1>0. Numbered' /\ clock \in Nat
    BY StepNumbered DEF KeptInv, ThisSecond
  <1>1. CASE Tick \/ ServerStep \/ ListenService \/ LogFlushed \/ UNCHANGED vars
    <2>1. /\ UNCHANGED <<queue, hand, listed, userMap, table, letters, owed, forgone>>
          /\ UNCHANGED <<opened, todo, replaying, lost>> /\ durable' \in {durable, table}
          /\ clock' = clock \/ clock' = clock + 1
          /\ worker' = worker \/ (worker' = "done" /\ worker = "idle")
      BY <1>1 DEF Tick, ServerStep, ListenService, LogFlushed, TakeSentinel, Signal, Leave, Listen,
                  vars, serverVars, worldVars, hostVars, resultVars, history
    <2> QED BY <1>0, <2>1, KeptServer
  <1>2. CASE Send
    BY <1>0, <1>2, KeptSend
  <1>3. CASE TakeNext
    BY <1>0, <1>3, KeptTake
  <1>4. CASE Handle
    BY <1>0, <1>4, KeptHandle
  <1>5. CASE Replay
    BY <1>0, <1>5, KeptReplay
  <1>6. CASE StartService \/ EndService
    BY <1>0, <1>6, KeptStartEnd
  <1>7. CASE HostCrash
    BY <1>0, <1>7, KeptCrash
  <1> QED BY <1>1, <1>2, <1>3, <1>4, <1>5, <1>6, <1>7 DEF Next

(* Whatever write fails and whenever the process is killed, a result that  *)
(* was taken on is stored or waits in a letter, unless its letter was not  *)
(* written to its end or its commit was lost with the host.  It rests on   *)
(* ThisSecond: a letter truncated within its second is truncated for a     *)
(* classification that names its drivers.                                  *)
THEOREM ResultsKept == Spec => []ResultKept
  <1>1. Init => KeptInv /\ NotYet
    BY InitKept DEF Init, ServerInit, NotYet
  <1>2. KeptInv /\ NotYet /\ [Next]_vars => KeptInv' /\ NotYet'
    BY StepKept, StepNotYet
  <1>3. KeptInv => ResultKept
    BY DEF KeptInv
  <1> QED BY <1>1, <1>2, <1>3, PTL DEF Spec
-----------------------------------------------------------------------------
(* What a start may leave of a letter it found, see ReplayComplete. *)
Settled(l) ==
  \/ Torn(l) \/ l \in refused
  \/ l \in unremoved /\ \A x \in l.of : table[x] # 0 \/ x \in lost

(* Letters are replayed before the process listens and written after; what *)
(* a start finds is older than its second, so that a letter written later  *)
(* is none of those.                                                       *)
ReplayInv ==
  /\ sent \in 0..MaxSent /\ clock \in 0..MaxClock
  /\ Running => todo = {} /\ replaying = NoLetter
  /\ replaying \notin todo
  /\ \A l \in found : l.sec \in Nat /\ l.sec < clock
  /\ worker = "writing" => \A l \in found : l.sec < opened
  /\ proc = "starting" =>
       \A l \in found \cap letters : Settled(l) \/ l \in todo \/ l = replaying

Typed == TypeOK /\ ReplayInv /\ ReplayComplete

LEMMA NoLetterApart == NoLetter \notin Letters
  BY DEF NoLetter, NoFile, Letters

LEMMA InitTyped == ASSUME Init PROVE Typed
  <1>1. table \in [Drivers -> 0..MaxSent] /\ durable = table
    BY DEF Init
  <1>2. sent \in 0..MaxSent /\ clock \in 0..MaxClock /\ Len(queue) <= QueueSize
    BY DEF Init, ServerInit
  <1>3. TypeOK
    BY <1>1, <1>2 DEF Init, ServerInit, Unwritten, TypeOK
  <1> QED BY <1>2, <1>3 DEF Init, ServerInit, Typed, ReplayInv, ReplayComplete, Running

(* The steps of the server alone. *)
LEMMA TypedServer ==
  ASSUME KeptInv, Typed, Send \/ TakeNext \/ ServerStep \/ Tick \/ UNCHANGED vars
  PROVE  Typed'
  <1>1. /\ UNCHANGED <<table, durable, letters, opened, todo, replaying, userMap, found, refused,
                       unremoved, lost>>
        /\ proc' = proc \/ (Running /\ Running' /\ proc' \in {"stopping", "leaving"})
    BY DEF Send, TakeNext, ServerStep, Tick, Receive, Take, TakeSentinel, Signal, Leave,
           serverVars, resultVars, hostVars, history, vars, Running
  <1>2. queue \in Seq(Datagram)
    BY DEF KeptInv, Numbered
  <1>3. Len(queue') <= QueueSize /\ (proc \in {"down", "starting"} => queue' = <<>>)
    <2>1. CASE Send
      <3>1. PICK d : queue' = IF proc = "up" THEN PutNowait(queue, d) ELSE queue
        BY <2>1 DEF Send, Receive
      <3> QED BY <1>2, <3>1 DEF PutNowait, Typed, TypeOK
    <2>2. CASE TakeNext
      BY <1>2, <2>2 DEF TakeNext, Take, Typed, TypeOK, Running
    <2>3. CASE ServerStep \/ Tick \/ UNCHANGED vars
      <3>1. queue' = queue
        BY <2>3 DEF ServerStep, Tick, TakeSentinel, Signal, Leave, serverVars, vars
      <3> QED BY <3>1 DEF Typed, TypeOK
    <2> QED BY <2>1, <2>2, <2>3
  <1>4. /\ sent' \in 0..MaxSent
        /\ clock' \in 0..MaxClock /\ clock' >= clock
    <2>1. /\ sent' = sent \/ (sent < MaxSent /\ sent' = sent + 1)
          /\ clock' = clock \/ (clock < MaxClock /\ clock' = clock + 1)
      BY DEF Send, TakeNext, ServerStep, Tick, Receive, Take, TakeSentinel, Signal, Leave,
             serverVars, worldVars, vars
    <2> QED BY <2>1 DEF Typed, ReplayInv
  <1>5. worker' \in {worker, "busy", "done"} /\ (worker' # worker => Running /\ worker = "idle")
    BY DEF Send, TakeNext, ServerStep, Tick, Receive, Take, TakeSentinel, Signal, Leave,
           serverVars, vars
  <1>6. sentinel' => proc' = "leaving"
    BY DEF Send, TakeNext, ServerStep, Tick, Receive, Take, TakeSentinel, Signal, Leave,
           serverVars, vars, Typed, TypeOK
  <1>7. worker' \in {"failed", "writing"} => hand' = hand /\ worker' = worker
    BY DEF Send, TakeNext, ServerStep, Tick, Receive, Take, TakeSentinel, Signal, Leave,
           serverVars, vars
  <1>8. TypeOK'
    <2>1. Unwritten' => hand'.kind = "final" /\ Resolved' # {}
      BY <1>1, <1>7 DEF Typed, TypeOK, Unwritten, Resolved, Listed
    <2>2. proc' \in {"down", "starting"} => queue' = <<>> /\ worker' = "idle"
      BY <1>1, <1>3, <1>5 DEF Typed, TypeOK, Running
    <2>3. /\ opened' \in 0..clock' \cup {NoFile}
          /\ opened' # NoFile <=> worker' = "writing"
      BY <1>1, <1>4, <1>5 DEF Typed, TypeOK, ReplayInv
    <2> QED BY <1>1, <1>3, <1>5, <1>6, <2>1, <2>2, <2>3 DEF Typed, TypeOK, Running
  <1>9. \A l \in found : l.sec \in Nat /\ l.sec < clock'
    BY <1>4 DEF Typed, ReplayInv
  <1>10. ReplayInv' /\ ReplayComplete'
    BY <1>1, <1>4, <1>5, <1>9 DEF Typed, ReplayInv, ReplayComplete, Settled, Running
  <1> QED BY <1>8, <1>10 DEF Typed

LEMMA TypedHandle ==
  ASSUME KeptInv, Typed, Handle
  PROVE  Typed'
  <1>1. /\ UNCHANGED <<proc, queue, sentinel, hand, sent, clock, durable, todo, replaying, found,
                       refused, unremoved, lost>>
        /\ Running /\ Handling
    <2>1. ASSUME NEW ok \in BOOLEAN, WriteFinal(ok) \/ OpenLetter(ok) \/ DumpLetter(ok)
          PROVE  /\ UNCHANGED <<proc, queue, sentinel, hand, sent, clock, durable, todo, replaying,
                                found, refused, unremoved, lost>>
                 /\ Running /\ Handling
      BY <2>1 DEF WriteFinal, OpenLetter, DumpLetter, GiveUpLetter, Finish, worldVars, hostVars,
                  Handling, Typed, TypeOK, Running
    <2>2. CASE HandleRoster \/ IgnoreFinal \/ \E ok \in BOOLEAN : HandleJunk(ok)
      BY <2>2 DEF HandleRoster, HandleJunk, IgnoreFinal, Finish, worldVars, hostVars, resultVars,
                  history
    <2> QED BY <2>1, <2>2 DEF Handle
  <1>2. hand \in Datagram /\ hand.n \in 1..MaxSent
    <2>1. hand \in Datagram /\ hand.n <= sent /\ hand.n # 0 /\ sent \in 0..MaxSent
      BY <1>1 DEF KeptInv, Numbered, Begun, Typed, ReplayInv
    <2> QED BY <2>1 DEF Datagram
  <1>3. Resolved \subseteq Drivers
    BY <1>2 DEF Resolved, Listed, Datagram
  <1>4. todo = {} /\ replaying = NoLetter /\ proc # "starting" /\ proc # "down"
    BY <1>1 DEF Typed, ReplayInv, Running
  (* What remains of ReplayInv and ReplayComplete. *)
  <1>5. ASSUME \A l \in found \cap letters' : l \in letters,
               \A x \in Drivers : table[x] # 0 => table'[x] # 0,
               worker' = "writing" => \A l \in found : l.sec < opened'
        PROVE  ReplayInv' /\ ReplayComplete'
    <2>1. \A l \in letters : l.of \subseteq Drivers
      BY DEF Typed, TypeOK, Letters
    <2> QED BY <1>1, <1>4, <1>5, <2>1 DEF Typed, ReplayInv, ReplayComplete, Running
  <1>6. CASE HandleRoster \/ IgnoreFinal \/ \E ok \in BOOLEAN : HandleJunk(ok)
    <2>1. worker' = "idle" /\ worker = "busy" /\ UNCHANGED <<table, letters, opened>>
      BY <1>6 DEF HandleRoster, IgnoreFinal, HandleJunk, Finish, WorkerAfter, resultVars
    <2>2. TypeOK'
      BY <1>1, <2>1 DEF Typed, TypeOK, Unwritten
    <2> QED BY <1>5, <2>1, <2>2 DEF Typed
  <1>7. ASSUME NEW ok \in BOOLEAN, WriteFinal(ok)
        PROVE  Typed'
    <2>1. /\ UNCHANGED <<userMap, letters, opened>>
          /\ worker = "busy" /\ hand.kind = "final" /\ Resolved # {}
          /\ table' = IF ok THEN Stored(table, [n |-> hand.n, of |-> Resolved]) ELSE table
          /\ worker' \in {"idle", "failed"}
      BY <1>7 DEF WriteFinal, Finish, WorkerAfter
    <2>2. /\ table' \in [Drivers -> 0..MaxSent]
          /\ \A x \in Drivers : table[x] # 0 => table'[x] # 0
      BY <1>2, <2>1 DEF Stored, Typed, TypeOK
    <2>3. Resolved' = Resolved
      BY <1>1, <2>1 DEF Resolved, Listed
    <2>4. TypeOK'
      BY <1>1, <1>4, <2>1, <2>2, <2>3 DEF Typed, TypeOK, Unwritten
    <2> QED BY <1>5, <2>1, <2>2, <2>4 DEF Typed
  <1>8. CASE OpenLetter(FALSE) \/ DumpLetter(FALSE)
    <2>1. worker' = "idle" /\ opened' = NoFile /\ UNCHANGED <<table, letters>>
      BY <1>8 DEF OpenLetter, DumpLetter, GiveUpLetter, Finish, WorkerAfter
    <2>2. TypeOK'
      BY <1>1, <2>1 DEF Typed, TypeOK, Unwritten
    <2> QED BY <1>5, <2>1, <2>2 DEF Typed
  <1>9. CASE OpenLetter(TRUE)
    <2>1. /\ UNCHANGED <<userMap, table>> /\ worker = "failed" /\ worker' = "writing"
          /\ letters' = {k \in letters : k.sec # clock} \cup {TornLetter(clock)}
          /\ opened' = clock
      BY <1>9 DEF OpenLetter, WithLetter, TornLetter
    <2>2. clock \in 0..MaxClock /\ \A l \in found : l.sec \in Nat /\ l.sec < clock
      BY DEF Typed, ReplayInv
    <2>3. TornLetter(clock) \in Letters /\ TornLetter(clock) \notin found
      <3>1. TornLetter(clock) \in Letters /\ TornLetter(clock).sec = clock
        BY <2>2 DEF Letters, TornLetter
      <3> QED BY <2>2, <3>1
    <2>4. letters' \subseteq Letters /\ \A l \in found \cap letters' : l \in letters
      BY <2>1, <2>3 DEF Typed, TypeOK
    <2>5. Resolved' = Resolved
      BY <1>1, <2>1 DEF Resolved, Listed
    <2>6. TypeOK'
      BY <1>1, <1>4, <2>1, <2>2, <2>4, <2>5 DEF Typed, TypeOK, Unwritten, NoFile
    <2> QED BY <1>5, <2>1, <2>2, <2>4, <2>6 DEF Typed
  <1>10. CASE DumpLetter(TRUE)
    <2> DEFINE new == [sec |-> opened, n |-> hand.n, of |-> Resolved]
    <2>1. /\ table' = table /\ worker = "writing" /\ worker' = "idle" /\ opened' = NoFile
          /\ letters' = (letters \ {TornLetter(opened)}) \cup {new}
      BY <1>10 DEF DumpLetter, Finish, WorkerAfter
    <2>2. opened \in 0..MaxClock /\ \A l \in found : l.sec \in Nat /\ l.sec < opened
      BY <2>1 DEF Typed, TypeOK, ReplayInv
    <2>3. new \in Letters /\ new \notin found
      BY <1>2, <1>3, <2>2 DEF Letters
    <2> HIDE DEF new
    <2>4. letters' \subseteq Letters /\ \A l \in found \cap letters' : l \in letters
      BY <2>1, <2>3 DEF Typed, TypeOK
    <2>5. TypeOK'
      BY <1>1, <1>4, <2>1, <2>4 DEF Typed, TypeOK, Unwritten
    <2> QED BY <1>5, <2>1, <2>4, <2>5 DEF Typed
  <1> QED BY <1>6, <1>7, <1>8, <1>9, <1>10 DEF Handle

LEMMA TypedReplay ==
  ASSUME KeptInv, Typed, Replay
  PROVE  Typed'
  <1>1. /\ UNCHANGED <<serverVars, clock, durable, userMap, opened, found, lost>>
        /\ proc = "starting"
    BY DEF Replay, ReplayUnreadable, ReplayInsert, ReplayRemove, ReplayTurn, worldVars, hostVars,
           history
  <1>2. worker = "idle" /\ NoLetter \notin letters /\ todo \subseteq letters
        /\ \A l \in letters : l \in Letters /\ l.of \subseteq Drivers
    BY <1>1, NoLetterApart DEF Typed, TypeOK, Letters
  (* A letter that is settled stays so. *)
  <1>3. ASSUME \A l \in found \cap letters' :
                 l \in letters /\ (l \in todo' \/ l = replaying' \/ Settled(l) \/ Settled(l)'),
               \A x \in Drivers : table[x] # 0 => table'[x] # 0,
               refused \subseteq refused', unremoved \subseteq unremoved',
               replaying' \notin todo'
        PROVE  ReplayInv' /\ ReplayComplete'
    <2>1. \A l \in letters : Settled(l) => Settled(l)'
      BY <1>1, <1>2, <1>3 DEF Settled
    <2> QED BY <1>1, <1>2, <1>3, <2>1
            DEF serverVars, Typed, ReplayInv, ReplayComplete, Running
  <1>4. ASSUME NEW l \in todo, NEW ok \in BOOLEAN, ReplayInsert(l, ok)
        PROVE  Typed'
    <2>1. /\ letters' = letters /\ todo' = todo \ {l} /\ unremoved' = unremoved
          /\ table' = IF ok THEN Stored(table, l) ELSE table
          /\ replaying' = IF ok THEN l ELSE NoLetter
          /\ refused' = IF ok THEN refused ELSE refused \cup {l}
          /\ replaying = NoLetter
      BY <1>4 DEF ReplayInsert, ReplayTurn, LeftAfter
    <2>2. l \in letters /\ l \in Letters
      BY <1>2
    <2>3. table' \in [Drivers -> 0..MaxSent] /\ \A x \in Drivers : table[x] # 0 => table'[x] # 0
      <3>1. table \in [Drivers -> 0..MaxSent] /\ l.n \in 0..MaxSent /\ l.n # 0
        BY <1>4, <2>2 DEF ReplayInsert, Torn, Letters, Typed, TypeOK
      <3> QED BY <2>1, <3>1 DEF Stored
    <2>4. TypeOK'
      BY <1>1, <1>2, <2>1, <2>2, <2>3 DEF serverVars, Typed, TypeOK, Unwritten
    <2>5. \A k \in found \cap letters' : k = l \/ k \in todo' \/ Settled(k)
      BY <1>1, <1>2, <2>1 DEF Typed, ReplayInv
    <2>6. l = replaying' \/ Settled(l)'
      BY <2>1 DEF Settled
    <2> QED BY <1>2, <1>3, <2>1, <2>3, <2>4, <2>5, <2>6 DEF Typed
  <1>5. ASSUME NEW ok \in BOOLEAN, ReplayRemove(ok)
        PROVE  Typed'
    <2>1. /\ letters' = IF ok THEN letters \ {replaying} ELSE letters
          /\ unremoved' = IF ok THEN unremoved ELSE unremoved \cup {replaying}
          /\ replaying # NoLetter /\ replaying' = NoLetter
          /\ UNCHANGED <<table, todo, refused>>
      BY <1>5 DEF ReplayRemove, Unlinked
    <2>2. TypeOK'
      BY <1>1, <1>2, <2>1 DEF serverVars, Typed, TypeOK, ReplayInv, Unwritten
    <2>3. \A k \in found \cap letters' : k = replaying \/ k \in todo' \/ Settled(k)
      BY <1>1, <1>2, <2>1 DEF Typed, ReplayInv
    <2>4. ASSUME NEW k, k = replaying
          PROVE  k \notin letters' \/ Settled(k)'
      BY <1>1, <2>1, <2>4 DEF KeptInv, Sound, Settled
    <2> QED BY <1>2, <1>3, <2>1, <2>2, <2>3, <2>4 DEF Typed
  <1>6. ASSUME NEW l \in todo, ReplayUnreadable(l)
        PROVE  Typed'
    <2>1. /\ todo' = todo \ {l} /\ replaying = NoLetter /\ Torn(l)
          /\ UNCHANGED <<letters, table, replaying, refused, unremoved>>
      BY <1>6 DEF ReplayUnreadable, ReplayTurn, LeftAfter, history
    <2>2. TypeOK'
      BY <1>1, <1>2, <2>1 DEF serverVars, Typed, TypeOK, Unwritten
    <2>3. \A k \in found \cap letters' : k \in todo' \/ Settled(k)
      BY <1>1, <1>2, <2>1 DEF Typed, ReplayInv, Settled
    <2> QED BY <1>2, <1>3, <2>1, <2>2, <2>3 DEF Typed
  <1> QED BY <1>4, <1>5, <1>6 DEF Replay

LEMMA TypedStartEnd ==
  ASSUME KeptInv, Typed, StartService \/ ListenService \/ EndService
  PROVE  Typed'
  <1>0. NoLetter \notin letters
    BY NoLetterApart DEF Typed, TypeOK
  <1>1. CASE StartService
    <2>1. /\ UNCHANGED <<queue, sentinel, worker, hand, sent, table, durable, letters, opened>>
          /\ proc = "down" /\ proc' = "starting"
          /\ clock < MaxClock /\ clock' = clock + 1
          /\ todo' = letters /\ replaying' = NoLetter /\ found' = letters
      BY <1>1 DEF StartService, Start, hostVars
    <2>2. worker = "idle" /\ ~sentinel /\ opened = NoFile
      BY <2>1 DEF Typed, TypeOK
    <2>3. \A l \in letters : l.sec \in Nat /\ l.sec < clock'
      BY <2>1 DEF KeptInv, ThisSecond
    <2>4. TypeOK'
      BY <2>1, <2>2 DEF Typed, TypeOK, Unwritten
    <2> QED BY <1>0, <2>1, <2>2, <2>3, <2>4 DEF Typed, ReplayInv, ReplayComplete, Running
  <1>2. CASE ListenService
    <2>1. /\ UNCHANGED <<queue, sentinel, worker, hand, sent, clock, userMap, table, durable,
                         letters, opened, todo, replaying, found, refused, unremoved, lost>>
          /\ proc = "starting" /\ proc' = "up"
          /\ todo = {} /\ replaying = NoLetter
      BY <1>2 DEF ListenService, Listen, worldVars, hostVars, resultVars, history
    <2>2. worker = "idle" /\ ~sentinel
      BY <2>1 DEF Typed, TypeOK
    <2>3. TypeOK'
      BY <2>1, <2>2 DEF Typed, TypeOK, Unwritten
    <2>4. \A l \in found \cap letters : Settled(l)
      BY <1>0, <2>1 DEF Typed, ReplayInv
    <2> QED BY <2>1, <2>2, <2>3, <2>4 DEF Typed, ReplayInv, ReplayComplete, Settled, Running
  <1>3. CASE EndService
    <2>1. /\ UNCHANGED <<hand, sent, clock, userMap, table, durable, letters, todo, replaying,
                         found>>
          /\ proc' = "down" /\ queue' = <<>> /\ worker' = "idle" /\ ~sentinel' /\ opened' = NoFile
      BY <1>3 DEF EndService, End, worldVars, hostVars
    <2>2. TypeOK'
      BY <2>1 DEF Typed, TypeOK, Unwritten
    <2> QED BY <2>1, <2>2 DEF Typed, ReplayInv, ReplayComplete, Running
  <1> QED BY <1>1, <1>2, <1>3

(* The database host: what a settled letter needs of the table was stored. *)
LEMMA TypedHost ==
  ASSUME KeptInv, Typed, LogFlushed \/ HostCrash
  PROVE  Typed'
  <1>1. /\ UNCHANGED <<serverVars, worldVars, userMap, letters, opened, todo, replaying, found,
                       refused, unremoved>>
        /\ durable' \in {durable, table} /\ table' \in {durable, table}
        /\ \A x \in Drivers : table[x] # 0 \/ x \in lost => table'[x] # 0 \/ x \in lost'
    BY DEF LogFlushed, HostCrash, resultVars, history
  <1>2. TypeOK'
    <2>1. Resolved' = Resolved
      BY <1>1 DEF Resolved, Listed, serverVars
    <2> QED BY <1>1, <2>1 DEF serverVars, worldVars, Typed, TypeOK, Unwritten
  <1>3. \A l \in letters : l.of \subseteq Drivers
    BY DEF Typed, TypeOK, Letters
  <1>4. \A l \in letters : Settled(l) => Settled(l)'
    BY <1>1, <1>3 DEF Settled
  <1>5. ReplayInv'
    BY <1>1, <1>4 DEF serverVars, worldVars, Typed, ReplayInv, Running
  <1>6. ReplayComplete'
    <2>1. Running => \A l \in found \cap letters : Settled(l)
      BY DEF Typed, ReplayComplete, Settled
    <2> QED BY <1>1, <1>4, <2>1 DEF serverVars, ReplayComplete, Settled, Running
  <1> QED BY <1>2, <1>5, <1>6 DEF Typed

ServiceInv == KeptInv /\ NotYet /\ Typed

LEMMA ServiceInvariant == Spec => []ServiceInv
  <1>1. Init => ServiceInv
    BY InitKept, InitTyped DEF Init, ServerInit, NotYet, ServiceInv
  <1>2. ServiceInv /\ [Next]_vars => ServiceInv'
    BY StepKept, StepNotYet, TypedServer, TypedHandle, TypedReplay, TypedStartEnd,
       TypedHost
    DEF ServiceInv, Next
  <1> QED BY <1>1, <1>2, PTL DEF Spec

(* Every variable keeps its type, the queue its bound, and a worker that   *)
(* has failed holds a classification with drivers to write a letter for.   *)
THEOREM ServiceTypeCorrect == Spec => []TypeOK
  <1>1. ServiceInv => TypeOK
    BY DEF ServiceInv, Typed
  <1> QED BY <1>1, ServiceInvariant, PTL

(* However many letters a start finds, whatever fails in their replay and  *)
(* whenever the process is killed: a process that listens has tried each   *)
(* of them, and one is left only if it is torn, if its rows were refused,  *)
(* or if they are stored and its file could not be removed.                *)
THEOREM ReplayIsComplete == Spec => []ReplayComplete
  <1>1. ServiceInv => ReplayComplete
    BY DEF ServiceInv, Typed
  <1> QED BY <1>1, ServiceInvariant, PTL

LEMMA StepLeaves ==
  ASSUME ServiceInv, [Next]_vars, NEW l \in letters \ letters'
  PROVE  \/ \A x \in l.of : table[x] # 0 \/ x \in lost
         \/ worker = "failed" /\ opened' = l.sec /\ l.of \subseteq Resolved
  <1>1. \E ok \in BOOLEAN : ReplayRemove(ok) \/ OpenLetter(ok) \/ DumpLetter(ok)
    BY DEF Next, Send, Tick, TakeNext, ServerStep, Handle, HandleRoster, HandleJunk, IgnoreFinal,
           WriteFinal, Replay, ReplayUnreadable, ReplayInsert, StartService, ListenService,
           EndService, LogFlushed, HostCrash, resultVars, vars
  <1>2. CASE \E ok \in BOOLEAN : ReplayRemove(ok)
    <2>1. l = replaying /\ replaying # NoLetter
      BY <1>2 DEF ReplayRemove, Unlinked
    <2> QED BY <2>1 DEF ServiceInv, KeptInv, Sound
  <1>3. ASSUME NEW ok \in BOOLEAN, OpenLetter(ok)
        PROVE  worker = "failed" /\ opened' = l.sec /\ l.of \subseteq Resolved
    <2>1. worker = "failed" /\ opened' = clock /\ l.sec = clock /\ hand.kind = "final"
      BY <1>3 DEF OpenLetter, GiveUpLetter, WithLetter, TornLetter, ServiceInv, KeptInv, Begun,
                  Unwritten
    <2>2. l.of \subseteq userMap /\ l.of \subseteq hand.of
      BY <2>1 DEF ServiceInv, KeptInv, ThisSecond
    <2> QED BY <2>1, <2>2 DEF Resolved, Listed
  <1>4. ASSUME NEW ok \in BOOLEAN, DumpLetter(ok)
        PROVE  l.of = {}
    <2>1. letters' = letters \/ letters \ {TornLetter(opened)} \subseteq letters'
      BY <1>4 DEF DumpLetter, GiveUpLetter
    <2> QED BY <2>1 DEF TornLetter
  <1> QED BY <1>1, <1>2, <1>3, <1>4

(* A letter's file is gone or truncated only when the table has had a      *)
(* result for each of its drivers, or when it is opened for a letter of    *)
(* the same second that is to name them all, in any step of the handler,   *)
(* the replay, a restart or a crash of the host.                           *)
THEOREM LettersLeave == Spec => LettersLeaveStored
  <1>1. ASSUME ServiceInv, [Next]_vars
        PROVE  [\A l \in letters \ letters' :
                  \/ \A x \in l.of : table[x] # 0 \/ x \in lost
                  \/ worker = "failed" /\ opened' = l.sec /\ l.of \subseteq Resolved]_vars
    BY <1>1, StepLeaves
  <1> QED BY <1>1, ServiceInvariant, PTL DEF Spec, LettersLeaveStored
=============================================================================
