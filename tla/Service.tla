------------------------------ MODULE Service -------------------------------
(***************************************************************************)
(* The final classification from the socket to the table:                  *)
(* FinalClassificationService and its dead letters, run by the worker of   *)
(* UdpServer, stopped and restarted.                                       *)
(*                                                                         *)
(* One session.  A "roster" datagram stands for a Participants packet that *)
(* may resolve more drivers, "final" for a Final Classification listing    *)
(* the drivers with a result status, "junk" for one the handler raises on. *)
(* A result is the number of the datagram it came in.                      *)
(***************************************************************************)
EXTENDS UdpServer, FiniteSets

CONSTANTS
  Drivers,        \* human drivers of the session
  MaxClock,       \* seconds that pass
  MaxFaults,      \* writes, to the database or a file, that fail
  MaxCrashes      \* crashes of the database host

ASSUME ServiceAssumption == {MaxClock, MaxFaults, MaxCrashes} \subseteq Nat

VARIABLES
  listed,         \* the game: drivers with a result status
  userMap,        \* drivers resolved by this process
  processed,      \* the session is in _processed_sessions
  table,          \* driver -> the result stored, 0 for none
  durable,        \* the table as a crash of the database host would leave it
  letters,        \* dead-letter files
  opened,         \* the second in the name of the file being written
  todo,           \* letters still to replay at the start
  replaying,      \* the letter whose rows are stored and whose file is not removed
  clock,
  owed,           \* history: drivers of results the service has taken on
  forgone,        \* history: drivers whose letter was not written to its end
  found,          \* history: letters this process found at its start
  refused,        \* history: those of them whose rows it failed to store
  unremoved,      \* history: those of them stored whose file it failed to remove
  lost,           \* history: drivers whose committed result the host has lost
  faults, crashes

resultVars == <<userMap, processed, table, letters, opened, todo, replaying>>
worldVars  == <<listed, clock>>
hostVars   == <<durable, lost, crashes>>
history    == <<owed, forgone, found, refused, unremoved>>

vars == <<proc, queue, sentinel, worker, hand, pool, sent, starts,
          listed, userMap, processed, table, letters, opened, todo, replaying, clock,
          durable, owed, forgone, found, refused, unremoved, lost, faults, crashes>>

NoFile   == -1
NoLetter == [sec |-> NoFile, n |-> 0, of |-> {}]

(* A file that was opened and not written to its end holds no result. *)
TornLetter(sec) == [sec |-> sec, n |-> 0, of |-> {}]
Torn(l) == l.n = 0

Letters == [sec : 0..MaxClock, n : 0..MaxSent, of : SUBSET Drivers]

-----------------------------------------------------------------------------
(* A write that needs the database: it fails without a pool, or by a fault. *)
Write(ok) ==
  /\ ok => pool = "open"
  /\ ~ok /\ pool = "open" => faults < MaxFaults
  /\ faults' = IF ~ok /\ pool = "open" THEN faults + 1 ELSE faults

(* INSERT ... ON CONFLICT (session_uid, user_id) DO UPDATE *)
Stored(rows, d) == [x \in Drivers |-> IF x \in d.of THEN d.n ELSE rows[x]]

-----------------------------------------------------------------------------
(* The handler *)

(* Participants: drivers are resolved once the database has confirmed them. *)
HandleRoster ==
  /\ worker = "busy" /\ hand.kind = "roster"
  /\ userMap' = IF pool = "open" THEN userMap \cup hand.of ELSE userMap
  /\ Finish(TRUE)
  /\ UNCHANGED <<worldVars, hostVars, processed, table, letters, opened, todo, replaying, history,
                 faults>>

(* A datagram the header or the body's size gives away. *)
Malformed(d) == d.kind = "junk"

(* It is dropped, or the handler raises. *)
HandleJunk(ok) ==
  /\ worker = "busy" /\ Malformed(hand)
  /\ Finish(ok)
  /\ UNCHANGED <<worldVars, hostVars, resultVars, history, faults>>

(* unpack_final_classification: the drivers with a result status. *)
Listed == hand.of

(* The classifications to write: the listed drivers who resolve. *)
Resolved == Listed \cap userMap

(* The gate, and the early returns. *)
IgnoreFinal ==
  /\ worker = "busy" /\ hand.kind = "final"
  /\ userMap = {} \/ processed \/ Resolved = {}
  /\ processed' = (processed \/ userMap # {})
  /\ Finish(TRUE)
  /\ UNCHANGED <<worldVars, hostVars, userMap, table, letters, opened, todo, replaying, history,
                 faults>>

(* The rows of the batch are neither stored nor in a letter yet. *)
Unwritten == worker \in {"failed", "writing"}

(* The session is done only when the rows are in. *)
ProcessedAfter(ok) == ok

(* The strict write of the batch. *)
WriteFinal(ok) ==
  /\ worker = "busy" /\ hand.kind = "final"
  /\ Resolved # {} /\ ~processed
  /\ Write(ok)
  /\ owed' = owed \cup Resolved
  /\ processed' = ProcessedAfter(ok)
  /\ table' = IF ok THEN Stored(table, [n |-> hand.n, of |-> Resolved]) ELSE table
  /\ IF ok THEN Finish(TRUE)
     ELSE /\ worker' = "failed"
          /\ UNCHANGED <<proc, queue, sentinel, hand, pool, sent, starts>>
  /\ UNCHANGED <<worldVars, hostVars, userMap, letters, opened, todo, replaying, forgone, found,
                 refused, unremoved>>

OneFile(l) == {l}                                                \* mutant

(* The file of a letter's second is truncated, whatever it held. *)
WithLetter(l) == {k \in letters : k.sec # l.sec} \cup {l}

(* What makedirs, open, json.dump or close raise is logged, and the letter *)
(* given up.                                                               *)
GiveUpLetter ==
  /\ faults < MaxFaults
  /\ faults' = faults + 1
  /\ forgone' = forgone \cup Resolved
  /\ opened' = NoFile
  /\ Finish(TRUE)
  /\ UNCHANGED letters

(* _write_dead_letter: "{session_uid}_{int(time.time())}.json" is opened   *)
(* for writing ...                                                         *)
OpenLetter(ok) ==
  /\ worker = "failed"
  /\ IF ok THEN /\ letters' = WithLetter(TornLetter(clock))
                /\ opened' = clock
                /\ worker' = "writing"
                /\ UNCHANGED <<proc, queue, sentinel, hand, pool, sent, starts, forgone, faults>>
     ELSE GiveUpLetter
  /\ UNCHANGED <<worldVars, hostVars, userMap, processed, table, todo, replaying, owed, found,
                 refused, unremoved>>

(* ... and filled.  A dump that fails leaves it torn. *)
DumpLetter(ok) ==
  /\ worker = "writing"
  /\ IF ok THEN /\ letters' = (letters \ {TornLetter(opened)})
                                \cup {[sec |-> opened, n |-> hand.n, of |-> Resolved]}
                /\ opened' = NoFile
                /\ Finish(TRUE)
                /\ UNCHANGED <<forgone, faults>>
     ELSE GiveUpLetter
  /\ UNCHANGED <<worldVars, hostVars, userMap, processed, table, todo, replaying, owed, found,
                 refused, unremoved>>

-----------------------------------------------------------------------------
(* replay_dead_letters, before the server starts *)

LoopAborted(l, ok) == IF ok THEN todo \ {l} ELSE {}               \* mutant

(* A letter that fails keeps its file, and the next one is tried. *)
LeftAfter(l, ok) == todo \ {l}

(* The letters are sorted by name, that is by second. *)
ReplayTurn(l) ==
  /\ proc = "starting" /\ replaying = NoLetter
  /\ \A k \in todo : l.sec <= k.sec

(* json.load raises. *)
ReplayUnreadable(l) ==
  /\ ReplayTurn(l) /\ Torn(l)
  /\ todo' = LeftAfter(l, FALSE)
  /\ UNCHANGED <<serverVars, worldVars, hostVars, userMap, processed, table, letters, opened,
                 replaying, history, faults>>

ReplayInsert(l, ok) ==
  /\ ReplayTurn(l) /\ ~Torn(l)
  /\ Write(ok)
  /\ todo' = LeftAfter(l, ok)
  /\ table' = IF ok THEN Stored(table, l) ELSE table
  /\ replaying' = IF ok THEN l ELSE NoLetter
  /\ refused' = IF ok THEN refused ELSE refused \cup {l}
  /\ UNCHANGED <<serverVars, worldVars, hostVars, userMap, processed, letters, opened, owed,
                 forgone, found, unremoved>>

RemoveAnyway == letters \ found                                  \* mutant

Unlinked == letters \ {replaying}

(* os.remove: the file of a letter that is stored may stay. *)
ReplayRemove(ok) ==
  /\ proc = "starting" /\ replaying # NoLetter
  /\ ~ok => faults < MaxFaults
  /\ faults' = IF ok THEN faults ELSE faults + 1
  /\ letters' = IF ok THEN Unlinked ELSE letters
  /\ unremoved' = IF ok THEN unremoved ELSE unremoved \cup {replaying}
  /\ replaying' = NoLetter
  /\ UNCHANGED <<serverVars, worldVars, hostVars, userMap, processed, table, opened, todo, owed,
                 forgone, found, refused>>

-----------------------------------------------------------------------------
(* The service starts empty, with the letters sorted by name.  A start     *)
(* takes its second.                                                       *)
StartService ==
  /\ Start
  /\ clock < MaxClock
  /\ clock' = clock + 1
  /\ userMap' = {} /\ processed' = FALSE
  /\ todo' = letters
  /\ replaying' = NoLetter
  /\ found' = letters /\ refused' = {} /\ unremoved' = {}
  /\ UNCHANGED <<listed, hostVars, table, letters, opened, owed, forgone, faults>>

ListenService ==
  /\ Listen
  /\ todo = {} /\ replaying = NoLetter
  /\ UNCHANGED <<worldVars, hostVars, resultVars, history, faults>>

(* Results die with the process until their letter is filled. *)
EndService ==
  /\ End
  /\ forgone' = IF Unwritten THEN forgone \cup Resolved ELSE forgone
  /\ opened' = NoFile
  /\ UNCHANGED <<worldVars, hostVars, userMap, processed, table, letters, todo, replaying, owed,
                 found, refused, unremoved, faults>>

(* What the game may send: a driver with a result keeps one. *)
Send ==
  \E kind \in {"roster", "final", "junk"}, of \in SUBSET Drivers :
    /\ kind = "final" => listed \subseteq of
    /\ kind = "junk" <=> of = {}
    /\ listed' = IF kind = "final" THEN of ELSE listed
    /\ Receive([n |-> sent + 1, kind |-> kind, of |-> of])
    /\ UNCHANGED <<clock, hostVars, resultVars, history, faults>>

Tick ==
  /\ clock < MaxClock
  /\ clock' = clock + 1
  /\ UNCHANGED <<serverVars, listed, hostVars, resultVars, history, faults>>

(* With synchronous_commit off a commit is durable only when the log has   *)
(* reached the disk, and a crash of the host takes back the later ones.    *)
Volatile == crashes < MaxCrashes

LogFlushed ==
  /\ Volatile
  /\ durable' = table
  /\ UNCHANGED <<serverVars, worldVars, resultVars, history, lost, faults, crashes>>

HostCrash ==
  /\ Volatile
  /\ crashes' = crashes + 1
  /\ table' = durable
  /\ lost' = lost \cup {x \in Drivers : durable[x] = 0 /\ table[x] # 0}
  /\ UNCHANGED <<serverVars, worldVars, userMap, processed, letters, opened, todo, replaying,
                 durable, history, faults>>

TakeNext == Take /\ UNCHANGED <<worldVars, hostVars, resultVars, history, faults>>

ServerStep ==
  /\ TakeSentinel \/ Signal \/ Leave
  /\ UNCHANGED <<worldVars, hostVars, resultVars, history, faults>>

Handle ==
  \/ HandleRoster \/ IgnoreFinal
  \/ \E ok \in BOOLEAN : HandleJunk(ok) \/ WriteFinal(ok) \/ OpenLetter(ok)
                       \/ DumpLetter(ok)

Replay ==
  \/ \E l \in todo : ReplayUnreadable(l) \/ \E ok \in BOOLEAN : ReplayInsert(l, ok)
  \/ \E ok \in BOOLEAN : ReplayRemove(ok)

Init ==
  /\ ServerInit
  /\ listed = {} /\ userMap = {} /\ processed = FALSE
  /\ table = [x \in Drivers |-> 0]
  /\ letters = {} /\ opened = NoFile /\ todo = {} /\ replaying = NoLetter
  /\ clock = 0
  /\ owed = {} /\ forgone = {} /\ found = {} /\ refused = {} /\ unremoved = {}
  /\ durable = table /\ lost = {}
  /\ faults = 0 /\ crashes = 0

Next ==
  \/ Send \/ Tick \/ TakeNext \/ ServerStep \/ Handle \/ Replay
  \/ StartService \/ ListenService \/ EndService
  \/ LogFlushed \/ HostCrash

Spec == Init /\ [][Next]_vars

(* The worker thread runs while the process does. *)
FairSpec == Spec /\ WF_vars(TakeNext) /\ WF_vars(Handle)

-----------------------------------------------------------------------------
TypeOK ==
  /\ proc \in {"down", "starting", "up", "stopping", "leaving"}
  /\ worker \in {"idle", "busy", "failed", "writing", "done"}
  /\ proc \in {"down", "starting"} => queue = <<>> /\ worker = "idle"
  /\ Len(queue) <= QueueSize
  /\ sentinel => proc = "leaving"
  /\ table \in [Drivers -> 0..MaxSent] /\ durable \in [Drivers -> 0..MaxSent]
  /\ letters \subseteq Letters
  /\ todo \subseteq letters /\ replaying \in letters \cup {NoLetter}
  /\ opened \in 0..clock \cup {NoFile} /\ (opened # NoFile <=> worker = "writing")
  /\ Unwritten => hand.kind = "final" /\ Resolved # {}

(* A result the service has taken on is in the table, or in a letter, or   *)
(* about to be written to one, whatever fails or stops between             *)
(* (final_classification.py:132-143, 157-165); lost are those whose letter *)
(* could not be written, or was not written to its end before the process  *)
(* died, the older letter its file held among them, and those whose commit *)
(* the host lost.                                                          *)
ResultKept ==
  \A x \in owed \ (forgone \cup lost) :
    \/ table[x] # 0
    \/ \E l \in letters : x \in l.of
    \/ Unwritten /\ x \in Resolved

(* Once the process listens, a letter it found is gone, unless it is torn, *)
(* its rows were refused, or they are stored and its file could not be     *)
(* removed (final_classification.py:176-192); no failure costs another     *)
(* letter its turn.                                                        *)
ReplayComplete ==
  Running => \A l \in found \cap letters :
               \/ Torn(l) \/ l \in refused
               \/ l \in unremoved /\ \A x \in l.of : table[x] # 0 \/ x \in lost

(* A letter leaves the directory only when the table has had a result,     *)
(* this or another one, for each of its drivers, or when its file is       *)
(* opened again in its second, for a classification that names them all.   *)
LettersLeaveStored ==
  [][\A l \in letters \ letters' :
       \/ \A x \in l.of : table[x] # 0 \/ x \in lost
       \/ worker = "failed" /\ opened' = l.sec /\ l.of \subseteq Resolved]_vars

(* What the receive loop has accepted is handled, or dies with the process. *)
HandledInTheEnd ==
  \A n \in 1..MaxSent :
    (\E i \in 1..Len(queue) : queue[i].n = n) ~> (hand.n = n \/ proc = "down")
=============================================================================
