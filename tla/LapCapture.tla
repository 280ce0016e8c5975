----------------------------- MODULE LapCapture -----------------------------
(***************************************************************************)
(* What the Session History packets of one driver become                   *)
(* (LapHistoryService): the laps table, written incrementally behind a     *)
(* counter, the session bests behind a cache, and the tyre stints once the *)
(* final classification is in.  Writes are logged and forgotten when they  *)
(* fail; a restart forgets the counter, the cache and the classification.  *)
(*                                                                         *)
(* Packets arrive in order and the game does not see the listener, so a    *)
(* packet is taken with what the game shows when its laps are written; its *)
(* later writes are steps of their own.                                    *)
(***************************************************************************)
EXTENDS Integers, FiniteSets

CONSTANTS
  MaxLap,         \* laps of the session
  Times,          \* lap times
  MaxFlashbacks, MaxFaults, MaxRestarts

ASSUME LapAssumption ==
  /\ MaxLap \in Nat \ {0}
  /\ Times \subseteq Nat \ {0} /\ Times # {}
  /\ MaxFlashbacks \in Nat /\ MaxFaults \in Nat /\ MaxRestarts \in Nat

VARIABLES
  num,            \* the game: the lap being driven, or the last one when it is finished
  time,           \* the game: lap -> its time, 0 until it is finished
  pit,            \* the game: the lap of the pit stop, 0 for none: the stints are that many
  ready,          \* the listener knows the session and the driver
  last,           \* _last_num_laps
  cached,         \* _last_bests
  classified,     \* _classification_received
  step,           \* what is left of the packet in hand: "none", "bests" or "stints"
  hand,           \* what it shows of the best lap and the stop
  laps,           \* table: lap -> time, 0 for no row
  bests,          \* table: the best lap, 0 for no row or NULL
  stints,         \* table: the stints by their stop, NoRow for none
  shown,          \* history: the times the last packet showed
  undone,         \* history: laps rewound since the last packet
  unseen,         \* history: laps rewound and finished again with no packet between
  missed,         \* history: laps whose write failed and was not repeated
  bestsMissed,    \* history: the upsert of the current bests failed
  flashbacks, faults, restarts

gameVars    == <<num, time, pit>>
memoryVars  == <<ready, last, cached, classified>>
packetVars  == <<step, hand>>
tables      == <<laps, bests, stints>>
history     == <<shown, undone, unseen, missed, bestsMissed>>
budgets     == <<flashbacks, faults, restarts>>

vars == <<num, time, pit, ready, last, cached, classified, step, hand, laps, bests,
          stints, shown, undone, unseen, missed, bestsMissed, flashbacks, faults, restarts>>

Laps   == 1..MaxLap
NoRow  == -1
Unknown == -1     \* a cache with no entry
NoTimes == [l \in Laps |-> 0]

-----------------------------------------------------------------------------
(* The game *)

Finished == time[MaxLap] # 0

FinishLap(t) ==
  /\ time[num] = 0
  /\ time' = [time EXCEPT ![num] = t]
  /\ num' = IF num < MaxLap THEN num + 1 ELSE num
  /\ unseen' = IF num \in undone THEN unseen \cup {num} ELSE unseen
  /\ UNCHANGED <<pit, memoryVars, packetVars, tables, shown, undone, missed, bestsMissed,
                 budgets>>

PitStop ==
  /\ pit = 0 /\ ~Finished
  /\ pit' = num
  /\ UNCHANGED <<num, time, memoryVars, packetVars, tables, history, budgets>>

(* Back into an earlier lap: it and those after it are driven again. *)
Flashback(lap) ==
  /\ flashbacks < MaxFlashbacks
  /\ lap < num /\ ~Finished
  /\ flashbacks' = flashbacks + 1
  /\ num' = lap
  /\ time' = [l \in Laps |-> IF l < lap THEN time[l] ELSE 0]
  /\ pit' \in (IF pit < lap THEN {pit} ELSE IF pit = lap THEN {pit, 0} ELSE {0})
  /\ undone' = undone \cup {l \in Laps : l >= lap /\ time[l] # 0}
  /\ UNCHANGED <<memoryVars, packetVars, tables, shown, unseen, missed, bestsMissed,
                 faults, restarts>>

(* The first lap of the best time, 0 before one is finished. *)
BestLaps ==
  LET done == {l \in Laps : time[l] # 0} IN
  IF done = {} THEN {0}
  ELSE {l \in done : \A k \in done : time[l] < time[k] \/ (time[l] = time[k] /\ l <= k)}

-----------------------------------------------------------------------------
(* handle_session_history_packet *)

(* A write that may fail: the failure is logged and nothing else. *)
Write(ok) ==
  /\ ~ok => faults < MaxFaults
  /\ faults' = IF ok THEN faults ELSE faults + 1

SkipsLast == last                                                \* mutant

(* start_index: from the lap that was being driven at the last packet. *)
StartIndex == IF last = 0 THEN 0 ELSE last - 1

BeforeNum == {l \in Laps : StartIndex < l /\ l < num /\ time[l] # 0}   \* mutant

(* The laps of the slice that have a time. *)
Batch == {l \in Laps : StartIndex < l /\ l <= num /\ time[l] # 0}

OneTooMany == num + 1                                            \* mutant

Furthest == IF num > last THEN num ELSE last                     \* mutant

(* The counter follows the packet, back too, whatever became of the write. *)
CountedLaps == num

(* ON CONFLICT DO UPDATE: the rows of the batch are new or overwritten. *)
UpsertedLaps == [l \in Laps |-> IF l \in Batch THEN time[l] ELSE laps[l]]

(* _upsert_laps *)
UpsertLaps(ok) ==
  /\ ready /\ step = "none"
  /\ Batch = {} => ok
  /\ Write(ok)
  /\ laps' = IF ok THEN UpsertedLaps ELSE laps
  /\ last' = CountedLaps
  /\ step' = "bests"
  /\ \E best \in BestLaps : hand' = [best |-> best, pit |-> pit]
  /\ shown' = [l \in Laps |-> IF l <= num THEN time[l] ELSE 0]
  /\ undone' = {}
  /\ unseen' = unseen \ Batch
  /\ missed' = IF ok THEN missed \ Batch ELSE missed \cup Batch
  /\ UNCHANGED <<gameVars, ready, cached, classified, bests, stints, bestsMissed,
                 flashbacks, restarts>>

OnlyLater == hand.best <= cached                                 \* mutant

(* The bests are those written last: no UPSERT is issued. *)
SameBests == hand.best = cached

StintsAlways == TRUE                                             \* mutant

(* After the bests, the stints if the classification has been received. *)
StintsAreDue == classified

(* The dispatcher goes on to handle_tyre_stints, or is done. *)
AfterBests == IF StintsAreDue THEN "stints" ELSE "none"

(* One row for the driver, overwritten.  Of the four laps it names only    *)
(* that of the best lap is modelled; a best sector may be of the lap being *)
(* driven, which has no row yet.                                           *)
UpsertedBests == hand.best

(* _upsert_session_bests *)
UpsertBests(ok) ==
  /\ step = "bests"
  /\ SameBests => ok
  /\ Write(ok)
  /\ bests' = IF ok /\ ~SameBests THEN UpsertedBests ELSE bests
  /\ cached' = hand.best
  /\ bestsMissed' = IF SameBests THEN bestsMissed ELSE ~ok
  /\ step' = AfterBests
  /\ UNCHANGED <<gameVars, ready, last, classified, hand, laps, stints, shown, undone,
                 unseen, missed, flashbacks, restarts>>

(* A row for each stint, overwritten. *)
UpsertedStints == hand.pit

(* _upsert_tyre_stints *)
UpsertStints(ok) ==
  /\ step = "stints"
  /\ Write(ok)
  /\ stints' = IF ok THEN UpsertedStints ELSE stints
  /\ step' = "none"
  /\ UNCHANGED <<gameVars, memoryVars, hand, laps, bests, history, flashbacks, restarts>>

-----------------------------------------------------------------------------
(* The final classification is handled, if it is not lost. *)
FinalClassification ==
  /\ Finished
  /\ ready /\ step = "none"
  /\ classified' = TRUE
  /\ UNCHANGED <<gameVars, ready, last, cached, packetVars, tables, history, budgets>>

(* Session and Participants packets make the driver known. *)
Resolve ==
  /\ ~ready
  /\ ready' = TRUE
  /\ UNCHANGED <<gameVars, last, cached, classified, packetVars, tables, history, budgets>>

(* The process stops, in the middle of a packet too, and starts again. *)
Restart ==
  /\ restarts < MaxRestarts
  /\ restarts' = restarts + 1
  /\ ready' = FALSE /\ last' = 0 /\ cached' = Unknown /\ classified' = FALSE
  /\ step' = "none"
  /\ UNCHANGED <<gameVars, hand, tables, history, flashbacks, faults>>

Init ==
  /\ num = 1 /\ time = NoTimes /\ pit = 0
  /\ ready = FALSE /\ last = 0 /\ cached = Unknown /\ classified = FALSE
  /\ step = "none" /\ hand = [best |-> 0, pit |-> 0]
  /\ laps = NoTimes /\ bests = 0 /\ stints = NoRow
  /\ shown = NoTimes /\ undone = {} /\ unseen = {} /\ missed = {} /\ bestsMissed = FALSE
  /\ flashbacks = 0 /\ faults = 0 /\ restarts = 0

SomeUpsert == \E ok \in BOOLEAN : UpsertLaps(ok) \/ UpsertBests(ok) \/ UpsertStints(ok)

Next ==
  \/ \E t \in Times : FinishLap(t)
  \/ PitStop
  \/ \E lap \in Laps : Flashback(lap)
  \/ SomeUpsert
  \/ FinalClassification
  \/ Resolve
  \/ Restart

Spec == Init /\ [][Next]_vars

(* The game cycles through the cars about once a second, and repeats the   *)
(* packets that make a driver known.                                       *)
FairSpec == Spec /\ WF_vars(SomeUpsert) /\ WF_vars(Resolve)

-----------------------------------------------------------------------------
TypeOK ==
  /\ num \in Laps /\ last \in 0..MaxLap
  /\ time \in [Laps -> Times \cup {0}] /\ laps \in [Laps -> Times \cup {0}]
  /\ \A l \in Laps : l < num => time[l] # 0
  /\ pit \in 0..num /\ hand \in [best : 0..MaxLap, pit : 0..MaxLap]
  /\ ready \in BOOLEAN /\ classified \in BOOLEAN
  /\ cached \in 0..MaxLap \cup {Unknown} /\ bests \in 0..MaxLap
  /\ stints \in 0..MaxLap \cup {NoRow}
  /\ step \in {"none", "bests", "stints"}
  /\ step # "none" => ready
  /\ last # 0 => cached # Unknown \/ step = "bests"

(* Every lap the last packet showed finished has its time in the table,    *)
(* whatever was rewound, lost or restarted (lap_history.py:81-132), but    *)
(* for the two gaps of the counter: a write that failed, and a lap rewound *)
(* and finished again before a packet showed it unfinished.                *)
LapsAsDriven ==
  \A l \in Laps : shown[l] # 0 => laps[l] = shown[l] \/ l \in missed \cup unseen

(* session_bests.sql:3-5, "join back to telemetry.laps": the lap named as  *)
(* the best one has a row, though the two are separate transactions, the   *)
(* lap may be rewound and the process killed between them.                 *)
BestNamesLap == bests # 0 => laps[bests] # 0 \/ bests \in missed

(* Between packets the bests stored are those of the last packet, though   *)
(* most packets write none (lap_history.py:150-155), but for an upsert     *)
(* that failed and was cached.                                             *)
BestsAsShown == ready /\ last # 0 /\ step # "bests" => bests = hand.best \/ bestsMissed

(* tyre_stints holds the stints of the finished session: none that a       *)
(* flashback can still take back (dispatcher.py:323-328).                  *)
StintsFinal == stints # NoRow => stints = pit

(* A finished lap gets its row, the last one of the session included,      *)
(* unless it is rewound or falls into one of the two gaps.                 *)
LapStored ==
  \A l \in Laps :
    (time[l] # 0) ~> (laps[l] = time[l] \/ time[l] = 0 \/ l \in missed \cup unseen)
=============================================================================
