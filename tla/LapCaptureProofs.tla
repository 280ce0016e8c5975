-------------------------- MODULE LapCaptureProofs --------------------------
(* What holds of the captured laps for any number of laps, lap times,      *)
(* flashbacks, faults and restarts.                                        *)
EXTENDS LapCapture, TLAPS

USE LapAssumption

(* The game: the laps before the current one are finished, none after it. *)
Driven ==
  /\ num \in Laps /\ last \in Nat
  /\ time \in [Laps -> Nat] /\ laps \in [Laps -> Nat] /\ shown \in [Laps -> Nat]
  /\ \A l \in Laps : (l < num => time[l] # 0) /\ (l > num => time[l] = 0)
  /\ time[num] # 0 => num = MaxLap

(* A lap behind the counter was shown, and has changed only by being       *)
(* rewound and, once it is finished again, unseen.                         *)
BehindCounter ==
  /\ \A l \in Laps : l < last =>
       shown[l] # 0 /\ (time[l] = shown[l] \/ l \in undone \cup unseen)
  /\ \A l \in undone : l \in Laps /\ (time[l] # 0 => l \in unseen)

(* A lap that was shown has a row. *)
ShownHasRow == \A l \in Laps : shown[l] # 0 => laps[l] # 0 \/ l \in missed

(* The best lap in hand and in the table has a row. *)
BestHasRow ==
  /\ hand.best # 0 => hand.best \in Laps
  /\ step = "bests" /\ hand.best # 0 => laps[hand.best] # 0 \/ hand.best \in missed
  /\ bests # 0 => bests \in Laps

LapInv == Driven /\ BehindCounter /\ ShownHasRow /\ BestHasRow /\ LapsAsDriven /\ BestNamesLap

LEMMA InitLaps == Init => LapInv
  BY DEF Init, LapInv, Driven, BehindCounter, ShownHasRow, BestHasRow, LapsAsDriven,
         BestNamesLap, Laps, NoTimes

LEMMA GameLaps ==
  ASSUME LapInv, (\E t \in Times : FinishLap(t)) \/ PitStop \/ \E lap \in Laps : Flashback(lap)
  PROVE  LapInv'
  <1>1. ASSUME NEW t \in Times, FinishLap(t)
        PROVE  LapInv'
    <2>1. /\ time[num] = 0 /\ time' = [time EXCEPT ![num] = t] /\ t \in Nat \ {0}
          /\ num' = IF num < MaxLap THEN num + 1 ELSE num
          /\ unseen' = IF num \in undone THEN unseen \cup {num} ELSE unseen
          /\ UNCHANGED <<last, step, hand, laps, bests, shown, undone, missed>>
      BY <1>1 DEF FinishLap, memoryVars, packetVars, tables
    <2>2. Driven'
      <3>1. /\ time' \in [Laps -> Nat] /\ time'[num] = t
            /\ \A l \in Laps : l # num => time'[l] = time[l]
        BY <2>1 DEF LapInv, Driven
      <3>2. num' \in Laps /\ num' >= num /\ (num' = num => num = MaxLap)
        BY <2>1 DEF LapInv, Driven, Laps
      <3>3. \A l \in Laps : (l < num' => time'[l] # 0) /\ (l > num' => time'[l] = 0)
        BY <2>1, <3>1, <3>2 DEF LapInv, Driven, Laps
      <3>4. time'[num'] # 0 => num' = MaxLap
        BY <2>1, <3>1, <3>2 DEF LapInv, Driven, Laps
      <3> QED BY <2>1, <3>1, <3>2, <3>3, <3>4 DEF LapInv, Driven
    <2>3. BehindCounter'
      BY <2>1 DEF LapInv, Driven, BehindCounter
    <2>4. ShownHasRow' /\ BestHasRow' /\ LapsAsDriven' /\ BestNamesLap'
      BY <2>1 DEF LapInv, ShownHasRow, BestHasRow, LapsAsDriven, BestNamesLap
    <2> QED BY <2>2, <2>3, <2>4 DEF LapInv
  <1>2. CASE PitStop
    BY <1>2 DEF PitStop, memoryVars, packetVars, tables, history, LapInv, Driven,
                BehindCounter, ShownHasRow, BestHasRow, LapsAsDriven, BestNamesLap
  <1>3. ASSUME NEW lap \in Laps, Flashback(lap)
        PROVE  LapInv'
    <2>1. /\ lap < num /\ num' = lap
          /\ time' = [l \in Laps |-> IF l < lap THEN time[l] ELSE 0]
          /\ undone' = undone \cup {l \in Laps : l >= lap /\ time[l] # 0}
          /\ UNCHANGED <<last, step, hand, laps, bests, shown, unseen, missed>>
      BY <1>3 DEF Flashback, memoryVars, packetVars, tables
    <2>2. Driven'
      BY <2>1 DEF LapInv, Driven, Laps
    <2>3. BehindCounter'
      BY <2>1 DEF LapInv, Driven, BehindCounter, Laps
    <2>4. ShownHasRow' /\ BestHasRow' /\ LapsAsDriven' /\ BestNamesLap'
      BY <2>1 DEF LapInv, ShownHasRow, BestHasRow, LapsAsDriven, BestNamesLap
    <2> QED BY <2>2, <2>3, <2>4 DEF LapInv
  <1> QED BY <1>1, <1>2, <1>3

LEMMA UpsertLapsKeeps ==
  ASSUME LapInv, NEW ok \in BOOLEAN, UpsertLaps(ok)
  PROVE  LapInv'
  <1>1. /\ laps' = IF ok THEN [l \in Laps |-> IF l \in Batch THEN time[l] ELSE laps[l]] ELSE laps
        /\ last' = num /\ undone' = {}
        /\ shown' = [l \in Laps |-> IF l <= num THEN time[l] ELSE 0]
        /\ unseen' = unseen \ Batch
        /\ missed' = IF ok THEN missed \ Batch ELSE missed \cup Batch
        /\ UNCHANGED <<num, time, bests>>
    BY DEF UpsertLaps, UpsertedLaps, CountedLaps, gameVars
  <1>2. PICK best \in BestLaps : hand' = [best |-> best, pit |-> pit]
    BY DEF UpsertLaps
  <1>3. best # 0 => best \in Laps /\ time[best] # 0
    BY DEF BestLaps
  (* A finished lap the packet shows is written, or lies behind the counter. *)
  <1>4. \A l \in Laps : l \in Batch \/ l < last \/ time[l] = 0
    BY DEF LapInv, Driven, Batch, StartIndex, Laps
  <1>5. Batch \subseteq Laps /\ \A l \in Batch : time[l] # 0
    BY DEF Batch
  <1>6. Driven'
    BY <1>1 DEF LapInv, Driven, Laps
  <1>7. BehindCounter'
    BY <1>1 DEF LapInv, Driven, BehindCounter, Laps
  <1>8. \A l \in Laps : shown'[l] # 0 => shown'[l] = time[l] /\ (l \in Batch \/ l < last)
    BY <1>1, <1>4
  <1>9. \A l \in Laps : l \in Batch => laps'[l] = time[l] \/ l \in missed'
    BY <1>1
  <1>10. \A l \in Laps : l \notin Batch => laps'[l] = laps[l] /\ (l \in missed => l \in missed')
    BY <1>1 DEF LapInv, Driven
  <1>11. ShownHasRow'
    BY <1>5, <1>8, <1>9, <1>10 DEF LapInv, ShownHasRow, BehindCounter
  <1>12. LapsAsDriven'
    <2> SUFFICES ASSUME NEW l \in Laps, shown'[l] # 0
                 PROVE  laps'[l] = shown'[l] \/ l \in missed' \cup unseen'
      BY DEF LapsAsDriven
    <2>1. CASE l \in Batch
      BY <1>8, <1>9, <2>1
    <2>2. CASE l \notin Batch
      <3>1. l < last /\ shown'[l] = time[l] /\ time[l] # 0
        BY <1>8, <2>2
      <3>2. time[l] = shown[l] \/ l \in unseen
        BY <3>1 DEF LapInv, BehindCounter
      <3> QED BY <1>1, <1>10, <2>2, <3>1, <3>2 DEF LapInv, LapsAsDriven
    <2> QED BY <2>1, <2>2
  <1>13. \A l \in Laps : laps[l] # 0 \/ l \in missed => laps'[l] # 0 \/ l \in missed'
    BY <1>5, <1>9, <1>10
  <1>14. BestHasRow' /\ BestNamesLap'
    <2>1. best # 0 => shown'[best] # 0
      BY <1>1, <1>3 DEF LapInv, Driven, Laps
    <2>2. best # 0 => laps'[best] # 0 \/ best \in missed'
      BY <1>3, <1>11, <2>1 DEF ShownHasRow
    <2>3. hand'.best = best /\ bests' = bests
      BY <1>1, <1>2
    <2> QED BY <1>3, <1>13, <2>2, <2>3 DEF LapInv, BestHasRow, BestNamesLap
  <1> QED BY <1>6, <1>7, <1>11, <1>12, <1>14 DEF LapInv

LEMMA OtherLaps ==
  ASSUME LapInv,
         \/ \E ok \in BOOLEAN : UpsertBests(ok) \/ UpsertStints(ok)
         \/ FinalClassification \/ Resolve \/ Restart \/ UNCHANGED vars
  PROVE  LapInv'
  <1>1. ASSUME NEW ok \in BOOLEAN, UpsertBests(ok)
        PROVE  LapInv'
    <2>1. /\ UNCHANGED <<num, time, last, hand, laps, shown, undone, unseen, missed>>
          /\ bests' = bests \/ bests' = hand.best
          /\ step = "bests" /\ step' # "bests"
      BY <1>1 DEF UpsertBests, UpsertedBests, AfterBests, gameVars
    <2> QED BY <2>1 DEF LapInv, Driven, BehindCounter, ShownHasRow, BestHasRow, LapsAsDriven,
                        BestNamesLap
  <1>2. CASE \/ \E ok \in BOOLEAN : UpsertStints(ok)
             \/ FinalClassification \/ Resolve \/ UNCHANGED vars
    <2>1. /\ UNCHANGED <<num, time, last, hand, laps, bests, shown, undone, unseen, missed>>
          /\ step' = step \/ step' = "none"
      BY <1>2 DEF UpsertStints, FinalClassification, Resolve, gameVars, memoryVars, packetVars,
                  tables, history, vars
    <2> QED BY <2>1 DEF LapInv, Driven, BehindCounter, ShownHasRow, BestHasRow, LapsAsDriven,
                        BestNamesLap
  <1>3. CASE Restart
    <2>1. /\ UNCHANGED <<num, time, hand, laps, bests, shown, undone, unseen, missed>>
          /\ last' = 0 /\ step' = "none"
      BY <1>3 DEF Restart, gameVars, tables, history
    <2> QED BY <2>1 DEF LapInv, Driven, BehindCounter, ShownHasRow, BestHasRow, LapsAsDriven,
                        BestNamesLap, Laps
  <1> QED BY <1>1, <1>2, <1>3

LEMMA StepLaps == ASSUME LapInv, [Next]_vars PROVE LapInv'
  BY GameLaps, UpsertLapsKeeps, OtherLaps DEF Next, SomeUpsert

(* The incremental capture loses a lap time in two ways only, for any      *)
(* number of laps and whatever is rewound, lost, failed or restarted.      *)
THEOREM LapsDriven == Spec => []LapsAsDriven
  <1>1. LapInv => LapsAsDriven
    BY DEF LapInv
  <1>2. LapInv /\ [Next]_vars => LapInv'
    BY StepLaps
  <1> QED BY <1>1, <1>2, InitLaps, PTL DEF Spec

(* The best lap can always be joined back to a row, unless its write       *)
(* failed.                                                                 *)
THEOREM BestsJoin == Spec => []BestNamesLap
  <1>1. LapInv => BestNamesLap
    BY DEF LapInv
  <1>2. LapInv /\ [Next]_vars => LapInv'
    BY StepLaps
  <1> QED BY <1>1, <1>2, InitLaps, PTL DEF Spec

-----------------------------------------------------------------------------
(* The cache holds the bests stored, but for a failed upsert; once the     *)
(* classification is in, the session is finished and so are its stints.    *)
CacheInv ==
  /\ hand.best \in Nat
  /\ cached # Unknown => bests = cached \/ bestsMissed
  /\ last # 0 /\ step # "bests" => cached = hand.best
  /\ last = 0 => step # "bests"

StintInv ==
  /\ num \in Laps
  /\ classified \/ step = "stints" \/ stints # NoRow => Finished
  /\ step = "stints" \/ (step = "bests" /\ classified) => hand.pit = pit
  /\ stints # NoRow => stints = pit

LEMMA StepCache == ASSUME LapInv, CacheInv, [Next]_vars PROVE CacheInv'
  <1>1. CASE (\E t \in Times : FinishLap(t)) \/ PitStop \/ (\E lap \in Laps : Flashback(lap))
    BY <1>1 DEF FinishLap, PitStop, Flashback, memoryVars, packetVars, tables, history, CacheInv
  <1>2. ASSUME NEW ok \in BOOLEAN, UpsertLaps(ok)
        PROVE  CacheInv'
    <2>1. /\ last' = num /\ step' = "bests" /\ num # 0
          /\ UNCHANGED <<cached, bests, bestsMissed>>
      BY <1>2 DEF UpsertLaps, CountedLaps, LapInv, Driven, Laps
    <2>2. hand'.best \in Nat
      BY <1>2 DEF UpsertLaps, BestLaps, Laps
    <2> QED BY <2>1, <2>2 DEF CacheInv
  <1>3. ASSUME NEW ok \in BOOLEAN, UpsertBests(ok)
        PROVE  CacheInv'
    <2>1. /\ cached' = hand.best /\ hand' = hand /\ last' = last /\ last # 0
          /\ step' # "bests"
          /\ IF hand.best = cached THEN bests' = bests /\ bestsMissed' = bestsMissed
             ELSE bestsMissed' = ~ok /\ (ok => bests' = hand.best)
      BY <1>3 DEF UpsertBests, UpsertedBests, SameBests, AfterBests, CacheInv
    <2>2. cached # Unknown \/ hand.best # cached
      BY DEF CacheInv, Unknown
    <2> QED BY <2>1, <2>2 DEF CacheInv
  <1>4. CASE \/ \E ok \in BOOLEAN : UpsertStints(ok)
             \/ FinalClassification \/ Resolve \/ UNCHANGED vars
    <2>1. /\ UNCHANGED <<hand, cached, bests, bestsMissed, last>>
          /\ step' = step \/ (step' = "none" /\ step # "bests")
      BY <1>4 DEF UpsertStints, FinalClassification, Resolve, gameVars, memoryVars, packetVars,
                  tables, history, vars
    <2> QED BY <2>1 DEF CacheInv
  <1>5. CASE Restart
    BY <1>5 DEF Restart, tables, history, CacheInv
  <1> QED BY <1>1, <1>2, <1>3, <1>4, <1>5 DEF Next, SomeUpsert

LEMMA StepStint == ASSUME LapInv, StintInv, [Next]_vars PROVE StintInv'
  <1>0. num' \in Laps
    BY StepLaps DEF LapInv, Driven
  <1>1. ASSUME NEW t \in Times, FinishLap(t)
        PROVE  StintInv'
    <2>1. /\ UNCHANGED <<classified, step, hand, stints, pit>>
          /\ time[num] = 0 /\ time' = [time EXCEPT ![num] = t]
      BY <1>1 DEF FinishLap, memoryVars, packetVars, tables
    <2>2. Finished => Finished'
      BY <2>1 DEF Finished, LapInv, Driven, Laps
    <2> QED BY <1>0, <2>1, <2>2 DEF StintInv
  <1>2. CASE PitStop \/ \E lap \in Laps : Flashback(lap)
    <2>1. ~Finished /\ UNCHANGED <<classified, step, hand, stints>>
      BY <1>2 DEF PitStop, Flashback, memoryVars, packetVars, tables
    <2> QED BY <1>0, <2>1 DEF StintInv
  <1>3. ASSUME NEW ok \in BOOLEAN, UpsertLaps(ok)
        PROVE  StintInv'
    <2>1. /\ UNCHANGED <<classified, stints, pit, time>> /\ step' = "bests" /\ hand'.pit = pit
      BY <1>3 DEF UpsertLaps, gameVars
    <2> QED BY <1>0, <2>1 DEF StintInv, Finished
  <1>4. ASSUME NEW ok \in BOOLEAN, UpsertBests(ok)
        PROVE  StintInv'
    <2>1. /\ UNCHANGED <<classified, stints, pit, time, hand>> /\ step = "bests"
          /\ step' = IF classified THEN "stints" ELSE "none"
      BY <1>4 DEF UpsertBests, gameVars, AfterBests, StintsAreDue
    <2> QED BY <1>0, <2>1 DEF StintInv, Finished
  <1>5. ASSUME NEW ok \in BOOLEAN, UpsertStints(ok)
        PROVE  StintInv'
    BY <1>0, <1>5 DEF UpsertStints, UpsertedStints, gameVars, memoryVars, StintInv, Finished
  <1>6. CASE FinalClassification
    BY <1>0, <1>6 DEF FinalClassification, gameVars, packetVars, tables, StintInv, Finished
  <1>7. CASE Resolve \/ Restart \/ UNCHANGED vars
    BY <1>0, <1>7 DEF Resolve, Restart, vars, gameVars, packetVars, tables, StintInv, Finished
  <1> QED BY <1>1, <1>2, <1>3, <1>4, <1>5, <1>6, <1>7 DEF Next, SomeUpsert

(* The bests stored are those of the last packet, or their upsert failed:  *)
(* skipping the packets that repeat them loses none.                       *)
THEOREM BestsShown == Spec => []BestsAsShown
  <1>1. Init => LapInv /\ CacheInv
    BY InitLaps DEF Init, CacheInv, Unknown
  <1>2. LapInv /\ CacheInv /\ [Next]_vars => LapInv' /\ CacheInv'
    BY StepLaps, StepCache
  <1>3. CacheInv => BestsAsShown
    BY DEF CacheInv, BestsAsShown, Unknown
  <1> QED BY <1>1, <1>2, <1>3, PTL DEF Spec

(* No stint is stored that a flashback could still undo. *)
THEOREM StintsAreFinal == Spec => []StintsFinal
  <1>1. Init => LapInv /\ StintInv
    BY InitLaps DEF Init, StintInv, Laps
  <1>2. LapInv /\ StintInv /\ [Next]_vars => LapInv' /\ StintInv'
    BY StepLaps, StepStint
  <1>3. StintInv => StintsFinal
    BY DEF StintInv, StintsFinal
  <1> QED BY <1>1, <1>2, <1>3, PTL DEF Spec
-----------------------------------------------------------------------------
LEMMA InitTypeOK == ASSUME Init PROVE TypeOK
  <1>1. /\ num \in Laps /\ last \in 0..MaxLap /\ bests \in 0..MaxLap /\ pit \in 0..num
        /\ \A l \in Laps : ~(l < num)
    BY DEF Init, Laps
  <1>2. time \in [Laps -> Times \cup {0}] /\ laps \in [Laps -> Times \cup {0}]
    BY DEF Init, NoTimes
  <1>3. hand \in [best : 0..MaxLap, pit : 0..MaxLap]
    BY DEF Init
  <1>4. ready \in BOOLEAN /\ classified \in BOOLEAN
    BY DEF Init
  <1> QED BY <1>1, <1>2, <1>3, <1>4 DEF Init, TypeOK

LEMMA BestIsLap == ASSUME NEW best \in BestLaps PROVE best \in 0..MaxLap
  BY DEF BestLaps, Laps

LEMMA StepTypeOK == ASSUME TypeOK, [Next]_vars PROVE TypeOK'
  <1>1. ASSUME NEW t \in Times, FinishLap(t)
        PROVE  TypeOK'
    <2>1. /\ time' = [time EXCEPT ![num] = t] /\ t # 0
          /\ num' = IF num < MaxLap THEN num + 1 ELSE num
          /\ UNCHANGED <<pit, memoryVars, packetVars, tables>>
      BY <1>1 DEF FinishLap
    <2>2. /\ num' \in Laps /\ num' >= num /\ num' <= num + 1
          /\ time' \in [Laps -> Times \cup {0}]
          /\ \A l \in Laps : l < num' => time'[l] # 0
      BY <2>1 DEF TypeOK, Laps
    <2>3. pit' \in 0..num'
      BY <2>1, <2>2 DEF TypeOK, Laps
    <2> QED BY <2>1, <2>2, <2>3 DEF TypeOK, memoryVars, packetVars, tables
  <1>2. CASE PitStop
    BY <1>2 DEF PitStop, memoryVars, packetVars, tables, TypeOK, Laps
  <1>3. ASSUME NEW lap \in Laps, Flashback(lap)
        PROVE  TypeOK'
    <2>1. /\ lap < num /\ num' = lap
          /\ time' = [l \in Laps |-> IF l < lap THEN time[l] ELSE 0]
          /\ pit' \in (IF pit < lap THEN {pit} ELSE IF pit = lap THEN {pit, 0} ELSE {0})
          /\ UNCHANGED <<memoryVars, packetVars, tables>>
      BY <1>3 DEF Flashback
    <2>2. pit' \in 0..num'
      BY <2>1 DEF TypeOK, Laps
    <2> QED BY <2>1, <2>2 DEF TypeOK, memoryVars, packetVars, tables, Laps
  <1>4. ASSUME NEW ok \in BOOLEAN, UpsertLaps(ok)
        PROVE  TypeOK'
    <2>1. /\ ready /\ step' = "bests" /\ last' = num
          /\ laps' = IF ok THEN [l \in Laps |-> IF l \in Batch THEN time[l] ELSE laps[l]] ELSE laps
          /\ UNCHANGED <<num, time, pit, ready, cached, classified, bests, stints>>
      BY <1>4 DEF UpsertLaps, UpsertedLaps, CountedLaps, gameVars
    <2>2. PICK best \in BestLaps : hand' = [best |-> best, pit |-> pit]
      BY <1>4 DEF UpsertLaps
    <2>3. hand' \in [best : 0..MaxLap, pit : 0..MaxLap]
      BY <2>2, BestIsLap DEF TypeOK, Laps
    <2>4. laps' \in [Laps -> Times \cup {0}]
      BY <2>1 DEF TypeOK
    <2> QED BY <2>1, <2>3, <2>4 DEF TypeOK, Laps
  <1>5. ASSUME NEW ok \in BOOLEAN, UpsertBests(ok)
        PROVE  TypeOK'
    BY <1>5 DEF UpsertBests, UpsertedBests, AfterBests, gameVars, TypeOK, Unknown
  <1>6. ASSUME NEW ok \in BOOLEAN, UpsertStints(ok)
        PROVE  TypeOK'
    BY <1>6 DEF UpsertStints, UpsertedStints, gameVars, memoryVars, TypeOK
  <1>7. CASE FinalClassification \/ Resolve
    BY <1>7 DEF FinalClassification, Resolve, gameVars, packetVars, tables, TypeOK
  <1>8. CASE Restart
    <2>1. ready' \in BOOLEAN /\ classified' \in BOOLEAN
      BY <1>8 DEF Restart
    <2> QED BY <1>8, <2>1 DEF Restart, gameVars, tables, TypeOK
  <1>9. CASE UNCHANGED vars
    BY <1>9 DEF vars, TypeOK
  <1> QED BY <1>1, <1>2, <1>3, <1>4, <1>5, <1>6, <1>7, <1>8, <1>9 DEF Next, SomeUpsert

(* Every variable keeps its type; a packet is in hand only while its       *)
(* driver is known, and the counter never runs ahead of the bests' cache:  *)
(* a process that has counted a packet has its bests cached or next.       *)
THEOREM TypeCorrect == Spec => []TypeOK
  BY InitTypeOK, StepTypeOK, PTL DEF Spec
=============================================================================
