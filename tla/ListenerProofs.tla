--------------------------- MODULE ListenerProofs ---------------------------
(***************************************************************************)
(* Proofs about Listener for sessions of any length, any kinds of packet   *)
(* and any number of flashbacks, restarts and crashes.                     *)
(***************************************************************************)
EXTENDS Listener, FiniteInduction

USE ListenerAssumption

TickRecord == [time : Nat, lap : 1..MaxLap, formation : BOOLEAN]

(* The game.  A run that is still on the formation lap has nothing else    *)
(* behind it; and the start signal and lap 2 are different ticks, so no    *)
(* datagram of the formation lap arrives once a car is on a racing lap.    *)
(* An FLBK names what was undone of the ticks driven before it.            *)
Rewound ==
  /\ rewinds \subseteq [to : Nat, at : 1..Tick]
  /\ \A flbk \in rewinds : \A n \in 1..flbk.at : log[n].time > flbk.to => n \in undone

GameInv ==
  /\ kind \in SessionKinds /\ Rewound
  /\ log \in Seq(TickRecord) /\ Tick \in Ticks
  /\ undone \subseteq 2..Tick
  /\ log[1].time = 0
  /\ \A n \in 1..Tick : /\ log[n].time < n
                        /\ log[n].lap <= log[n].time + 1
                        /\ log[n].formation => log[n].lap = 1 /\ kind = "race"
  /\ log[Newest].formation => \A k \in 1..Tick : log[k].formation
  /\ \A m \in Alive, k \in 1..Tick :
       log[m].formation /\ ~log[k].formation
         => k > m /\ (RacingLap(log[k].lap) => k > m + 1)

(* The process: what the gates stand for. *)
MemoryInv ==
  /\ gate \in {"unknown", "known", "excluded"}
  /\ seen \in BOOLEAN /\ mapped \in BOOLEAN
  /\ anchor \in Nat \cup {None}
  /\ started \in {"unset", "no", "yes"}
  /\ lastLap \in 0..MaxLap
  /\ gate = "known" => seen /\ started # "unset"
  /\ seen => anchor # None

(* The buffer.  With a frame of the formation lap in it there is none of a *)
(* racing lap, so the backstop cannot start the race over that frame.      *)
BufferInv ==
  /\ FB!BufferTypeOK
  /\ frameOrder \in Seq({Uid}) /\ currentOrder \in Seq({Uid})
  /\ FB!Held(Uid) \subseteq 1..Tick
  /\ ~mapped => FB!Held(Uid) = {}
  /\ \A m, k \in FB!Held(Uid) :
       m \in Alive /\ log[m].formation => ~RacingLap(log[k].lap)

(* The start of the race, as the process knows it. *)
StartInv ==
  /\ grace \subseteq Ticks
  /\ log[Newest].formation => grace = {}
  /\ started = "yes" /\ kind = "race" => ~log[Newest].formation
  /\ started = "yes" => \A m \in FB!Held(Uid) \cup Arriving :
                          log[m].formation => m \in grace \cup undone

(* A state of the database, now or as a crash would leave it.  An undone   *)
(* frame is in the buffer only if its datagram came after the DELETE.      *)
Stored(start, store, laps, gone) ==
  /\ start \in Nat \cup {None}
  /\ store \subseteq [table : FrameTables, frame : 1..Tick, ts : Nat]
  /\ start = None => store = {}
  /\ laps \subseteq 1..MaxLap
  /\ \A lap \in laps : \E n \in 1..Tick : log[n].lap > lap /\ ~log[n].formation
  /\ \A r \in store :
       log[r.frame].formation /\ r.table # "car_frame_motion_ex"
         => r.frame \in grace \cup undone
  /\ gone \in [FrameTables -> SUBSET undone]
  /\ \A t \in FrameTables : gone[t] \cap FB!Held(Uid) \subseteq overtaken

(* A crash may bring rows back, and takes back no more than DELETEs. *)
HistoryInv ==
  /\ overtaken \subseteq Ticks
  /\ \A t \in FrameTables : durable.erased[t] \subseteq erased[t]

ListenerInv ==
  /\ GameInv /\ MemoryInv /\ BufferInv /\ StartInv /\ HistoryInv
  /\ Stored(storedAnchor, rows, lapRows, erased)
  /\ Stored(durable.anchor, durable.rows, durable.lapRows, durable.erased)

(* With the anchor read back whenever it is stored, the process, the       *)
(* database and the database after a crash agree on it.                    *)
Anchored(start, store, gone) ==
  \A r \in store : /\ r.ts = start + log[r.frame].time
                   /\ r.frame \in gone[r.table] => r.frame \in overtaken

AnchorInv ==
  /\ anchor # None /\ storedAnchor # None => anchor = storedAnchor
  /\ durable.anchor # None => storedAnchor = durable.anchor
  /\ Anchored(storedAnchor, rows, erased)
  /\ Anchored(durable.anchor, durable.rows, durable.erased)

-----------------------------------------------------------------------------
(* The game *)

(* The newest tick of the standing run is the greatest. *)
LEMMA GreatestTick ==
  ASSUME NEW T \in Nat \ {0}, NEW U \in SUBSET (2..T), NEW top,
         top = CHOOSE n \in (1..T) \ U : \A m \in (1..T) \ U : m <= n
  PROVE  top \in (1..T) \ U /\ \A m \in (1..T) \ U : m <= top
<1> DEFINE A == (1..T) \ U
<1>1. A \in SUBSET Nat /\ 1 \in A
  OBVIOUS
<1>2. IsFiniteSet(A)
  <2>1. IsFiniteSet(1..T)
    BY FS_Interval
  <2>2. QED
    BY <2>1, FS_Subset
<1>3. \E m \in A : \A x \in A : m >= x
  BY <1>1, <1>2, GreatestExists
<1>4. \E n \in A : \A m \in A : m <= n
  BY <1>1, <1>3
<1>5. QED
  BY <1>4

LEMMA NewestAlive ==
  ASSUME GameInv
  PROVE  /\ Tick \in Nat \ {0} /\ Newest \in Alive /\ Newest \in 1..Tick
         /\ \A m \in Alive : m <= Newest
         /\ Alive \subseteq 1..Tick
<1>1. Tick \in Nat \ {0} /\ undone \in SUBSET (2..Tick)
  BY DEF GameInv, Ticks
<1>2. Newest = CHOOSE n \in (1..Tick) \ undone : \A m \in (1..Tick) \ undone : m <= n
  BY DEF Newest, Alive
<1>3. Newest \in (1..Tick) \ undone /\ \A m \in (1..Tick) \ undone : m <= Newest
  BY <1>1, <1>2, GreatestTick
<1>4. QED
  BY <1>1, <1>3 DEF Alive

LEMMA NewestAliveNext ==
  ASSUME Tick' \in Nat \ {0}, undone' \in SUBSET (2..Tick')
  PROVE  Newest' \in Alive' /\ \A m \in Alive' : m <= Newest'
<1>1. Newest' = CHOOSE n \in (1..Tick') \ undone' : \A m \in (1..Tick') \ undone' : m <= n
  BY DEF Newest, Alive
<1>2. Newest' \in (1..Tick') \ undone' /\ \A m \in (1..Tick') \ undone' : m <= Newest'
  BY <1>1, GreatestTick
<1>3. QED
  BY <1>2 DEF Alive

(* What a tick of the log is. *)
LEMMA LogTick ==
  ASSUME GameInv, NEW n \in 1..Tick
  PROVE  /\ log[n] \in TickRecord
         /\ log[n].time \in Nat /\ log[n].lap \in 1..MaxLap /\ log[n].formation \in BOOLEAN
         /\ n \in Nat /\ MaxLap \in Nat
         /\ log[n].time < n
         /\ log[n].formation => ~RacingLap(log[n].lap)
         /\ RacingLap(log[n].lap) => log[n].time >= 1
<1>1. log[n] \in TickRecord /\ n \in Nat /\ MaxLap \in Nat
  BY DEF GameInv, Tick
<1>2. log[n].time \in Nat /\ log[n].lap \in 1..MaxLap /\ log[n].formation \in BOOLEAN
  BY <1>1 DEF TickRecord
<1>3. log[n].time < n /\ log[n].lap <= log[n].time + 1 /\ (log[n].formation => log[n].lap = 1)
  BY DEF GameInv
<1>4. QED
  BY <1>1, <1>2, <1>3 DEF RacingLap

LEMMA RewoundStays ==
  ASSUME Rewound, Tick \in Nat, Tick' \in Nat, Tick <= Tick',
         UNCHANGED rewinds, undone \subseteq undone',
         \A n \in 1..Tick : log'[n].time = log[n].time
  PROVE  Rewound'
<1>1. 1..Tick \subseteq 1..Tick'
  OBVIOUS
<1>2. rewinds' \subseteq [to : Nat, at : 1..Tick']
  BY <1>1 DEF Rewound
<1>3. ASSUME NEW flbk \in rewinds, NEW n \in 1..flbk.at, log'[n].time > flbk.to
      PROVE  n \in undone'
  <2>1. flbk.at \in 1..Tick
    BY DEF Rewound
  <2>2. n \in 1..Tick
    BY <2>1
  <2>3. QED
    BY <1>3, <2>2 DEF Rewound
<1>4. QED
  BY <1>2, <1>3 DEF Rewound

LEMMA InitGame == Init => GameInv
<1> SUFFICES ASSUME Init PROVE GameInv
  OBVIOUS
<1> DEFINE first == [time |-> 0, lap |-> 1, formation |-> kind = "race"]
<1>1. first \in TickRecord
  BY DEF TickRecord
<1>2. log = <<first>> /\ undone = {} /\ kind \in SessionKinds /\ rewinds = {}
  BY DEF Init
<1> HIDE DEF first
<1>3. log \in Seq(TickRecord) /\ Tick = 1 /\ log[1] = first
  BY <1>1, <1>2 DEF Tick
<1>4. Tick \in Ticks /\ undone \subseteq 2..Tick
  BY <1>2, <1>3 DEF Ticks
<1>5. log[1].time = 0 /\ log[1].lap = 1 /\ (log[1].formation => kind = "race")
  <2>1. first.time = 0 /\ first.lap = 1 /\ first.formation = (kind = "race")
    BY DEF first
  <2>2. log[1].formation = (kind = "race")
    BY <1>3, <2>1
  <2>3. QED
    BY <1>3, <2>1, <2>2
<1>6. \A n \in 1..Tick : n = 1
  BY <1>3
<1>7. Newest \in Alive
  <2>1. Tick \in Nat \ {0} /\ undone \in SUBSET (2..Tick)
    BY <1>3, <1>4
  <2>2. Newest = CHOOSE n \in (1..Tick) \ undone : \A m \in (1..Tick) \ undone : m <= n
    BY DEF Newest, Alive
  <2>3. QED
    BY <2>1, <2>2, GreatestTick DEF Alive
<1>8. Newest = 1
  BY <1>6, <1>7 DEF Alive
<1>9. Rewound
  BY <1>2 DEF Rewound
<1>10. QED
  BY <1>2, <1>3, <1>4, <1>5, <1>6, <1>8, <1>9 DEF GameInv, Alive

(* A tick goes on from the newest one (the game). *)
LEMMA GameTickGame ==
  ASSUME GameInv, GameTick
  PROVE  /\ GameInv'
         /\ Tick' = Tick + 1 /\ Newest' = Tick + 1
         /\ \A n \in 1..Tick : log'[n] = log[n]
         /\ log'[Tick + 1].formation = log[Newest].formation
<1>1. Tick \in Nat \ {0} /\ Newest \in 1..Tick /\ Newest \in Alive
  BY NewestAlive
<1>2. log[Newest] \in TickRecord /\ log[Newest].time \in Nat /\ log[Newest].lap \in 1..MaxLap
      /\ log[Newest].formation \in BOOLEAN /\ log[Newest].time < Newest
  BY <1>1, LogTick
<1>3. PICK more \in {0, 1} :
        /\ log[Newest].formation => more = 0
        /\ log[Newest].lap + more <= MaxLap
        /\ log' = Append(log, [time |-> log[Newest].time + 1,
                               lap |-> log[Newest].lap + more,
                               formation |-> log[Newest].formation])
  BY DEF GameTick
<1> DEFINE next == [time |-> log[Newest].time + 1, lap |-> log[Newest].lap + more,
                    formation |-> log[Newest].formation]
<1>4. next \in TickRecord
  BY <1>2, <1>3 DEF TickRecord
<1>5. /\ next.time = log[Newest].time + 1 /\ next.lap = log[Newest].lap + more
      /\ next.formation = log[Newest].formation
  OBVIOUS
<1>6. log' = Append(log, next) /\ log \in Seq(TickRecord)
  BY <1>3 DEF GameInv
<1> HIDE DEF next
<1>7. /\ log' \in Seq(TickRecord) /\ Tick' = Tick + 1 /\ log'[Tick + 1] = next
      /\ \A n \in 1..Tick : log'[n] = log[n]
  BY <1>4, <1>6 DEF Tick
<1>8. UNCHANGED <<kind, undone, rewinds>> /\ Tick < MaxTick
  BY DEF GameTick
<1>9. Tick' \in Ticks /\ undone' \subseteq 2..Tick /\ undone' \subseteq 2..Tick'
  BY <1>1, <1>7, <1>8 DEF GameInv, Ticks
<1>10. \A k : k \in 1..Tick' <=> k \in 1..Tick \/ k = Tick + 1
  BY <1>1, <1>7
<1>11. \A m : m \in Alive' <=> m \in Alive \/ m = Tick + 1
  BY <1>1, <1>8, <1>9, <1>10 DEF Alive
<1>12. Newest' = Tick + 1
  <2>1. Newest' \in Alive' /\ \A m \in Alive' : m <= Newest'
    BY <1>1, <1>7, <1>9, NewestAliveNext
  <2>2. Newest' \in 1..Tick' /\ Newest' >= Tick + 1
    BY <1>11, <2>1 DEF Alive
  <2>3. QED
    BY <1>1, <1>7, <2>2
<1>13. log'[1].time = 0
  BY <1>1, <1>7 DEF GameInv
<1>14. \A n \in 1..Tick' : /\ log'[n].time < n
                           /\ log'[n].lap <= log'[n].time + 1
                           /\ log'[n].formation => log'[n].lap = 1 /\ kind' = "race"
  <2>1. ASSUME NEW n \in 1..Tick
        PROVE  /\ log'[n].time < n
               /\ log'[n].lap <= log'[n].time + 1
               /\ log'[n].formation => log'[n].lap = 1 /\ kind' = "race"
    BY <1>7, <1>8 DEF GameInv
  <2>2. /\ log[Newest].lap <= log[Newest].time + 1
        /\ log[Newest].formation => log[Newest].lap = 1 /\ kind = "race"
    BY <1>1 DEF GameInv
  <2>3. /\ next.time < Tick + 1
        /\ next.lap <= next.time + 1
        /\ next.formation => next.lap = 1 /\ kind' = "race"
    <3>1. next.time < Tick + 1
      BY <1>1, <1>2, <1>5
    <3>2. next.lap <= next.time + 1
      <4>1. more \in Nat /\ more <= 1
        OBVIOUS
      <4>2. log[Newest].lap \in Nat /\ log[Newest].time \in Nat
        BY <1>2
      <4>3. log[Newest].lap + more <= (log[Newest].time + 1) + 1
        BY <2>2, <4>1, <4>2
      <4>4. QED
        BY <1>5, <4>3
    <3>3. next.formation => next.lap = 1 /\ kind' = "race"
      <4>1. SUFFICES ASSUME next.formation PROVE next.lap = 1 /\ kind' = "race"
        OBVIOUS
      <4>2. log[Newest].formation
        BY <1>5, <4>1
      <4>3. more = 0 /\ log[Newest].lap = 1 /\ kind = "race"
        BY <1>3, <2>2, <4>2
      <4>4. QED
        BY <1>5, <1>8, <4>3
    <3>4. QED
      BY <3>1, <3>2, <3>3
  <2>4. QED
    BY <1>7, <1>10, <2>1, <2>3
<1>15. log'[Newest'].formation => \A k \in 1..Tick' : log'[k].formation
  BY <1>5, <1>7, <1>10, <1>12 DEF GameInv
<1>16. ASSUME NEW m \in Alive', NEW k \in 1..Tick', log'[m].formation, ~log'[k].formation
       PROVE  k > m /\ (RacingLap(log'[k].lap) => k > m + 1)
  <2>1. ~log[Newest].formation
    BY <1>5, <1>7, <1>10, <1>16 DEF GameInv
  <2>2. m \in Alive /\ m # Newest
    BY <1>5, <1>7, <1>11, <1>16, <2>1, <1>1 DEF Alive
  <2>3. m < Newest /\ m \in 1..Tick /\ Newest <= Tick
    BY <1>1, <2>2, NewestAlive
  <2>4. CASE k \in 1..Tick
    BY <1>7, <1>16, <2>2, <2>3, <2>4 DEF GameInv
  <2>5. CASE k = Tick + 1
    BY <1>1, <2>3, <2>5
  <2>6. QED
    BY <1>10, <2>4, <2>5
<1>17. Rewound'
  <2>1. Rewound /\ Tick \in Nat /\ Tick' \in Nat /\ Tick <= Tick'
    BY <1>1, <1>7 DEF GameInv
  <2>2. QED
    BY <1>7, <1>8, <2>1, RewoundStays
<1>18. GameInv'
  BY <1>7, <1>8, <1>9, <1>13, <1>14, <1>15, <1>16, <1>17 DEF GameInv
<1>19. QED
  BY <1>5, <1>7, <1>12, <1>18

LEMMA SameGame ==
  ASSUME GameInv, UNCHANGED gameVars
  PROVE  /\ GameInv'
         /\ Tick' = Tick /\ Newest' = Newest /\ Alive' = Alive /\ Arriving' = Arriving
<1>1. log' = log /\ undone' = undone /\ kind' = kind /\ rewinds' = rewinds
  BY DEF gameVars
<1>2. Tick' = Tick
  BY <1>1 DEF Tick
<1>3. Alive' = Alive
  BY <1>1, <1>2 DEF Alive
<1>4. Newest' = Newest
  BY <1>3 DEF Newest
<1>5. Arriving' = Arriving
  BY <1>2 DEF Arriving, InTheAir
<1>6. GameInv'
  BY <1>1, <1>2, <1>3, <1>4 DEF GameInv, Rewound
<1>7. QED
  BY <1>2, <1>3, <1>4, <1>5, <1>6

(* The race starts at the newest tick. *)
LEMMA StartSignalGame ==
  ASSUME GameInv, NEW heard \in BOOLEAN, StartSignal(heard)
  PROVE  /\ GameInv'
         /\ Tick' = Tick /\ Newest' = Newest /\ Alive' = Alive /\ Arriving' = Arriving
         /\ ~log'[Newest].formation
         /\ \A n \in 1..Tick : /\ log'[n].time = log[n].time
                               /\ log'[n].lap = log[n].lap
                               /\ n # Newest => log'[n].formation = log[n].formation
<1>1. Newest \in 1..Tick /\ Newest \in Alive /\ Tick \in Nat \ {0} /\ Alive \subseteq 1..Tick
      /\ \A m \in Alive : m <= Newest
  BY NewestAlive
<1>2. log' = [log EXCEPT ![Newest].formation = FALSE] /\ log \in Seq(TickRecord)
      /\ UNCHANGED <<kind, undone, rewinds>> /\ log[Newest].formation
  BY DEF StartSignal, GameInv
<1>3. \A n \in 1..Tick : log[n] \in TickRecord
  BY LogTick
<1>4. log' \in Seq(TickRecord) /\ Tick' = Tick
      /\ \A n \in 1..Tick : log'[n] = IF n = Newest THEN [log[n] EXCEPT !.formation = FALSE]
                                      ELSE log[n]
  <2> DEFINE flipped == [log[Newest] EXCEPT !.formation = FALSE]
  <2>1. flipped \in TickRecord
    BY <1>1, <1>3 DEF TickRecord
  <2>2. log' = [log EXCEPT ![Newest] = flipped]
    BY <1>2
  <2> HIDE DEF flipped
  <2>3. log' = [n \in 1..Tick |-> IF n = Newest THEN flipped ELSE log[n]]
    <3>1. DOMAIN log = 1..Tick
      BY <1>2 DEF Tick
    <3>2. log' = [n \in DOMAIN log |-> IF n = Newest THEN flipped ELSE log[n]]
      BY <2>2, Zenon
    <3>3. QED
      BY <3>1, <3>2, Zenon
  <2>4. log' \in Seq(TickRecord) /\ Len(log') = Tick
    BY <1>1, <1>3, <2>1, <2>3
  <2>5. Tick' = Tick
    BY <2>4 DEF Tick
  <2>6. QED
    BY <2>3, <2>4, <2>5 DEF flipped
<1>5. ASSUME NEW n \in 1..Tick
      PROVE  /\ log'[n].time = log[n].time
             /\ log'[n].lap = log[n].lap
             /\ n # Newest => log'[n].formation = log[n].formation
             /\ n = Newest => ~log'[n].formation
  <2>1. log[n] \in TickRecord
    BY <1>3
  <2>2. CASE n = Newest
    <3>1. log'[n] = [log[n] EXCEPT !.formation = FALSE]
      BY <1>4, <2>2
    <3>2. QED
      BY <2>1, <2>2, <3>1 DEF TickRecord
  <2>3. CASE n # Newest
    BY <1>4, <2>3
  <2>4. QED
    BY <2>2, <2>3
<1>6. Alive' = Alive /\ undone' = undone /\ kind' = kind
  BY <1>2, <1>4 DEF Alive
<1>7. Newest' = Newest /\ Arriving' = Arriving
  BY <1>4, <1>6 DEF Newest, Arriving, InTheAir
<1>8. ~log'[Newest].formation
  BY <1>1, <1>5
<1>9. \A k \in 1..Tick : log[k].formation
  BY <1>2 DEF GameInv
<1>10. \A n \in 1..Tick : /\ log'[n].time < n
                          /\ log'[n].lap <= log'[n].time + 1
                          /\ log'[n].formation => log'[n].lap = 1 /\ kind' = "race"
  <2> SUFFICES ASSUME NEW n \in 1..Tick
               PROVE  /\ log'[n].time < n
                      /\ log'[n].lap <= log'[n].time + 1
                      /\ log'[n].formation => log'[n].lap = 1 /\ kind' = "race"
    OBVIOUS
  <2>1. /\ log[n].time < n /\ log[n].lap <= log[n].time + 1
        /\ log[n].lap = 1 /\ kind = "race"
    BY <1>9 DEF GameInv
  <2>2. QED
    BY <1>5, <1>6, <2>1
<1>11. ASSUME NEW m \in Alive, NEW k \in 1..Tick, log'[m].formation, ~log'[k].formation
       PROVE  k > m /\ (RacingLap(log'[k].lap) => k > m + 1)
  <2>1. k = Newest
    BY <1>5, <1>9, <1>11
  <2>2. m < k /\ m \in 1..Tick
    BY <1>1, <1>8, <1>11, <2>1
  <2>3. ~RacingLap(log'[k].lap)
    BY <1>5, <1>9, LogTick
  <2>4. QED
    BY <2>2, <2>3
<1>12. log'[1].time = 0
  BY <1>1, <1>5 DEF GameInv
<1>13. Tick \in Ticks /\ undone' \subseteq 2..Tick /\ kind' \in SessionKinds
  BY <1>6 DEF GameInv
<1>14. Rewound'
  <2>1. Rewound /\ Tick \in Nat /\ Tick' \in Nat /\ Tick <= Tick'
    BY <1>1, <1>4 DEF GameInv
  <2>2. QED
    BY <1>2, <1>5, <1>6, <2>1, RewoundStays
<1>15. GameInv'
  BY <1>4, <1>6, <1>7, <1>8, <1>10, <1>11, <1>12, <1>13, <1>14 DEF GameInv
<1>16. QED
  BY <1>4, <1>5, <1>6, <1>7, <1>8, <1>15

(* The driver rewinds: the run that stands is shorter, the log is as it was. *)
LEMMA RewindGame ==
  ASSUME GameInv, NEW back \in Ticks, Rewind(back)
  PROVE  /\ GameInv'
         /\ log' = log /\ kind' = kind /\ Tick' = Tick
         /\ Alive' \subseteq Alive /\ Arriving' = Arriving
         /\ undone \subseteq undone' /\ undone' \subseteq 1..Tick
         /\ log'[Newest'].formation <=> log[Newest].formation
<1> DEFINE newly == {n \in Alive : log[n].time > log[back].time}
<1>1. Newest \in 1..Tick /\ Newest \in Alive /\ Tick \in Nat \ {0} /\ Alive \subseteq 1..Tick
      /\ \A m \in Alive : m <= Newest
  BY NewestAlive
<1>2. /\ back \in Alive /\ undone' = undone \cup newly
      /\ log[back].formation <=> log[Newest].formation
      /\ log' = log /\ kind' = kind
      /\ rewinds' = rewinds \cup {[to |-> log[back].time, at |-> Tick]}
  BY DEF Rewind
<1>3. Tick' = Tick /\ undone \subseteq 2..Tick /\ log[1].time = 0
  BY <1>2 DEF Tick, GameInv
<1>4. back \in 1..Tick /\ log[back].time \in Nat
  BY <1>1, <1>2, LogTick
<1>5. newly \subseteq 2..Tick
  <2> SUFFICES ASSUME NEW n \in newly PROVE n \in 2..Tick
    OBVIOUS
  <2>1. n \in 1..Tick /\ log[n].time > log[back].time
    BY <1>1
  <2>2. n # 1
    BY <1>3, <1>4, <2>1
  <2>3. QED
    BY <2>1, <2>2
<1>6. undone' \subseteq 2..Tick
  BY <1>2, <1>3, <1>5
<1>7. Alive' = Alive \ newly
  BY <1>2, <1>3 DEF Alive
<1>8. back \in Alive'
  BY <1>2, <1>4, <1>7
<1>9. Newest' \in Alive' /\ \A m \in Alive' : m <= Newest'
  BY <1>1, <1>3, <1>6, NewestAliveNext
<1>10. log[Newest'].formation <=> log[Newest].formation
  <2>1. CASE log[Newest].formation
    <3>1. Newest' \in 1..Tick
      BY <1>1, <1>7, <1>9
    <3>2. QED
      BY <2>1, <3>1 DEF GameInv
  <2>2. CASE ~log[Newest].formation
    <3> SUFFICES ASSUME log[Newest'].formation PROVE FALSE
      BY <2>2
    <3>1. back > Newest'
      BY <1>2, <1>4, <1>7, <1>9, <2>2 DEF GameInv
    <3>2. back <= Newest' /\ Newest' \in 1..Tick
      BY <1>1, <1>7, <1>8, <1>9
    <3>3. QED
      BY <1>4, <3>1, <3>2
  <2>3. QED
    BY <2>1, <2>2
<1>11. log'[Newest'].formation => \A k \in 1..Tick' : log'[k].formation
  BY <1>2, <1>3, <1>10 DEF GameInv
<1>12. \A m \in Alive', k \in 1..Tick' :
         log'[m].formation /\ ~log'[k].formation
           => k > m /\ (RacingLap(log'[k].lap) => k > m + 1)
  BY <1>2, <1>3, <1>7 DEF GameInv
<1>13. Rewound'
  <2>1. \A n \in 1..Tick : log[n].time > log[back].time => n \in undone'
    BY <1>2 DEF Alive
  <2>2. rewinds' \subseteq [to : Nat, at : 1..Tick']
    <3>1. [to |-> log[back].time, at |-> Tick] \in [to : Nat, at : 1..Tick']
      BY <1>1, <1>3, <1>4
    <3>2. QED
      BY <1>2, <1>3, <3>1 DEF GameInv, Rewound
  <2>3. ASSUME NEW flbk \in rewinds', NEW n \in 1..flbk.at, log'[n].time > flbk.to
        PROVE  n \in undone'
    <3>1. CASE flbk \in rewinds
      BY <1>2, <2>3, <3>1 DEF GameInv, Rewound
    <3>2. CASE flbk = [to |-> log[back].time, at |-> Tick]
      BY <1>2, <2>1, <2>3, <3>2
    <3>3. QED
      BY <1>2, <3>1, <3>2
  <2>4. QED
    BY <2>2, <2>3 DEF Rewound
<1>14. GameInv'
  BY <1>2, <1>3, <1>6, <1>11, <1>12, <1>13 DEF GameInv
<1>15. Arriving' = Arriving
  BY <1>3 DEF Arriving, InTheAir
<1>16. undone' \subseteq 1..Tick
  BY <1>6
<1>17. QED
  BY <1>2, <1>3, <1>7, <1>10, <1>14, <1>15, <1>16

-----------------------------------------------------------------------------
(* The buffer, with one session in it *)

(* The keys of a dict with one possible key. *)
LEMMA OneKey ==
  ASSUME NEW order \in Seq({Uid})
  PROVE  /\ FB!Evicted(order, Uid) = {}
         /\ \A popped : FB!Without(order, popped) \in Seq({Uid})
         /\ FB!SetItem(order, Uid) \in Seq({Uid})
<1>1. FB!Evicted(order, Uid) = {}
  <2>1. CASE order = << >>
    BY <2>1 DEF FB!Evicted
  <2>2. CASE order # << >>
    <3>1. 1 \in 1..Len(order) /\ order[1] = Uid
      BY <2>2
    <3>2. FB!Contains(order, Uid)
      BY <3>1 DEF FB!Contains
    <3>3. QED
      BY <3>2 DEF FB!Evicted
  <2>3. QED
    BY <2>1, <2>2
<1>2. ASSUME NEW popped
      PROVE  FB!Without(order, popped) \in Seq({Uid})
  <2>1. Filtered(order, popped) \in Seq({Uid})
    BY FilteredKeeps
  <2>2. QED
    BY <2>1 DEF FB!Without, Filtered
<1>3. FB!SetItem(order, Uid) \in Seq({Uid})
  <2>1. FB!Without(order, {Uid}) \in Seq({Uid})
    BY <1>2
  <2>2. FB!SetItem(order, Uid) = Append(FB!Without(order, {Uid}), Uid)
    BY <1>1 DEF FB!SetItem
  <2> DEFINE w == FB!Without(order, {Uid})
  <2> HIDE DEF w
  <2>3. Append(w, Uid) \in Seq({Uid})
    BY <2>1 DEF w
  <2>4. QED
    BY <2>2, <2>3 DEF w
<1>4. QED
  BY <1>1, <1>2, <1>3

(* The frames `add' and the sweep hand on, and what they leave. *)
AddedFrames(n, sweep) == {k[2] : k \in FB!AddFlushes(Uid, n, sweep)}

AddLeaves(n, sweep) ==
  /\ FB!BufferTypeOK' /\ frameOrder' \in Seq({Uid}) /\ currentOrder' \in Seq({Uid})
  /\ AddedFrames(n, sweep) \subseteq FB!Held(Uid)
  /\ FB!Held(Uid)' \subseteq FB!Held(Uid) \cup {n}
  /\ sweep => FB!Held(Uid)' \subseteq {n}
  /\ \A m \in FB!Held(Uid) : pending'[Uid][m] = {} => m \in AddedFrames(n, sweep)

LEMMA AddEffect ==
  ASSUME BufferInv, NEW n \in Ticks, NEW p \in Kinds \ {"motion_ex"}, NEW sweep \in BOOLEAN,
         FB!Add(Uid, n, p, sweep)
  PROVE  AddLeaves(n, sweep)
<1>1. frameOrder \in Seq({Uid}) /\ currentOrder \in Seq({Uid})
  BY DEF BufferInv
<1>2. FB!OrderAfterFlush(Uid, n) \in Seq({Uid})
  BY <1>1, OneKey DEF FB!OrderAfterFlush
<1>3. FB!FramesEvicted(Uid, n) = {} /\ FB!CurrentEvicted(Uid) = {}
  BY <1>1, <1>2, OneKey DEF FB!FramesEvicted, FB!CurrentEvicted
<1>4. FB!AddDrops(Uid, n) = {}
  BY <1>3 DEF FB!AddDrops
<1>5. currentOrder' \in Seq({Uid})
  BY <1>1, OneKey DEF FB!Add
<1>6. frameOrder' \in Seq({Uid})
  <2> DEFINE order == FB!OrderAfterFlush(Uid, n)
             added == IF FB!Contains(order, Uid) THEN order ELSE FB!SetItem(order, Uid)
             empty == {t \in {Uid} : \A g \in Ticks : pending'[t][g] = {}}
  <2>1. added \in Seq({Uid})
    BY <1>2, OneKey
  <2>2. frameOrder' = FB!Without(added, empty)
    BY DEF FB!Add
  <2> HIDE DEF added, empty
  <2>3. QED
    BY <2>1, <2>2, OneKey
<1>7. /\ pending \in [{Uid} -> [Ticks -> SUBSET (Kinds \ {"motion_ex"})]]
      /\ current \in [{Uid} -> Ticks \cup {FB!NoFrame}]
  BY DEF BufferInv, FB!BufferTypeOK
<1>8. pending' = [t \in {Uid} |-> [g \in Ticks |->
                   (IF <<t, g>> \in FB!AddFlushes(Uid, n, sweep) THEN {} ELSE pending[t][g])
                     \cup (IF t = Uid /\ g = n THEN {p} ELSE {})]]
  BY <1>4 DEF FB!Add
<1>9. current' = [t \in {Uid} |-> n]
  BY DEF FB!Add, FB!CurrentAfter
<1>10. FB!BufferTypeOK'
  <2>1. pending' \in [{Uid} -> [Ticks -> SUBSET (Kinds \ {"motion_ex"})]]
    BY <1>7, <1>8
  <2>2. current' \in [{Uid} -> Ticks \cup {FB!NoFrame}]
    BY <1>9
  <2>3. QED
    BY <2>1, <2>2 DEF FB!BufferTypeOK
<1>11. \A g \in Ticks : <<Uid, g>> \in FB!AddFlushes(Uid, n, sweep)
                          <=> g \in AddedFrames(n, sweep)
  BY DEF AddedFrames, FB!AddFlushes, FB!Completed, FB!Stale, FB!Keys
<1>12. AddedFrames(n, sweep) \subseteq FB!Held(Uid)
  BY DEF AddedFrames, FB!AddFlushes, FB!Completed, FB!Stale, FB!Keys
<1>13. \A g \in Ticks :
         pending'[Uid][g] = (IF g \in AddedFrames(n, sweep) THEN {} ELSE pending[Uid][g])
                              \cup (IF g = n THEN {p} ELSE {})
  BY <1>8, <1>11
<1>14. FB!Held(Uid)' \subseteq FB!Held(Uid) \cup {n}
  BY <1>13 DEF FB!Held
<1>15. ASSUME sweep
       PROVE  FB!Held(Uid)' \subseteq {n}
  <2> SUFFICES ASSUME NEW g \in Ticks, pending'[Uid][g] # {}, g # n PROVE FALSE
    BY DEF FB!Held
  <2>1. g \in FB!Held(Uid) /\ g \notin AddedFrames(n, sweep)
    BY <1>13 DEF FB!Held
  <2>2. FB!CurrentAfter(Uid, n)[Uid] = n
    BY DEF FB!CurrentAfter
  <2>3. <<Uid, g>> \in FB!Stale(Uid, n)
    BY <1>3, <2>1, <2>2 DEF FB!Stale, FB!Keys
  <2>4. QED
    BY <1>11, <1>15, <2>1, <2>3 DEF FB!AddFlushes
<1>16. ASSUME NEW m \in FB!Held(Uid), pending'[Uid][m] = {}
       PROVE  m \in AddedFrames(n, sweep)
  BY <1>13, <1>16 DEF FB!Held
<1>17. QED
  BY <1>5, <1>6, <1>10, <1>12, <1>14, <1>15, <1>16 DEF AddLeaves

(* _frames.pop and _current_frame.pop leave nothing. *)
LEMMA ForgetEffect ==
  ASSUME BufferInv, FB!ForgetSession(Uid)
  PROVE  /\ FB!BufferTypeOK' /\ frameOrder' \in Seq({Uid}) /\ currentOrder' \in Seq({Uid})
         /\ FB!Held(Uid)' = {}
<1>1. frameOrder' \in Seq({Uid}) /\ currentOrder' \in Seq({Uid})
  BY OneKey DEF BufferInv, FB!ForgetSession
<1>2. FB!BufferTypeOK'
  BY DEF BufferInv, FB!ForgetSession, FB!BufferTypeOK
<1>3. FB!Held(Uid)' = {}
  BY DEF BufferInv, FB!ForgetSession, FB!BufferTypeOK, FB!Held
<1>4. QED
  BY <1>1, <1>2, <1>3

-----------------------------------------------------------------------------
(* Flushing frames *)

(* Frame by frame, within any set of states the callback stays in. *)
LEMMA FlushByStep ==
  ASSUME NEW S, FlushState \in S, NEW order \in Seq(Ticks),
         \A st \in S, i \in 1..Len(order) : FlushFrame(st, order[i]) \in S
  PROVE  \E after \in [0..Len(order) -> S] :
           /\ after[0] = FlushState
           /\ \A i \in 1..Len(order) : after[i] = FlushFrame(after[i - 1], order[i])
           /\ Flushed(order) = after[Len(order)]
<1> DEFINE n == Len(order)
           s0 == FlushState
           step == [p \in S \X (1..n) |-> FlushFrame(p[1], order[p[2]])]
<1>1. step \in [S \X (1..n) -> S] /\ n \in Nat /\ s0 \in S
  OBVIOUS
<1>2. PICK g \in [0..n -> S] : ByRecursion(g, n, s0, step)
  <2> HIDE DEF step, n, s0
  <2>1. QED
    BY <1>1, RecursionExists
<1>3. \A i \in 0..n : g[i] = IF i = 0 THEN FlushState ELSE FlushFrame(g[i - 1], order[i])
  <2> SUFFICES ASSUME NEW i \in 0..n
               PROVE  g[i] = IF i = 0 THEN FlushState ELSE FlushFrame(g[i - 1], order[i])
    OBVIOUS
  <2>1. g[i] = IF i = 0 THEN FlushState ELSE step[<<g[i - 1], i>>]
    BY <1>2 DEF ByRecursion
  <2>2. CASE i = 0
    BY <2>1, <2>2
  <2>3. CASE i # 0
    <3>1. <<g[i - 1], i>> \in S \X (1..n)
      <4> HIDE DEF n, s0, step
      <4>1. i - 1 \in 0..n /\ i \in 1..n
        BY <1>1, <2>3
      <4>2. g[i - 1] \in S
        BY <4>1
      <4>3. QED
        BY <4>1, <4>2
    <3>2. step[<<g[i - 1], i>>] = FlushFrame(g[i - 1], order[i])
      BY <3>1
    <3>3. QED
      BY <2>1, <2>3, <3>2
  <2>4. QED
    BY <2>2, <2>3
<1> DEFINE after == CHOOSE f : f = [i \in 0..Len(order) |->
                      IF i = 0 THEN FlushState ELSE FlushFrame(f[i - 1], order[i])]
<1>4. g = [i \in 0..Len(order) |->
            IF i = 0 THEN FlushState ELSE FlushFrame(g[i - 1], order[i])]
  BY <1>3
<1>5. after = [i \in 0..Len(order) |->
                IF i = 0 THEN FlushState ELSE FlushFrame(after[i - 1], order[i])]
  BY <1>4
<1>6. Flushed(order) = after[Len(order)]
  BY DEF Flushed
<1> HIDE DEF after
<1>7. after[0] = FlushState
  BY <1>1, <1>5
<1>8. \A i \in 1..Len(order) : after[i] = FlushFrame(after[i - 1], order[i])
  <2> SUFFICES ASSUME NEW i \in 1..Len(order)
               PROVE  after[i] = FlushFrame(after[i - 1], order[i])
    OBVIOUS
  <2>1. i \in 0..Len(order) /\ i # 0
    OBVIOUS
  <2>2. QED
    BY <1>5, <2>1
<1>9. after \in [0..Len(order) -> S]
  <2> DEFINE F == {i \in 0..n : after[i] \in S}
  <2>1. 0 \in F
    BY <1>1, <1>7
  <2>2. ASSUME NEW i \in 0..n - 1, i \in F PROVE i + 1 \in F
    <3>1. i + 1 \in 1..n /\ i + 1 \in 0..n /\ i + 1 - 1 = i /\ after[i] \in S
      BY <1>1, <2>2
    <3>2. after[i + 1] = FlushFrame(after[i], order[i + 1])
      BY <1>8, <3>1
    <3>3. QED
      BY <3>1, <3>2
  <2> HIDE DEF F
  <2>3. 0..n \subseteq F
    BY <1>1, <2>1, <2>2, UpToInduction
  <2>4. QED
    BY <1>5, <2>3 DEF F
<1>10. QED
  BY <1>6, <1>7, <1>8, <1>9

(* The orders of a set of frames list just its elements. *)
LEMMA OrderLists ==
  ASSUME NEW frames \in SUBSET Ticks, NEW order \in Orders(frames)
  PROVE  /\ order \in Seq(Ticks)
         /\ DOMAIN order = 1..Len(order)
         /\ \A i \in 1..Len(order) : order[i] \in frames
         /\ \A n \in frames : \E i \in 1..Len(order) : order[i] = n
<1>1. IsFiniteSet(frames)
  <2>1. IsFiniteSet(Ticks)
    BY FS_Interval DEF Ticks
  <2>2. QED
    BY <2>1, FS_Subset
<1>2. Cardinality(frames) \in Nat
  BY <1>1, FS_CardinalityType
<1>3. /\ order \in [1..Cardinality(frames) -> frames]
      /\ \A n \in frames : \E i \in DOMAIN order : order[i] = n
  BY DEF Orders
<1> DEFINE c == Cardinality(frames)
<1> HIDE DEF c
<1>4. order \in [1..c -> Ticks] /\ c \in Nat /\ DOMAIN order = 1..c
  BY <1>2, <1>3 DEF c
<1>5. order \in Seq(Ticks) /\ Len(order) = c
  BY <1>4
<1>6. QED
  BY <1>3, <1>4, <1>5 DEF c

(* What one frame changes (dispatcher.py 405-523). *)
Recording == started = "yes" \/ \E k \in FB!Held(Uid) : RacingLap(log[k].lap)

NewRow(r) ==
  /\ r \in [table : FrameTables, frame : 1..Tick, ts : Nat]
  /\ r.frame \in FB!Held(Uid) /\ r.ts = Timestamp(r.frame)
  /\ storedAnchor # None /\ Recording

NewLap(lap) == lap \in 1..MaxLap /\ \E k \in FB!Held(Uid) : log[k].lap > lap

FlushStates ==
  {st \in [started : {"no", "yes"}, lastLap : 0..MaxLap,
           rows : SUBSET [table : FrameTables, frame : 1..Tick, ts : Nat],
           lapRows : SUBSET (1..MaxLap)] :
     /\ st.started = "yes" => Recording
     /\ rows \subseteq st.rows /\ \A r \in st.rows : r \in rows \/ NewRow(r)
     /\ \A lap \in st.lapRows : lap \in lapRows \/ NewLap(lap)}

LEMMA TimestampType ==
  ASSUME GameInv, MemoryInv, NEW n \in 1..Tick
  PROVE  Timestamp(n) \in Nat
<1>1. log[n].time \in Nat /\ Tick \in Nat
  BY LogTick, NewestAlive
<1>2. QED
  BY <1>1 DEF Timestamp, MemoryInv, None

LEMMA FlushStart ==
  ASSUME ListenerInv, gate = "known"
  PROVE  FlushState \in FlushStates
<1>1. started \in {"no", "yes"} /\ lastLap \in 0..MaxLap
  BY DEF ListenerInv, MemoryInv
<1>2. rows \in SUBSET [table : FrameTables, frame : 1..Tick, ts : Nat]
      /\ lapRows \in SUBSET (1..MaxLap)
  BY DEF ListenerInv, Stored
<1>3. QED
  BY <1>1, <1>2 DEF FlushState, FlushStates, Recording

LEMMA FlushFrameStays ==
  ASSUME ListenerInv, NEW st \in FlushStates, NEW n \in FB!Held(Uid)
  PROVE  FlushFrame(st, n) \in FlushStates /\ st.rows \subseteq FlushFrame(st, n).rows
<1> DEFINE R == [table : FrameTables, frame : 1..Tick, ts : Nat]
           batch     == pending[Uid][n]
           lap       == log[n].lap
           start     == IF "lap" \in batch /\ RacingLap(lap) THEN "yes" ELSE st.started
           written   == FrameWritten(batch, n, st.rows)
           last      == IF "lap" \in batch THEN lap ELSE st.lastLap
           laps      == IF "lap" \in batch /\ storedAnchor # None
                        THEN st.lapRows \cup CompletedLap(st.lastLap, lap) ELSE st.lapRows
           recorded  == [started |-> start, rows |-> written, lastLap |-> last, lapRows |-> laps]
<1>1. /\ st.started \in {"no", "yes"} /\ st.lastLap \in 0..MaxLap
      /\ st.rows \in SUBSET R /\ st.lapRows \in SUBSET (1..MaxLap)
      /\ st.started = "yes" => Recording
      /\ rows \subseteq st.rows /\ \A r \in st.rows : r \in rows \/ NewRow(r)
      /\ \A x \in st.lapRows : x \in lapRows \/ NewLap(x)
      /\ st \in [started : {"no", "yes"}, lastLap : 0..MaxLap,
                 rows : SUBSET R, lapRows : SUBSET (1..MaxLap)]
  BY DEF FlushStates
<1>2. n \in 1..Tick /\ GameInv /\ MemoryInv
  BY DEF ListenerInv, BufferInv
<1>3. lap \in 1..MaxLap /\ log[n].time \in Nat /\ Timestamp(n) \in Nat /\ MaxLap \in Nat
  BY <1>2, LogTick, TimestampType
<1>4. start \in {"no", "yes"} /\ (start = "yes" => Recording)
  BY <1>1 DEF Recording
<1>5. CASE ~mapped \/ log[n].time < 1
  BY <1>1, <1>5 DEF FlushFrame
<1>6. CASE ~(~mapped \/ log[n].time < 1) /\ start = "no"
  <2>1. FlushFrame(st, n) = [st EXCEPT !.started = start]
    BY <1>6 DEF FlushFrame
  <2>2. QED
    BY <1>1, <1>4, <2>1 DEF FlushStates
<1>7. CASE ~(~mapped \/ log[n].time < 1) /\ start # "no"
  <2>1. FlushFrame(st, n) = recorded
    BY <1>7 DEF FlushFrame
  <2>2. start = "yes" /\ Recording
    BY <1>4, <1>7
  <2>3. st.rows \subseteq written /\ \A r \in written : r \in st.rows \/ NewRow(r)
    <3>1. FrameRow(n) \in R /\ DamageRow(n) \in R
      BY <1>2, <1>3 DEF FrameRow, DamageRow, FrameTables
    <3>2. storedAnchor # None => NewRow(FrameRow(n)) /\ NewRow(DamageRow(n))
      BY <2>2, <3>1 DEF NewRow, FrameRow, DamageRow
    <3>3. QED
      BY <3>2 DEF FrameWritten, Inserted
  <2>4. written \in SUBSET R
    BY <1>1, <2>3 DEF NewRow
  <2>5. last \in 0..MaxLap
    BY <1>1, <1>3
  <2>6. \A x \in laps : x \in st.lapRows \/ NewLap(x)
    <3>1. ASSUME NEW x \in CompletedLap(st.lastLap, lap)
          PROVE  NewLap(x)
      <4>1. x = st.lastLap /\ lap > x /\ x > 0
        BY <3>1 DEF CompletedLap
      <4>2. x \in 1..MaxLap
        BY <1>1, <1>3, <4>1
      <4>3. QED
        BY <4>1, <4>2 DEF NewLap
    <3>2. QED
      BY <3>1
  <2>7. laps \in SUBSET (1..MaxLap)
    BY <1>1, <2>6 DEF NewLap
  <2> HIDE DEF start, written, last, laps
  <2>8. recorded.started = start /\ recorded.rows = written
        /\ recorded.lastLap = last /\ recorded.lapRows = laps
    OBVIOUS
  <2>9. recorded \in [started : {"no", "yes"}, lastLap : 0..MaxLap,
                      rows : SUBSET R, lapRows : SUBSET (1..MaxLap)]
    BY <1>4, <2>4, <2>5, <2>7
  <2>10. rows \subseteq written /\ \A r \in written : r \in rows \/ NewRow(r)
    BY <1>1, <2>3
  <2>11. \A x \in laps : x \in lapRows \/ NewLap(x)
    BY <1>1, <2>6
  <2>12. recorded \in FlushStates
    BY <2>2, <2>8, <2>9, <2>10, <2>11 DEF FlushStates
  <2>13. QED
    BY <2>1, <2>3, <2>8, <2>12
<1>8. QED
  BY <1>4, <1>5, <1>6, <1>7

(* The frames an operation flushes leave only rows and laps of theirs. *)
LEMMA FlushSound ==
  ASSUME ListenerInv, gate = "known", NEW frames \in SUBSET FB!Held(Uid),
         NEW order \in Orders(frames), Flush(order)
  PROVE  /\ started' \in {"no", "yes"} /\ (started' = "yes" => Recording)
         /\ lastLap' \in 0..MaxLap
         /\ rows \subseteq rows' /\ \A r \in rows' : r \in rows \/ NewRow(r)
         /\ \A lap \in lapRows' : lap \in lapRows \/ NewLap(lap)
<1>1. frames \in SUBSET Ticks
  BY DEF FB!Held
<1>2. order \in Seq(Ticks) /\ \A i \in 1..Len(order) : order[i] \in FB!Held(Uid)
  BY <1>1, OrderLists
<1>3. FlushState \in FlushStates
  BY FlushStart
<1>4. \A st \in FlushStates, i \in 1..Len(order) : FlushFrame(st, order[i]) \in FlushStates
  BY <1>2, FlushFrameStays
<1>5. Flushed(order) \in FlushStates
  <2>1. PICK after \in [0..Len(order) -> FlushStates] : Flushed(order) = after[Len(order)]
    BY <1>2, <1>3, <1>4, FlushByStep
  <2>2. Len(order) \in 0..Len(order)
    BY <1>2
  <2>3. QED
    BY <2>1, <2>2
<1>6. QED
  BY <1>5 DEF Flush, FlushStates

-----------------------------------------------------------------------------
(* What was stored stays right while the log grows, the standing run gets  *)
(* shorter, and the buffer takes a frame whose rows were deleted only as   *)
(* one whose datagram came late. *)
Growing ==
  /\ Tick <= Tick'
  /\ \A n \in 1..Tick : /\ log'[n].time = log[n].time /\ log'[n].lap = log[n].lap
                        /\ log'[n].formation => log[n].formation
                        /\ log'[n].formation /\ n \in grace \cup undone
                             => n \in grace' \cup undone'
  /\ undone \subseteq undone' /\ overtaken \subseteq overtaken'
  /\ \A n \in FB!Held(Uid)', t \in FrameTables :
       n \in FB!Held(Uid) \/ n \notin erased[t] \/ n \in overtaken'

StoredNext(start, store, laps, gone) ==
  /\ start \in Nat \cup {None}
  /\ store \subseteq [table : FrameTables, frame : 1..Tick', ts : Nat]
  /\ start = None => store = {}
  /\ laps \subseteq 1..MaxLap
  /\ \A lap \in laps : \E n \in 1..Tick' : log'[n].lap > lap /\ ~log'[n].formation
  /\ \A r \in store :
       log'[r.frame].formation /\ r.table # "car_frame_motion_ex"
         => r.frame \in grace' \cup undone'
  /\ gone \in [FrameTables -> SUBSET undone']
  /\ \A t \in FrameTables : gone[t] \cap FB!Held(Uid)' \subseteq overtaken'

LEMMA StoredStays ==
  ASSUME GameInv, GameInv', Growing,
         NEW start, NEW store, NEW laps, NEW gone, Stored(start, store, laps, gone),
         \A t \in FrameTables : gone[t] \subseteq erased[t]
  PROVE  StoredNext(start, store, laps, gone)
<1>1. Tick \in Nat /\ Tick' \in Nat /\ Tick <= Tick'
  BY DEF GameInv, Ticks, Growing
<1>2. 1..Tick \subseteq 1..Tick'
  BY <1>1
<1>3. store \subseteq [table : FrameTables, frame : 1..Tick', ts : Nat]
  BY <1>2 DEF Stored
<1>4. ASSUME NEW lap \in laps
      PROVE  \E n \in 1..Tick' : log'[n].lap > lap /\ ~log'[n].formation
  <2>1. PICK n \in 1..Tick : log[n].lap > lap /\ ~log[n].formation
    BY DEF Stored
  <2>2. log'[n].lap > lap /\ ~log'[n].formation
    BY <2>1 DEF Growing
  <2>3. QED
    BY <1>2, <2>2
<1>5. ASSUME NEW r \in store, log'[r.frame].formation, r.table # "car_frame_motion_ex"
      PROVE  r.frame \in grace' \cup undone'
  <2>1. r.frame \in 1..Tick
    BY DEF Stored
  <2>2. log[r.frame].formation
    BY <1>5, <2>1 DEF Growing
  <2>3. r.frame \in grace \cup undone
    BY <1>5, <2>2 DEF Stored
  <2>4. QED
    BY <1>5, <2>1, <2>3 DEF Growing
<1>6. gone \in [FrameTables -> SUBSET undone']
  BY DEF Stored, Growing
<1>7. ASSUME NEW t \in FrameTables, NEW n \in gone[t] \cap FB!Held(Uid)'
      PROVE  n \in overtaken'
  <2>1. CASE n \in FB!Held(Uid)
    BY <2>1 DEF Stored, Growing
  <2>2. CASE n \notin FB!Held(Uid)
    BY <2>2 DEF Growing
  <2>3. QED
    BY <2>1, <2>2
<1>8. QED
  BY <1>3, <1>4, <1>5, <1>6, <1>7 DEF Stored, StoredNext

(* The database, and what a crash would leave of it, where no operation    *)
(* but a crash writes to them. *)
LEMMA StorageStays ==
  ASSUME ListenerInv, GameInv', Growing,
         UNCHANGED <<storedAnchor, rows, lapRows, erased>>
  PROVE  Stored(storedAnchor, rows, lapRows, erased)'
<1>1. StoredNext(storedAnchor, rows, lapRows, erased)
  BY StoredStays DEF ListenerInv
<1>2. QED
  BY <1>1 DEF Stored, StoredNext

LEMMA HistoryStays ==
  ASSUME ListenerInv, durable' = durable \/ durable' = Committed,
         \A t \in FrameTables : erased[t] \subseteq erased'[t],
         overtaken' = overtaken \/ \E n \in Ticks : overtaken' = Overtaken(n)
  PROVE  HistoryInv'
<1>1. overtaken' \subseteq Ticks
  BY DEF ListenerInv, HistoryInv, Overtaken
<1>2. \A t \in FrameTables : durable'.erased[t] \subseteq erased'[t]
  BY DEF ListenerInv, HistoryInv, Committed
<1>3. QED
  BY <1>1, <1>2 DEF HistoryInv

LEMMA DurableStays ==
  ASSUME ListenerInv, GameInv', Growing, UNCHANGED durable
  PROVE  Stored(durable.anchor, durable.rows, durable.lapRows, durable.erased)'
<1>1. StoredNext(durable.anchor, durable.rows, durable.lapRows, durable.erased)
  BY StoredStays DEF ListenerInv, HistoryInv
<1>2. QED
  BY <1>1 DEF Stored, StoredNext

LEMMA DurableCommitted ==
  ASSUME ListenerInv, GameInv', Growing, durable' = Committed
  PROVE  Stored(durable.anchor, durable.rows, durable.lapRows, durable.erased)'
<1>1. CASE crashes < MaxCrashes
  <2>1. /\ durable'.anchor = storedAnchor /\ durable'.rows = rows
        /\ durable'.lapRows = lapRows /\ durable'.erased = erased
    BY <1>1 DEF Committed
  <2>2. StoredNext(storedAnchor, rows, lapRows, erased)
    BY StoredStays DEF ListenerInv
  <2>3. QED
    BY <2>1, <2>2 DEF Stored, StoredNext
<1>2. CASE ~(crashes < MaxCrashes)
  BY <1>2, DurableStays DEF Committed
<1>3. QED
  BY <1>1, <1>2

(* A step that leaves the game and the buffer alone lets both stand. *)
LEMMA GrowingStill ==
  ASSUME ListenerInv, UNCHANGED gameVars, UNCHANGED pending, UNCHANGED grace
  PROVE  /\ GameInv' /\ (overtaken \subseteq overtaken' => Growing)
         /\ Tick' = Tick /\ Newest' = Newest /\ Alive' = Alive /\ Arriving' = Arriving
         /\ FB!Held(Uid)' = FB!Held(Uid) /\ log' = log /\ undone' = undone /\ kind' = kind
<1>1. GameInv
  BY DEF ListenerInv
<1>2. GameInv' /\ Tick' = Tick /\ Newest' = Newest /\ Alive' = Alive /\ Arriving' = Arriving
  BY <1>1, SameGame
<1>3. FB!Held(Uid)' = FB!Held(Uid)
  BY DEF FB!Held
<1>4. log' = log /\ undone' = undone /\ kind' = kind
  BY DEF gameVars
<1>5. Tick \in Nat
  BY <1>1 DEF GameInv, Ticks
<1>6. overtaken \subseteq overtaken' => Growing
  BY <1>2, <1>3, <1>4, <1>5 DEF Growing
<1>7. QED
  BY <1>2, <1>3, <1>4, <1>6

LEMMA BufferStill ==
  ASSUME ListenerInv, UNCHANGED gameVars, UNCHANGED bufferVars, UNCHANGED grace,
         mapped' \/ mapped' = mapped
  PROVE  BufferInv'
<1>1. UNCHANGED <<pending, current, frameOrder, currentOrder>>
  BY DEF bufferVars
<1>2. /\ FB!Held(Uid)' = FB!Held(Uid) /\ Tick' = Tick /\ Alive' = Alive /\ log' = log
  BY <1>1, GrowingStill
<1>3. QED
  BY <1>1, <1>2 DEF ListenerInv, BufferInv, FB!BufferTypeOK

LEMMA StartStill ==
  ASSUME ListenerInv, UNCHANGED gameVars, UNCHANGED pending, UNCHANGED grace,
         UNCHANGED started
  PROVE  StartInv'
<1>1. /\ FB!Held(Uid)' = FB!Held(Uid) /\ Newest' = Newest /\ Arriving' = Arriving
      /\ log' = log /\ undone' = undone /\ kind' = kind
  BY GrowingStill
<1>2. QED
  BY <1>1 DEF ListenerInv, StartInv

-----------------------------------------------------------------------------
(* A database with nothing in it. *)
LEMMA EmptyStored ==
  Stored(None, {}, {}, [t \in FrameTables |-> {}])
BY DEF Stored

(* Every step keeps ListenerInv. *)
LEMMA InitListener == Init => ListenerInv
<1> SUFFICES ASSUME Init PROVE ListenerInv
  OBVIOUS
<1>1. GameInv
  BY InitGame
<1>2. MemoryInv
  <2>1. /\ gate = "unknown" /\ seen = FALSE /\ mapped = FALSE
        /\ anchor = None /\ started = "unset" /\ lastLap = 0
    BY DEF Init
  <2>2. seen \in BOOLEAN /\ mapped \in BOOLEAN
    BY <2>1
  <2>3. lastLap \in 0..MaxLap
    BY <2>1
  <2>4. ~seen /\ gate # "known"
    BY <2>1
  <2>5. QED
    BY <2>1, <2>2, <2>3, <2>4 DEF MemoryInv
<1>3. FB!Held(Uid) = {}
  BY DEF Init, FB!BufferInit, FB!Held
<1>4. BufferInv
  BY <1>3 DEF Init, FB!BufferInit, FB!BufferTypeOK, BufferInv
<1>5. StartInv
  BY DEF Init, StartInv
<1>6. /\ storedAnchor = None /\ rows = {} /\ lapRows = {} /\ overtaken = {}
      /\ erased = [t \in FrameTables |-> {}]
      /\ durable.anchor = None /\ durable.rows = {} /\ durable.lapRows = {}
      /\ durable.erased = [t \in FrameTables |-> {}]
  BY DEF Init, Empty
<1>7. Stored(None, {}, {}, [t \in FrameTables |-> {}])
  BY EmptyStored
<1>8. HistoryInv
  BY <1>6 DEF HistoryInv
<1>9. QED
  BY <1>1, <1>2, <1>4, <1>5, <1>6, <1>7, <1>8 DEF ListenerInv

LEMMA GameTickListener ==
  ASSUME ListenerInv, GameTick
  PROVE  ListenerInv'
<1>1. /\ GameInv /\ GameInv' /\ Tick' = Tick + 1 /\ Newest' = Tick + 1
      /\ \A n \in 1..Tick : log'[n] = log[n]
      /\ log'[Tick + 1].formation = log[Newest].formation
  BY GameTickGame DEF ListenerInv
<1>2. /\ UNCHANGED <<kind, undone, grace, overtaken>>
      /\ UNCHANGED <<gate, seen, anchor, mapped, started, lastLap>>
      /\ UNCHANGED <<pending, current, frameOrder, currentOrder>>
      /\ UNCHANGED <<storedAnchor, rows, lapRows, erased>>
      /\ durable' = Committed
  BY DEF GameTick, memoryVars, bufferVars, history
<1>3. /\ FB!Held(Uid)' = FB!Held(Uid) /\ FB!Held(Uid) \subseteq 1..Tick /\ Tick \in Nat
      /\ Alive \subseteq 1..Tick
  BY <1>1, <1>2, NewestAlive DEF FB!Held, ListenerInv, BufferInv
<1>4. \A m : m \in Alive' <=> m \in Alive \/ m = Tick + 1
  <2>1. undone \subseteq 1..Tick
    BY <1>1, <1>3 DEF GameInv
  <2>2. QED
    BY <1>1, <1>2, <1>3, <2>1 DEF Alive
<1>5. Growing
  BY <1>1, <1>2, <1>3 DEF Growing
<1>6. MemoryInv'
  BY <1>2 DEF ListenerInv, MemoryInv
<1>7. BufferInv'
  <2>1. ASSUME NEW m \in FB!Held(Uid), NEW k \in FB!Held(Uid), m \in Alive', log'[m].formation
        PROVE  ~RacingLap(log'[k].lap)
    <3>1. m \in 1..Tick /\ k \in 1..Tick
      BY <1>3
    <3>2. m \in Alive /\ log[m].formation /\ log'[k] = log[k]
      BY <1>1, <1>3, <1>4, <2>1, <3>1
    <3>3. QED
      BY <3>2 DEF ListenerInv, BufferInv
  <2>2. FB!Held(Uid)' \subseteq 1..Tick'
    BY <1>1, <1>3
  <2>3. FB!BufferTypeOK'
    BY <1>2 DEF ListenerInv, BufferInv, FB!BufferTypeOK
  <2>4. QED
    BY <1>2, <1>3, <2>1, <2>2, <2>3 DEF ListenerInv, BufferInv
<1>8. StartInv'
  <2>1. log'[Newest'].formation => log[Newest].formation
    BY <1>1
  <2>2. started = "yes" => ~log'[Tick + 1].formation
    <3>1. Tick + 1 \in 1..Tick'
      BY <1>1, <1>3
    <3>2. log'[Tick + 1].formation => kind = "race"
      BY <1>1, <1>2, <3>1 DEF GameInv
    <3>3. QED
      BY <1>1, <3>2 DEF ListenerInv, StartInv
  <2>3. ASSUME NEW m \in FB!Held(Uid)' \cup Arriving', started = "yes", log'[m].formation
        PROVE  m \in grace \cup undone
    <3>1. m # Tick + 1
      BY <2>2, <2>3
    <3>2. m \in FB!Held(Uid) \cup Arriving /\ m \in 1..Tick
      <4>1. CASE m \in FB!Held(Uid)'
        BY <1>3, <4>1
      <4>2. CASE m \in Arriving'
        <5>1. m \in 1..Tick' /\ m >= Tick' - 1
          BY <4>2 DEF Arriving, InTheAir
        <5>2. m \in 1..Tick /\ m >= Tick - 1
          BY <1>1, <1>3, <3>1, <5>1
        <5>3. QED
          BY <5>2 DEF Arriving, InTheAir
      <4>3. QED
        BY <2>3, <4>1, <4>2
    <3>3. QED
      BY <1>1, <2>3, <3>2 DEF ListenerInv, StartInv
  <2>4. QED
    BY <1>1, <1>2, <2>1, <2>2, <2>3 DEF ListenerInv, StartInv
<1>9. HistoryInv'
  BY <1>2, HistoryStays
<1>10. QED
  BY <1>1, <1>2, <1>5, <1>6, <1>7, <1>8, <1>9, StorageStays, DurableCommitted DEF ListenerInv

(* Packet 1: the anchor is a time, and the gate opens with one. *)
LEMMA SessionPacketListener ==
  ASSUME ListenerInv, NEW failed, NEW lag \in Lags, SessionPacket(failed, lag)
  PROVE  ListenerInv'
<1>1. /\ UNCHANGED gameVars /\ UNCHANGED bufferVars /\ UNCHANGED <<grace, overtaken>>
      /\ UNCHANGED <<mapped, lastLap, rows, lapRows, durable, erased, pending>>
  BY DEF SessionPacket, history, bufferVars
<1>2. GameInv /\ MemoryInv
  BY DEF ListenerInv
<1>3. /\ GameInv' /\ Growing /\ Newest' = Newest /\ Arriving' = Arriving
      /\ FB!Held(Uid)' = FB!Held(Uid) /\ log' = log /\ undone' = undone /\ kind' = kind
  BY <1>1, GrowingStill
<1> DEFINE local == Tick + lag - log[Newest].time
<1>4. local \in Nat
  <2>1. Newest \in 1..Tick /\ Tick \in Nat /\ log[Newest].time \in Nat /\ log[Newest].time < Newest
    BY <1>2, NewestAlive, LogTick
  <2>2. lag \in Nat
    OBVIOUS
  <2>3. QED
    BY <2>1, <2>2
<1>5. storedAnchor \in Nat \cup {None} /\ (storedAnchor = None => rows = {})
  BY DEF ListenerInv, Stored
<1>6. /\ storedAnchor' \in Nat \cup {None}
      /\ storedAnchor # None => storedAnchor' = storedAnchor
      /\ seen \/ kind = "excluded" => anchor' = anchor
      /\ ~seen /\ kind # "excluded" => anchor' \in Nat
  <2>1. CASE kind = "excluded" \/ seen
    BY <1>5, <2>1 DEF SessionPacket
  <2>2. CASE ~(kind = "excluded" \/ seen)
    <3>1. InsertSession(failed, lag)
      BY <2>2 DEF SessionPacket
    <3>2. storedAnchor' = SessionUpserted(failed, local)
          /\ anchor' = AnchorAfter(failed, storedAnchor', local)
      BY <3>1 DEF InsertSession
    <3> HIDE DEF local
    <3>3. storedAnchor' \in Nat \cup {None} /\ (storedAnchor # None => storedAnchor' = storedAnchor)
      BY <1>4, <1>5, <3>2 DEF SessionUpserted
    <3>4. anchor' \in Nat
      BY <1>4, <3>2, <3>3 DEF AnchorAfter, ReadBack
    <3>5. QED
      BY <2>2, <3>3, <3>4
  <2>3. QED
    BY <2>1, <2>2
<1>7. MemoryInv'
  <2>1. CASE kind = "excluded"
    <3>1. gate' = "excluded" /\ UNCHANGED <<seen, anchor, started, mapped, lastLap>>
      BY <1>1, <2>1 DEF SessionPacket
    <3>2. QED
      BY <1>2, <3>1 DEF MemoryInv
  <2>2. CASE kind # "excluded"
    <3>1. /\ gate' = "known" /\ seen' = TRUE /\ UNCHANGED <<mapped, lastLap>>
          /\ started' = IF started # "unset" THEN started ELSE StartedAtFirst
      BY <1>1, <2>2 DEF SessionPacket
    <3>2. started' \in {"no", "yes"}
      BY <1>2, <3>1 DEF MemoryInv, StartedAtFirst
    <3>3. anchor' \in Nat \cup {None} /\ anchor' # None
      BY <1>2, <1>6, <2>2 DEF MemoryInv, None
    <3>4. QED
      BY <1>2, <3>1, <3>2, <3>3 DEF MemoryInv
  <2>3. QED
    BY <2>1, <2>2
<1>8. BufferInv'
  BY <1>1, BufferStill
<1>9. StartInv'
  <2>1. CASE started' = started
    BY <1>1, <2>1, StartStill
  <2>2. CASE started' # started
    <3>1. started' = StartedAtFirst
      BY <2>2 DEF SessionPacket
    <3>2. started' = "yes" => kind # "race"
      BY <3>1 DEF StartedAtFirst
    <3>3. \A n \in 1..Tick : log[n].formation => kind = "race"
      BY <1>2 DEF GameInv
    <3>4. FB!Held(Uid) \cup Arriving \subseteq 1..Tick
      BY <1>2, NewestAlive DEF ListenerInv, BufferInv, Arriving
    <3>5. QED
      BY <1>1, <1>3, <3>2, <3>3, <3>4 DEF ListenerInv, StartInv
  <2>3. QED
    BY <2>1, <2>2
<1>10. Stored(storedAnchor, rows, lapRows, erased)'
  <2>1. StoredNext(storedAnchor, rows, lapRows, erased)
    BY <1>2, <1>3, StoredStays DEF ListenerInv
  <2>2. storedAnchor' = None => rows = {}
    BY <1>5, <1>6
  <2>3. QED
    BY <1>1, <1>6, <2>1, <2>2 DEF Stored, StoredNext
<1>11. HistoryInv'
  BY <1>1, HistoryStays
<1>12. QED
  BY <1>1, <1>3, <1>7, <1>8, <1>9, <1>10, <1>11, DurableStays DEF ListenerInv

(* Packet 4. *)
LEMMA ParticipantsListener ==
  ASSUME ListenerInv, ParticipantsPacket
  PROVE  ListenerInv'
<1>1. /\ UNCHANGED gameVars /\ UNCHANGED bufferVars /\ UNCHANGED <<grace, overtaken>>
      /\ UNCHANGED <<gate, seen, anchor, started, lastLap, pending>>
      /\ UNCHANGED <<storedAnchor, rows, lapRows, erased>> /\ UNCHANGED durable
      /\ mapped' = TRUE
  BY DEF ParticipantsPacket, history, bufferVars, dbVars
<1>2. GameInv' /\ Growing
  BY <1>1, GrowingStill
<1>3. MemoryInv'
  BY <1>1 DEF ListenerInv, MemoryInv
<1>4. HistoryInv'
  BY <1>1, HistoryStays
<1>5. QED
  BY <1>1, <1>2, <1>3, <1>4, BufferStill, StartStill, StorageStays, DurableStays DEF ListenerInv

(* Rows and laps that are added, each of them right on its own. *)
LEMMA StorageAdded ==
  ASSUME ListenerInv, GameInv', Growing, UNCHANGED <<storedAnchor, erased>>,
         \A r \in rows' : r \in rows \/
            /\ r \in [table : FrameTables, frame : 1..Tick', ts : Nat] /\ storedAnchor # None
            /\ log'[r.frame].formation /\ r.table # "car_frame_motion_ex"
                 => r.frame \in grace' \cup undone',
         \A lap \in lapRows' : lap \in lapRows \/
            (lap \in 1..MaxLap /\ \E n \in 1..Tick' : log'[n].lap > lap /\ ~log'[n].formation)
  PROVE  Stored(storedAnchor, rows, lapRows, erased)'
<1>1. StoredNext(storedAnchor, rows, lapRows, erased)
  BY StoredStays DEF ListenerInv
<1>2. StoredNext(storedAnchor, rows', lapRows', erased)
  BY <1>1 DEF StoredNext
<1>3. QED
  BY <1>2 DEF Stored, StoredNext

(* While frames are recorded there is no frame of the formation lap, in    *)
(* the buffer or in the air, that is not already accounted for. *)
LEMMA RecordingSound ==
  ASSUME ListenerInv, Recording, NEW m \in FB!Held(Uid) \cup Arriving, log[m].formation
  PROVE  m \in grace \cup undone
<1>1. CASE started = "yes"
  BY <1>1 DEF ListenerInv, StartInv
<1>2. CASE \E k \in FB!Held(Uid) : RacingLap(log[k].lap)
  <2>1. PICK k \in FB!Held(Uid) : RacingLap(log[k].lap)
    BY <1>2
  <2> SUFFICES ASSUME m \notin undone PROVE FALSE
    OBVIOUS
  <2>2. GameInv /\ k \in 1..Tick /\ Tick \in Nat /\ Alive \subseteq 1..Tick
    BY NewestAlive DEF ListenerInv, BufferInv
  <2>3. ~log[k].formation
    BY <2>1, <2>2, LogTick
  <2>4. m \in Alive
    BY <2>2 DEF ListenerInv, BufferInv, Alive, Arriving
  <2>5. CASE m \in FB!Held(Uid)
    BY <2>1, <2>4, <2>5 DEF ListenerInv, BufferInv
  <2>6. CASE m \in Arriving
    <3>1. k > m + 1 /\ m \in 1..Tick
      BY <2>1, <2>2, <2>3, <2>4 DEF GameInv
    <3>2. m >= Tick - 1
      BY <2>6 DEF Arriving, InTheAir
    <3>3. QED
      BY <2>2, <3>1, <3>2
  <2>7. QED
    BY <2>5, <2>6
<1>3. QED
  BY <1>1, <1>2 DEF Recording

(* What a flush leaves of the database, the process and the race start. *)
LEMMA FlushListener ==
  ASSUME ListenerInv, gate = "known", NEW frames \in SUBSET FB!Held(Uid),
         NEW order \in Orders(frames), Flush(order),
         UNCHANGED gameVars, UNCHANGED <<gate, seen, anchor, mapped>>,
         UNCHANGED <<storedAnchor, erased, grace, durable>>,
         \/ overtaken' = overtaken /\ FB!Held(Uid)' \subseteq FB!Held(Uid)
         \/ \E g \in Arriving : /\ overtaken' = Overtaken(g)
                                /\ FB!Held(Uid)' \subseteq FB!Held(Uid) \cup {g},
         BufferInv'
  PROVE  ListenerInv'
<1>1. /\ started' \in {"no", "yes"} /\ (started' = "yes" => Recording)
      /\ lastLap' \in 0..MaxLap
      /\ rows \subseteq rows' /\ \A r \in rows' : r \in rows \/ NewRow(r)
      /\ \A lap \in lapRows' : lap \in lapRows \/ NewLap(lap)
  BY FlushSound
<1>2. /\ GameInv /\ GameInv' /\ Tick' = Tick /\ Newest' = Newest /\ Arriving' = Arriving
      /\ log' = log /\ undone' = undone /\ kind' = kind
  BY SameGame DEF ListenerInv, gameVars
<1>3. /\ Tick \in Nat /\ FB!Held(Uid) \subseteq 1..Tick
  BY <1>2, NewestAlive DEF ListenerInv, BufferInv
<1>4. Growing
  <2>1. overtaken \subseteq overtaken' /\ FB!Held(Uid)' \subseteq FB!Held(Uid) \cup Arriving
    BY DEF Overtaken
  <2>2. ASSUME NEW g \in FB!Held(Uid)', NEW t \in FrameTables
        PROVE  g \in FB!Held(Uid) \/ g \notin erased[t] \/ g \in overtaken'
    BY DEF Overtaken
  <2>3. QED
    BY <1>2, <1>3, <2>1, <2>2 DEF Growing
<1>5. MemoryInv'
  BY <1>1 DEF ListenerInv, MemoryInv
<1>6. StartInv'
  <2>1. started' = "yes" => ~log[Newest].formation \/ kind # "race"
    <3> SUFFICES ASSUME started' = "yes", log[Newest].formation, kind = "race" PROVE FALSE
      OBVIOUS
    <3>1. Recording /\ started # "yes"
      BY <1>1 DEF ListenerInv, StartInv
    <3>2. PICK k \in FB!Held(Uid) : RacingLap(log[k].lap)
      BY <3>1 DEF Recording
    <3>3. k \in 1..Tick /\ log[k].formation
      BY <1>2, <1>3 DEF GameInv
    <3>4. QED
      BY <1>2, <3>2, <3>3, LogTick
  <2>2. ASSUME started' = "yes", NEW m \in FB!Held(Uid)' \cup Arriving, log[m].formation
        PROVE  m \in grace \cup undone
    BY <1>1, <2>2, RecordingSound
  <2>3. QED
    BY <1>2, <2>1, <2>2 DEF ListenerInv, StartInv
<1>7. Stored(storedAnchor, rows, lapRows, erased)'
  <2>1. ASSUME NEW r, NewRow(r)
        PROVE  /\ r \in [table : FrameTables, frame : 1..Tick', ts : Nat] /\ storedAnchor # None
               /\ log'[r.frame].formation /\ r.table # "car_frame_motion_ex"
                    => r.frame \in grace' \cup undone'
    <3>1. /\ r \in [table : FrameTables, frame : 1..Tick, ts : Nat] /\ storedAnchor # None
          /\ r.frame \in FB!Held(Uid) /\ Recording
      BY <2>1 DEF NewRow
    <3>2. log[r.frame].formation => r.frame \in grace \cup undone
      BY <3>1, RecordingSound
    <3>3. QED
      BY <1>2, <3>1, <3>2
  <2>2. ASSUME NEW lap, NewLap(lap)
        PROVE  lap \in 1..MaxLap /\ \E n \in 1..Tick' : log'[n].lap > lap /\ ~log'[n].formation
    <3>1. PICK k \in FB!Held(Uid) : log[k].lap > lap /\ lap \in 1..MaxLap
      BY <2>2 DEF NewLap
    <3>2. k \in 1..Tick /\ MaxLap \in Nat /\ log[k].lap \in 1..MaxLap
          /\ (log[k].formation => ~RacingLap(log[k].lap))
      BY <1>2, <1>3, LogTick
    <3>3. RacingLap(log[k].lap)
      BY <3>1, <3>2 DEF RacingLap
    <3>4. QED
      BY <1>2, <3>1, <3>2, <3>3
  <2>3. \A r \in rows' : r \in rows \/
           /\ r \in [table : FrameTables, frame : 1..Tick', ts : Nat] /\ storedAnchor # None
           /\ log'[r.frame].formation /\ r.table # "car_frame_motion_ex"
                => r.frame \in grace' \cup undone'
    BY <1>1, <2>1
  <2>4. \A lap \in lapRows' : lap \in lapRows \/
           (lap \in 1..MaxLap /\ \E n \in 1..Tick' : log'[n].lap > lap /\ ~log'[n].formation)
    BY <1>1, <2>2
  <2>5. GameInv' /\ Growing /\ UNCHANGED <<storedAnchor, erased>>
    BY <1>2, <1>4
  <2>6. QED
    BY <2>3, <2>4, <2>5, StorageAdded
<1>8. HistoryInv'
  <2>1. Arriving \subseteq Ticks
    BY <1>2 DEF Arriving, GameInv, Ticks
  <2>2. QED
    BY <2>1, HistoryStays
<1>9. QED
  BY <1>2, <1>4, <1>5, <1>6, <1>7, <1>8, DurableStays DEF ListenerInv

(* The telemetry packets of a frame. *)
LEMMA FramePacketListener ==
  ASSUME ListenerInv, NEW n \in Ticks, NEW p \in Kinds \ {"motion_ex"}, NEW sweep \in BOOLEAN,
         FramePacket(n, p, sweep)
  PROVE  ListenerInv'
<1>1. /\ gate = "known" /\ mapped /\ n \in Arriving /\ (SweepDue(n) => sweep)
      /\ FB!Add(Uid, n, p, sweep)
      /\ UNCHANGED gameVars /\ UNCHANGED <<gate, seen, anchor, mapped>>
      /\ UNCHANGED <<storedAnchor, erased, grace, durable>> /\ overtaken' = Overtaken(n)
  BY DEF FramePacket
<1>2. PICK order \in Orders(AddedFrames(n, sweep)) : Flush(order)
  BY DEF FramePacket, AddedFrames
<1>3. BufferInv /\ GameInv
  BY DEF ListenerInv
<1>4. /\ FB!BufferTypeOK' /\ frameOrder' \in Seq({Uid}) /\ currentOrder' \in Seq({Uid})
      /\ AddedFrames(n, sweep) \subseteq FB!Held(Uid)
      /\ FB!Held(Uid)' \subseteq FB!Held(Uid) \cup {n}
      /\ sweep => FB!Held(Uid)' \subseteq {n}
  <2>1. AddLeaves(n, sweep)
    BY <1>1, <1>3, AddEffect
  <2>2. QED
    BY <2>1 DEF AddLeaves
<1>5. /\ Tick' = Tick /\ Alive' = Alive /\ log' = log /\ mapped' = TRUE
  BY <1>1, <1>3, SameGame DEF gameVars
<1>6. /\ n \in 1..Tick /\ n >= Tick - 1 /\ Tick \in Nat
      /\ FB!Held(Uid) \subseteq 1..Tick
  BY <1>1, <1>3, NewestAlive DEF Arriving, InTheAir, BufferInv
<1>7. ASSUME NEW m \in FB!Held(Uid)', NEW k \in FB!Held(Uid)',
             m \in Alive, log[m].formation, RacingLap(log[k].lap)
      PROVE  FALSE
  <2>1. m \in 1..Tick /\ k \in 1..Tick
    BY <1>4, <1>6, <1>7
  <2>2. ~log[k].formation /\ ~RacingLap(log[m].lap)
    BY <1>3, <1>7, <2>1, LogTick
  <2>3. CASE k # n /\ m # n
    BY <1>3, <1>4, <1>7, <2>3 DEF BufferInv
  <2>4. CASE k = n
    <3>1. m # n /\ m \in FB!Held(Uid)
      BY <1>4, <1>7, <2>2, <2>4
    <3>2. SweepDue(n)
      BY <1>7, <2>4, <3>1 DEF SweepDue
    <3>3. QED
      BY <1>1, <1>4, <1>7, <3>1, <3>2
  <2>5. CASE m = n
    <3>1. k > n + 1
      BY <1>3, <1>7, <2>1, <2>2, <2>5 DEF GameInv
    <3>2. QED
      BY <1>6, <2>1, <3>1
  <2>6. QED
    BY <2>3, <2>4, <2>5
<1>8. FB!Held(Uid)' \subseteq 1..Tick'
  BY <1>4, <1>5, <1>6
<1>9. BufferInv'
  BY <1>4, <1>5, <1>7, <1>8 DEF BufferInv
<1>10. \E g \in Arriving : /\ overtaken' = Overtaken(g)
                           /\ FB!Held(Uid)' \subseteq FB!Held(Uid) \cup {g}
  BY <1>1, <1>4
<1>11. QED
  BY <1>1, <1>2, <1>4, <1>9, <1>10, FlushListener

(* Packet 13, which is written whatever the start of the race. *)
LEMMA MotionExListener ==
  ASSUME ListenerInv, NEW n \in Ticks, MotionExPacket(n)
  PROVE  ListenerInv'
<1>1. /\ n \in Arriving /\ rows' = Inserted(MotionExRow(n), rows)
      /\ UNCHANGED gameVars /\ UNCHANGED bufferVars /\ UNCHANGED grace
      /\ UNCHANGED <<gate, seen, anchor, mapped, started, lastLap, pending>>
      /\ UNCHANGED <<storedAnchor, lapRows, erased, durable>> /\ overtaken' = Overtaken(n)
  BY DEF MotionExPacket, memoryVars, bufferVars
<1>2. GameInv' /\ Growing /\ Tick' = Tick
  <2>1. overtaken \subseteq overtaken'
    BY <1>1 DEF Overtaken
  <2>2. QED
    BY <1>1, <2>1, GrowingStill
<1>3. GameInv /\ MemoryInv
  BY DEF ListenerInv
<1>4. n \in 1..Tick
  BY <1>1, <1>3, NewestAlive DEF Arriving
<1>5. MotionExRow(n) \in [table : FrameTables, frame : 1..Tick, ts : Nat]
      /\ MotionExRow(n).table = "car_frame_motion_ex"
  BY <1>3, <1>4, TimestampType DEF MotionExRow, FrameTables
<1>6. \A r \in rows' : r \in rows \/ (r = MotionExRow(n) /\ storedAnchor # None)
  BY <1>1 DEF Inserted
<1>7. Stored(storedAnchor, rows, lapRows, erased)'
  <2>1. \A r \in rows' : r \in rows \/
           /\ r \in [table : FrameTables, frame : 1..Tick', ts : Nat] /\ storedAnchor # None
           /\ log'[r.frame].formation /\ r.table # "car_frame_motion_ex"
                => r.frame \in grace' \cup undone'
    BY <1>2, <1>5, <1>6
  <2>2. QED
    BY <1>1, <1>2, <2>1, StorageAdded
<1>8. MemoryInv'
  BY <1>1 DEF ListenerInv, MemoryInv
<1>9. HistoryInv'
  BY <1>1, HistoryStays
<1>10. QED
  BY <1>1, <1>2, <1>7, <1>8, <1>9, BufferStill, StartStill, DurableStays DEF ListenerInv

(* SEND. *)
LEMMA SessionEndListener ==
  ASSUME ListenerInv, SessionEnd
  PROVE  ListenerInv'
<1>1. /\ gate = "known" /\ FB!FlushSession(Uid)
      /\ UNCHANGED gameVars /\ UNCHANGED <<gate, seen, anchor, mapped>>
      /\ UNCHANGED <<storedAnchor, erased, grace, durable, overtaken>>
  BY DEF SessionEnd, history
<1> DEFINE frames == {k[2] : k \in FB!SessionFlushes(Uid)}
<1>2. PICK order \in Orders(frames) : Flush(order)
  BY DEF SessionEnd
<1>3. frames \in SUBSET FB!Held(Uid)
  BY DEF FB!SessionFlushes
<1> HIDE DEF frames
<1>4. BufferInv' /\ FB!Held(Uid)' \subseteq FB!Held(Uid)
  <2>1. BufferInv /\ Alive' = Alive /\ log' = log /\ Tick' = Tick
    BY <1>1, SameGame DEF ListenerInv, gameVars
  <2>2. CASE FB!Held(Uid) = {}
    <3>1. UNCHANGED <<pending, current, frameOrder, currentOrder>>
      BY <1>1, <2>2 DEF FB!FlushSession, FB!bufferVars
    <3>2. FB!Held(Uid)' = FB!Held(Uid)
      BY <3>1 DEF FB!Held
    <3>3. QED
      BY <1>1, <2>1, <3>1, <3>2 DEF BufferInv, FB!BufferTypeOK
  <2>3. CASE FB!Held(Uid) # {}
    <3>1. FB!ForgetSession(Uid)
      BY <1>1, <2>3 DEF FB!FlushSession
    <3>2. /\ FB!BufferTypeOK' /\ frameOrder' \in Seq({Uid}) /\ currentOrder' \in Seq({Uid})
          /\ FB!Held(Uid)' = {}
      BY <2>1, <3>1, ForgetEffect
    <3>3. QED
      BY <3>2 DEF BufferInv
  <2>4. QED
    BY <2>2, <2>3
<1>5. QED
  BY <1>1, <1>2, <1>3, <1>4, FlushListener

(* LGOT, or SCAR with the formation lap complete, heard or lost. *)
LEMMA StartSignalListener ==
  ASSUME ListenerInv, NEW heard \in BOOLEAN, StartSignal(heard)
  PROVE  ListenerInv'
<1>1. /\ log[Newest].formation
      /\ UNCHANGED <<kind, undone, gate, seen, anchor, mapped, lastLap>>
      /\ UNCHANGED <<pending, current, frameOrder, currentOrder>>
      /\ UNCHANGED <<storedAnchor, rows, lapRows, durable, erased, overtaken>>
      /\ \/ gate = "known" /\ started' = "yes" /\ grace' = FB!Held(Uid) \cup Arriving
         \/ started' = started /\ grace' = grace
  BY DEF StartSignal, bufferVars, dbVars
<1>2. /\ GameInv /\ GameInv'
      /\ Tick' = Tick /\ Newest' = Newest /\ Alive' = Alive /\ Arriving' = Arriving
      /\ ~log'[Newest].formation
      /\ \A n \in 1..Tick : /\ log'[n].time = log[n].time
                            /\ log'[n].lap = log[n].lap
                            /\ n # Newest => log'[n].formation = log[n].formation
  BY StartSignalGame DEF ListenerInv
<1>3. /\ Tick \in Nat /\ FB!Held(Uid)' = FB!Held(Uid) /\ FB!Held(Uid) \subseteq 1..Tick
      /\ Arriving \subseteq 1..Tick /\ Newest \in 1..Tick /\ 1..Tick \subseteq Ticks
  BY <1>1, <1>2, NewestAlive DEF FB!Held, ListenerInv, BufferInv, Arriving, GameInv, Ticks
<1>4. grace = {} /\ started # "yes"
  <2>1. kind = "race"
    BY <1>1, <1>2, <1>3 DEF GameInv
  <2>2. QED
    BY <1>1, <2>1 DEF ListenerInv, StartInv
<1>5. \A n \in 1..Tick : log'[n].formation => log[n].formation
  BY <1>1, <1>2
<1>6. Growing
  BY <1>1, <1>2, <1>3, <1>4, <1>5 DEF Growing
<1>7. MemoryInv'
  BY <1>1 DEF ListenerInv, MemoryInv
<1>8. BufferInv'
  <2>1. ASSUME NEW m \in FB!Held(Uid), NEW k \in FB!Held(Uid), m \in Alive, log'[m].formation
        PROVE  ~RacingLap(log'[k].lap)
    <3>1. log[m].formation /\ log'[k].lap = log[k].lap
      BY <1>2, <1>3, <1>5, <2>1
    <3>2. QED
      BY <2>1, <3>1 DEF ListenerInv, BufferInv
  <2>2. QED
    BY <1>1, <1>2, <1>3, <2>1 DEF ListenerInv, BufferInv, FB!BufferTypeOK
<1>9. StartInv'
  <2>1. grace' \subseteq Ticks
    BY <1>1, <1>3 DEF ListenerInv, StartInv
  <2>2. started' = "yes" => \A m \in FB!Held(Uid) \cup Arriving : m \in grace'
    BY <1>1, <1>4
  <2>3. QED
    BY <1>1, <1>2, <1>3, <2>1, <2>2 DEF StartInv
<1>10. HistoryInv'
  BY <1>1, HistoryStays
<1>11. QED
  BY <1>1, <1>2, <1>6, <1>7, <1>8, <1>9, <1>10, StorageStays, DurableStays DEF ListenerInv

(* The driver rewinds. *)
LEMMA RewindListener ==
  ASSUME ListenerInv, NEW back \in Ticks, Rewind(back)
  PROVE  ListenerInv'
<1>1. /\ UNCHANGED <<kind, log, gate, seen, anchor, mapped, started, lastLap>>
      /\ UNCHANGED <<pending, current, frameOrder, currentOrder>>
      /\ UNCHANGED <<storedAnchor, rows, lapRows, durable, erased, overtaken, grace>>
  BY DEF Rewind, memoryVars, bufferVars, dbVars, history
<1>2. /\ GameInv /\ GameInv' /\ Tick' = Tick /\ log' = log
      /\ Alive' \subseteq Alive /\ Arriving' = Arriving
      /\ undone \subseteq undone'
      /\ log'[Newest'].formation <=> log[Newest].formation
  BY RewindGame DEF ListenerInv
<1>3. FB!Held(Uid)' = FB!Held(Uid)
  BY <1>1 DEF FB!Held
<1>4. Growing
  BY <1>1, <1>2, <1>3 DEF Growing, GameInv, Ticks
<1>5. MemoryInv'
  BY <1>1 DEF ListenerInv, MemoryInv
<1>6. BufferInv'
  BY <1>1, <1>2, <1>3 DEF ListenerInv, BufferInv, FB!BufferTypeOK
<1>7. StartInv'
  BY <1>1, <1>2, <1>3 DEF ListenerInv, StartInv
<1>8. HistoryInv'
  BY <1>1, HistoryStays
<1>9. QED
  BY <1>1, <1>2, <1>4, <1>5, <1>6, <1>7, <1>8, StorageStays, DurableStays DEF ListenerInv

(* FLBK, its DELETEs carried out or not. *)
LEMMA FlashbackListener ==
  ASSUME ListenerInv, NEW flbk \in rewinds, NEW tables \in SUBSET FrameTables,
         Flashback(flbk, tables)
  PROVE  ListenerInv'
<1> DEFINE late == {n \in undone : log[n].time > flbk.to}
<1>1. /\ UNCHANGED gameVars /\ UNCHANGED <<gate, seen, anchor, mapped, started>>
      /\ UNCHANGED <<storedAnchor, lapRows, durable, overtaken, grace>>
      /\ FB!ForgetSession(Uid) /\ rows' \subseteq rows /\ lastLap' = 0
      /\ erased' = [t \in FrameTables |-> IF t \in tables THEN erased[t] \cup late
                                          ELSE erased[t]]
  BY DEF Flashback, FB!DiscardSession
<1>2. /\ GameInv /\ GameInv' /\ Tick' = Tick /\ Newest' = Newest
      /\ Alive' = Alive /\ Arriving' = Arriving
      /\ log' = log /\ undone' = undone /\ kind' = kind /\ late \subseteq undone
  BY <1>1, SameGame DEF ListenerInv, gameVars
<1> HIDE DEF late
<1>3. /\ FB!BufferTypeOK' /\ frameOrder' \in Seq({Uid}) /\ currentOrder' \in Seq({Uid})
      /\ FB!Held(Uid)' = {}
  BY <1>1, ForgetEffect DEF ListenerInv
<1>4. BufferInv'
  BY <1>3 DEF BufferInv
<1>5. Growing
  BY <1>1, <1>2, <1>3 DEF Growing, GameInv, Ticks
<1>6. MemoryInv'
  <2>1. lastLap' \in 0..MaxLap
    BY <1>1 DEF ListenerInv, MemoryInv
  <2>2. QED
    BY <1>1, <2>1 DEF ListenerInv, MemoryInv
<1>7. StartInv'
  BY <1>1, <1>2, <1>3 DEF ListenerInv, StartInv
<1>8. erased \in [FrameTables -> SUBSET undone]
  BY DEF ListenerInv, Stored
<1>9. Stored(storedAnchor, rows, lapRows, erased)'
  <2>1. StoredNext(storedAnchor, rows, lapRows, erased)
    BY <1>2, <1>5, StoredStays DEF ListenerInv
  <2>2. rows' \subseteq rows
    BY <1>1
  <2>3. erased' \in [FrameTables -> SUBSET undone']
    BY <1>1, <1>2, <1>8
  <2>4. \A t \in FrameTables : erased'[t] \cap FB!Held(Uid)' \subseteq overtaken'
    BY <1>3
  <2>5. QED
    BY <1>1, <2>1, <2>2, <2>3, <2>4 DEF Stored, StoredNext
<1>10. HistoryInv'
  <2>1. \A t \in FrameTables : erased[t] \subseteq erased'[t]
    BY <1>1, <1>8
  <2>2. QED
    BY <1>1, <2>1, HistoryStays
<1>11. QED
  BY <1>1, <1>2, <1>4, <1>5, <1>6, <1>7, <1>9, <1>10, DurableStays DEF ListenerInv

(* The process stops and starts again. *)
LEMMA RestartListener ==
  ASSUME ListenerInv, Restart
  PROVE  ListenerInv'
<1>1. /\ gate' = "unknown" /\ seen' = FALSE /\ anchor' = None
      /\ mapped' = FALSE /\ started' = "unset" /\ lastLap' = 0
      /\ pending' = [s \in {Uid} |-> [n \in Ticks |-> {}]]
      /\ current' = [s \in {Uid} |-> FB!NoFrame]
      /\ frameOrder' = << >> /\ currentOrder' = << >>
      /\ UNCHANGED gameVars /\ UNCHANGED <<storedAnchor, rows, lapRows, durable, erased>>
      /\ UNCHANGED <<grace, overtaken>>
  BY DEF Restart, dbVars, history
<1>2. /\ GameInv /\ GameInv' /\ Tick' = Tick /\ Newest' = Newest
      /\ log' = log /\ undone' = undone
  BY <1>1, SameGame DEF ListenerInv, gameVars
<1>3. FB!Held(Uid)' = {}
  BY <1>1 DEF FB!Held
<1>4. Growing
  BY <1>1, <1>2, <1>3 DEF Growing, GameInv, Ticks
<1>5. MemoryInv'
  <2>1. seen' \in BOOLEAN /\ mapped' \in BOOLEAN
    BY <1>1
  <2>2. lastLap' \in 0..MaxLap
    BY <1>1
  <2>3. ~seen' /\ gate' # "known"
    BY <1>1
  <2>4. QED
    BY <1>1, <2>1, <2>2, <2>3 DEF MemoryInv
<1>6. BufferInv'
  <2>1. pending' \in [{Uid} -> [Ticks -> SUBSET (Kinds \ {"motion_ex"})]]
    BY <1>1
  <2>2. current' \in [{Uid} -> Ticks \cup {FB!NoFrame}]
    BY <1>1
  <2>3. QED
    BY <1>1, <1>3, <2>1, <2>2 DEF BufferInv, FB!BufferTypeOK
<1>7. StartInv'
  BY <1>1, <1>2 DEF ListenerInv, StartInv
<1>8. HistoryInv'
  BY <1>1, HistoryStays
<1>9. QED
  BY <1>1, <1>2, <1>4, <1>5, <1>6, <1>7, <1>8, StorageStays, DurableStays DEF ListenerInv

(* The database's log reaches the disk. *)
LEMMA LogFlushedListener ==
  ASSUME ListenerInv, LogFlushed
  PROVE  ListenerInv'
<1>1. /\ UNCHANGED gameVars /\ UNCHANGED bufferVars /\ UNCHANGED <<grace, overtaken>>
      /\ UNCHANGED <<gate, seen, anchor, mapped, started, lastLap, pending>>
      /\ UNCHANGED <<storedAnchor, rows, lapRows, erased>> /\ durable' = Committed
  BY DEF LogFlushed, memoryVars, history, bufferVars
<1>2. GameInv' /\ Growing
  BY <1>1, GrowingStill
<1>3. MemoryInv'
  BY <1>1 DEF ListenerInv, MemoryInv
<1>4. HistoryInv'
  BY <1>1, HistoryStays
<1>5. QED
  BY <1>1, <1>2, <1>3, <1>4, BufferStill, StartStill, StorageStays, DurableCommitted
     DEF ListenerInv

(* Its host crashes. *)
LEMMA DatabaseCrashListener ==
  ASSUME ListenerInv, DatabaseCrash
  PROVE  ListenerInv'
<1>1. /\ UNCHANGED gameVars /\ UNCHANGED bufferVars /\ UNCHANGED <<grace, overtaken>>
      /\ UNCHANGED <<gate, seen, anchor, mapped, started, lastLap, pending>>
      /\ storedAnchor' = durable.anchor /\ rows' = durable.rows
      /\ lapRows' = durable.lapRows /\ erased' = durable.erased
      /\ durable' = durable \/ durable' = Empty
  BY DEF DatabaseCrash, memoryVars, bufferVars
<1>2. GameInv' /\ Growing
  BY <1>1, GrowingStill
<1>3. MemoryInv'
  BY <1>1 DEF ListenerInv, MemoryInv
<1>4. StoredNext(durable.anchor, durable.rows, durable.lapRows, durable.erased)
  BY <1>2, StoredStays DEF ListenerInv, HistoryInv
<1>5. Stored(storedAnchor, rows, lapRows, erased)'
  BY <1>1, <1>4 DEF Stored, StoredNext
<1>6. Stored(durable.anchor, durable.rows, durable.lapRows, durable.erased)'
  <2>1. CASE durable' = durable
    BY <1>4, <2>1 DEF Stored, StoredNext
  <2>2. CASE durable' = Empty
    BY <2>2 DEF Empty, Stored
  <2>3. QED
    BY <1>1, <2>1, <2>2
<1>7. HistoryInv'
  <2>1. \A t \in FrameTables : Empty.erased[t] = {}
    BY DEF Empty
  <2>2. QED
    BY <1>1, <2>1 DEF ListenerInv, HistoryInv
<1>8. QED
  BY <1>1, <1>2, <1>3, <1>5, <1>6, <1>7, BufferStill, StartStill DEF ListenerInv

(* Any step of the system, or none. *)
LEMMA StepListener ==
  ASSUME ListenerInv, [Next]_vars
  PROVE  ListenerInv'
<1>1. CASE GameTick
  BY <1>1, GameTickListener
<1>2. CASE SomeSessionPacket
  <2>1. PICK failed \in SUBSET (Faults \ {"delete"}), lag \in Lags : SessionPacket(failed, lag)
    BY <1>2 DEF SomeSessionPacket
  <2>2. QED
    BY <2>1, SessionPacketListener
<1>3. CASE ParticipantsPacket
  BY <1>3, ParticipantsListener
<1>4. ASSUME NEW n \in Ticks, NEW p \in Kinds \ {"motion_ex"}, NEW sweep \in BOOLEAN,
             FramePacket(n, p, sweep)
      PROVE  ListenerInv'
  BY <1>4, FramePacketListener
<1>5. ASSUME NEW n \in Ticks, MotionExPacket(n)
      PROVE  ListenerInv'
  BY <1>5, MotionExListener
<1>6. CASE SessionEnd
  BY <1>6, SessionEndListener
<1>7. ASSUME NEW heard \in BOOLEAN, StartSignal(heard)
      PROVE  ListenerInv'
  BY <1>7, StartSignalListener
<1>8. ASSUME NEW flbk \in rewinds,
             NEW tables \in (IF "delete" \in Faults THEN SUBSET FrameTables ELSE {FrameTables}),
             Flashback(flbk, tables)
      PROVE  ListenerInv'
  <2>1. tables \in SUBSET FrameTables
    OBVIOUS
  <2>2. QED
    BY <1>8, <2>1, FlashbackListener
<1>9. CASE Restart
  BY <1>9, RestartListener
<1>10. CASE LogFlushed
  BY <1>10, LogFlushedListener
<1>11. CASE DatabaseCrash
  BY <1>11, DatabaseCrashListener
<1>12. CASE UNCHANGED vars
  <2>1. /\ UNCHANGED gameVars /\ UNCHANGED bufferVars /\ UNCHANGED <<grace, overtaken>>
        /\ UNCHANGED <<gate, seen, anchor, mapped, started, lastLap, pending>>
        /\ UNCHANGED <<storedAnchor, rows, lapRows, erased>> /\ UNCHANGED durable
    BY <1>12 DEF vars, gameVars, bufferVars
  <2>2. GameInv' /\ Growing
    BY <2>1, GrowingStill
  <2>3. MemoryInv'
    BY <2>1 DEF ListenerInv, MemoryInv
  <2>4. HistoryInv'
    BY <2>1, HistoryStays
  <2>5. QED
    BY <2>1, <2>2, <2>3, <2>4, BufferStill, StartStill, StorageStays, DurableStays
       DEF ListenerInv
<1>13. ASSUME NEW back \in Ticks, Rewind(back)
       PROVE  ListenerInv'
  BY <1>13, RewindListener
<1>14. QED
  BY <1>1, <1>2, <1>3, <1>4, <1>5, <1>6, <1>7, <1>8, <1>9, <1>10, <1>11, <1>12, <1>13 DEF Next

(* The invariant, for any values of the constants. *)
LEMMA ListenerInvariant == Spec => []ListenerInv
<1>1. Init => ListenerInv
  BY InitListener
<1>2. ListenerInv /\ [Next]_vars => ListenerInv'
  BY StepListener
<1>3. QED
  BY <1>1, <1>2, PTL DEF Spec

(* What the invariant says of each variable. *)
LEMMA ListenerTypes == ListenerInv => TypeOK
<1> SUFFICES ASSUME ListenerInv PROVE TypeOK
  OBVIOUS
<1>1. /\ log \in Seq([time : Nat, lap : 1..MaxLap, formation : BOOLEAN]) /\ Tick \in Ticks
      /\ undone \subseteq 2..Tick /\ rewinds \subseteq [to : Nat, at : 1..Tick]
  BY DEF ListenerInv, GameInv, Rewound, TickRecord
<1>2. /\ 1..Tick \subseteq Ticks /\ undone \subseteq Ticks
      /\ rewinds \subseteq [to : Nat, at : Ticks]
  BY <1>1 DEF Ticks
<1>3. ASSUME NEW start, NEW store, NEW laps, NEW gone, Stored(start, store, laps, gone)
      PROVE  /\ start \in Nat \cup {None} /\ store \subseteq Row /\ laps \subseteq 1..MaxLap
             /\ gone \in [FrameTables -> SUBSET Ticks]
  <2>1. store \subseteq Row
    BY <1>2, <1>3 DEF Stored, Row
  <2>2. gone \in [FrameTables -> SUBSET Ticks]
    BY <1>2, <1>3 DEF Stored
  <2>3. QED
    BY <1>3, <2>1, <2>2 DEF Stored
<1>4. /\ storedAnchor \in Nat \cup {None} /\ rows \subseteq Row /\ lapRows \subseteq 1..MaxLap
      /\ erased \in [FrameTables -> SUBSET Ticks]
  BY <1>3 DEF ListenerInv
<1>5. /\ durable.anchor \in Nat \cup {None} /\ durable.rows \subseteq Row
      /\ durable.lapRows \subseteq 1..MaxLap
      /\ durable.erased \in [FrameTables -> SUBSET Ticks]
  BY <1>3 DEF ListenerInv
<1>6. /\ gate \in {"unknown", "known", "excluded"} /\ anchor \in Nat \cup {None}
      /\ seen \in BOOLEAN /\ mapped \in BOOLEAN
      /\ started \in {"unset", "no", "yes"} /\ lastLap \in 0..MaxLap
  BY DEF ListenerInv, MemoryInv
<1>7. FB!BufferTypeOK /\ overtaken \subseteq Ticks /\ grace \subseteq Ticks
  BY DEF ListenerInv, BufferInv, StartInv, HistoryInv
<1>8. QED
  BY <1>1, <1>2, <1>4, <1>5, <1>6, <1>7 DEF TypeOK

(* The gates, the buffer and the tables keep their types for a session of  *)
(* any length (dispatcher.py 116-138, session.py 42-60): an anchor is a    *)
(* time, and a row is of a tick that was driven.                           *)
THEOREM ListenerTypeCorrect == Spec => []TypeOK
<1>1. Spec => []ListenerInv
  BY ListenerInvariant
<1>2. QED
  BY <1>1, ListenerTypes, PTL

(* The formation lap stays out of the rows, however far it is driven, with *)
(* any packets lost, late or repeated, and over restarts and crashes       *)
(* (car_frame.py 284-287, dispatcher.py 208-213, 251-257, 455-463).        *)
THEOREM FormationLapUnrecorded == Spec => []FormationNotRecorded
<1>1. ListenerInv => FormationNotRecorded
  BY DEF ListenerInv, Stored, FormationNotRecorded
<1>2. Spec => []ListenerInv
  BY ListenerInvariant
<1>3. QED
  BY <1>1, <1>2, PTL

(* A lap has a snapshot only when the driver has gone on from it           *)
(* (dispatcher.py 490-523). *)
THEOREM SnapshotsFollowLaps == Spec => []SnapshotsOfDrivenLaps
<1>1. ListenerInv => SnapshotsOfDrivenLaps
  BY DEF ListenerInv, Stored, SnapshotsOfDrivenLaps
<1>2. Spec => []ListenerInv
  BY ListenerInvariant
<1>3. QED
  BY <1>1, <1>2, PTL

-----------------------------------------------------------------------------
(* The backstop *)

(* A frame of a racing lap that is flushed has its row, whatever was       *)
(* flushed before and after it. *)
LEMMA RacingFlushRecords ==
  ASSUME ListenerInv, gate = "known", mapped, storedAnchor # None,
         NEW frames \in SUBSET FB!Held(Uid), NEW order \in Orders(frames), Flush(order),
         NEW n \in frames, "lap" \in pending[Uid][n], RacingLap(log[n].lap)
  PROVE  FrameRow(n) \in rows'
<1>1. frames \in SUBSET Ticks
  BY DEF FB!Held
<1>2. /\ order \in Seq(Ticks) /\ \A i \in 1..Len(order) : order[i] \in FB!Held(Uid)
      /\ \E i \in 1..Len(order) : order[i] = n
  BY <1>1, OrderLists
<1>3. FlushState \in FlushStates
  BY FlushStart
<1>4. \A st \in FlushStates, i \in 1..Len(order) :
        FlushFrame(st, order[i]) \in FlushStates /\ st.rows \subseteq FlushFrame(st, order[i]).rows
  BY <1>2, FlushFrameStays
<1>5. PICK after \in [0..Len(order) -> FlushStates] :
        /\ \A i \in 1..Len(order) : after[i] = FlushFrame(after[i - 1], order[i])
        /\ Flushed(order) = after[Len(order)]
  BY <1>2, <1>3, <1>4, FlushByStep
<1>6. PICK j \in 1..Len(order) : order[j] = n
  BY <1>2
<1>7. FrameRow(n) \in after[j].rows
  <2> DEFINE st == after[j - 1]
  <2>1. j - 1 \in 0..Len(order) /\ st \in FlushStates
    BY <1>2, <1>5
  <2>2. after[j] = FlushFrame(st, n)
    BY <1>5, <1>6
  <2> HIDE DEF st
  <2>3. log[n].time >= 1
    BY LogTick DEF ListenerInv, BufferInv
  <2>4. n \in 1..Tick /\ log[n].time \in Nat
    BY LogTick DEF ListenerInv, BufferInv
  <2>5. FlushFrame(st, n).rows = FrameWritten(pending[Uid][n], n, st.rows)
    BY <2>3, <2>4 DEF FlushFrame
  <2>6. FrameRow(n) \in FrameWritten(pending[Uid][n], n, st.rows)
    BY DEF FrameWritten, Inserted
  <2>7. QED
    BY <2>2, <2>5, <2>6
<1> DEFINE m == Len(order) - j
           F == {i \in 0..m : FrameRow(n) \in after[j + i].rows}
<1>8. m \in Nat /\ j \in Nat /\ j >= 1 /\ Len(order) \in Nat /\ m <= Len(order)
  BY <1>2
<1>9. 0 \in F
  BY <1>7, <1>8
<1>10. ASSUME NEW i \in 0..m - 1, i \in F PROVE i + 1 \in F
  <2>1. /\ i + 1 \in 0..m /\ j + (i + 1) \in 1..Len(order) /\ j + i \in 0..Len(order)
        /\ j + (i + 1) - 1 = j + i
    BY <1>8
  <2>2. after[j + (i + 1)] = FlushFrame(after[j + i], order[j + (i + 1)])
    <3>1. PICK q \in 1..Len(order) : q = j + (i + 1)
      BY <2>1
    <3>2. after[q] = FlushFrame(after[q - 1], order[q])
      BY <1>5
    <3>3. q - 1 = j + i
      BY <2>1, <3>1
    <3>4. QED
      BY <3>1, <3>2, <3>3
  <2>3. after[j + i] \in FlushStates
    BY <1>5, <2>1
  <2>4. after[j + i].rows \subseteq after[j + (i + 1)].rows
    BY <1>4, <2>1, <2>2, <2>3
  <2>5. QED
    BY <1>10, <2>1, <2>4
<1> HIDE DEF F
<1>11. 0..m \subseteq F
  <2> HIDE DEF m
  <2>1. QED
    BY <1>8, <1>9, <1>10, UpToInduction
<1>12. FrameRow(n) \in after[Len(order)].rows
  <2>1. m \in F /\ j + m = Len(order)
    BY <1>8, <1>11
  <2>2. QED
    BY <2>1 DEF F
<1>13. QED
  BY <1>5, <1>12 DEF Flush

(* The disturbances are counted. *)
Counted == {restarts, crashes} \subseteq Nat

LEMMA CountedAlways == Spec => []Counted
<1>1. Init => Counted
  BY DEF Init, Counted
<1>2. Counted /\ [Next]_vars => Counted'
  BY DEF Counted, Next, vars, budgets, GameTick, SomeSessionPacket, SessionPacket,
         ParticipantsPacket, FramePacket, MotionExPacket, SessionEnd, StartSignal, Rewind,
         Flashback, Restart, LogFlushed, DatabaseCrash
<1>3. QED
  BY <1>1, <1>2, PTL DEF Spec

(* Only a flush, a flashback, a restart empties a frame of the buffer; the *)
(* bound variable of the property, at a step. *)
LEMMA RacingLapStep ==
  ASSUME ListenerInv, Counted, [Next]_vars, NEW n \in 1..Tick,
         "lap" \in pending[Uid][n], pending'[Uid][n] = {},
         RacingLap(log[n].lap), storedAnchor # None, restarts' = restarts,
         ~\E flbk \in rewinds, tables \in SUBSET FrameTables : Flashback(flbk, tables)
  PROVE  \E r \in rows' : r.table = "car_frame" /\ r.frame = n
<1> USE DEF RacingLap
<1>1. SUFFICES FrameRow(n) \in rows'
  BY DEF FrameRow
<1>2. Tick \in Ticks /\ n \in Ticks
  BY DEF ListenerInv, GameInv, Ticks
<1>3. n \in FB!Held(Uid) /\ mapped
  BY <1>2 DEF FB!Held, ListenerInv, BufferInv
<1>4. pending' # pending
  OBVIOUS
<1>5. CASE \E g \in Ticks, p \in Kinds \ {"motion_ex"}, sweep \in BOOLEAN : FramePacket(g, p, sweep)
  <2>1. PICK g \in Ticks, p \in Kinds \ {"motion_ex"}, sweep \in BOOLEAN : FramePacket(g, p, sweep)
    BY <1>5
  <2>2. gate = "known" /\ FB!Add(Uid, g, p, sweep) /\ BufferInv
    BY <2>1 DEF FramePacket, ListenerInv
  <2>3. PICK order \in Orders(AddedFrames(g, sweep)) : Flush(order)
    BY <2>1 DEF FramePacket, AddedFrames
  <2>4. AddLeaves(g, sweep)
    BY <2>2, AddEffect
  <2>5. AddedFrames(g, sweep) \in SUBSET FB!Held(Uid) /\ n \in AddedFrames(g, sweep)
    BY <1>3, <2>4 DEF AddLeaves
  <2>6. QED
    BY <1>3, <2>2, <2>3, <2>5, RacingFlushRecords
<1>6. CASE SessionEnd
  <2> DEFINE frames == {k[2] : k \in FB!SessionFlushes(Uid)}
  <2>1. PICK order \in Orders(frames) : Flush(order)
    BY <1>6 DEF SessionEnd
  <2>2. gate = "known"
    BY <1>6 DEF SessionEnd
  <2>3. frames \in SUBSET FB!Held(Uid) /\ n \in frames
    <3>1. <<Uid, n>> \in FB!SessionFlushes(Uid) /\ n = <<Uid, n>>[2]
      BY <1>3 DEF FB!SessionFlushes
    <3>2. frames \in SUBSET FB!Held(Uid)
      BY DEF FB!SessionFlushes
    <3>3. QED
      BY <3>1, <3>2
  <2> HIDE DEF frames
  <2>4. QED
    BY <1>3, <2>1, <2>2, <2>3, RacingFlushRecords
<1>7. ~(\E flbk \in rewinds,
           tables \in (IF "delete" \in Faults THEN SUBSET FrameTables ELSE {FrameTables}) :
             Flashback(flbk, tables))
  OBVIOUS
<1>8. ~Restart
  BY DEF Restart, Counted
<1>9. ~GameTick /\ ~SomeSessionPacket /\ ~ParticipantsPacket
  BY <1>4 DEF GameTick, SomeSessionPacket, SessionPacket, ParticipantsPacket, bufferVars
<1>10. ~LogFlushed /\ ~DatabaseCrash /\ ~UNCHANGED vars
  BY <1>4 DEF LogFlushed, DatabaseCrash, bufferVars, vars
<1>11. /\ ~\E g \in Ticks : MotionExPacket(g)
       /\ ~\E heard \in BOOLEAN : StartSignal(heard)
       /\ ~\E back \in Ticks : Rewind(back)
  BY <1>4 DEF MotionExPacket, StartSignal, Rewind, bufferVars
<1>12. QED
  BY <1>5, <1>6, <1>7, <1>8, <1>9, <1>10, <1>11 DEF Next

(* "a missed start event can never cost a whole race's telemetry"          *)
(* (dispatcher.py:73-75): whatever the process knows of the start of the   *)
(* race, a frame of a racing lap that leaves the buffer is in the table. *)
THEOREM BackstopRecords == Spec => RacingLapsRecorded
<1> DEFINE Racing(n) ==
      /\ "lap" \in pending[Uid][n] /\ pending'[Uid][n] = {}
      /\ log[n].lap >= 2 /\ storedAnchor # None
      /\ restarts' = restarts
      /\ ~\E flbk \in rewinds, tables \in SUBSET FrameTables : Flashback(flbk, tables)
      => \E r \in rows' : r.table = "car_frame" /\ r.frame = n
<1>1. ListenerInv /\ Counted /\ [Next]_vars => \A n \in 1..Tick : Racing(n)
  BY RacingLapStep DEF RacingLap
<1>2. ListenerInv /\ Counted /\ [Next]_vars => [\A n \in 1..Tick : Racing(n)]_vars
  BY <1>1
<1> HIDE DEF Racing
<1>3. Spec => [][\A n \in 1..Tick : Racing(n)]_vars
  BY <1>2, ListenerInvariant, CountedAlways, PTL DEF Spec
<1>4. QED
  BY <1>3 DEF RacingLapsRecorded, Racing

-----------------------------------------------------------------------------
(* What a DELETE may take of the run that stands *)

LEMMA StandingStep ==
  ASSUME ListenerInv, Counted, [Next]_vars, NEW r \in rows \ rows'
  PROVE  \/ r.frame \in undone
         \/ crashes' # crashes
         \/ \E flbk \in rewinds : InTheAir(flbk.at) /\ flbk.at < r.frame
<1>1. CASE \E flbk \in rewinds,
           tables \in (IF "delete" \in Faults THEN SUBSET FrameTables ELSE {FrameTables}) :
             Flashback(flbk, tables)
  <2>1. PICK flbk \in rewinds,
             tables \in (IF "delete" \in Faults THEN SUBSET FrameTables ELSE {FrameTables}) :
               Flashback(flbk, tables)
    BY <1>1
  <2>2. InTheAir(flbk.at) /\ \E t \in tables : r \in Deleted(t, flbk.to)
    BY <2>1 DEF Flashback
  <2>3. log[r.frame].time > flbk.to /\ r.frame \in 1..Tick
    BY <2>2 DEF Deleted, ListenerInv, Stored
  <2>4. flbk.at \in 1..Tick /\ Tick \in Nat
    BY DEF ListenerInv, GameInv, Rewound, Ticks
  <2>5. CASE r.frame <= flbk.at
    <3>1. r.frame \in 1..flbk.at
      BY <2>3, <2>4, <2>5
    <3>2. QED
      BY <2>3, <3>1 DEF ListenerInv, GameInv, Rewound
  <2>6. CASE ~(r.frame <= flbk.at)
    BY <2>2, <2>3, <2>4, <2>6
  <2>7. QED
    BY <2>5, <2>6
<1>2. CASE DatabaseCrash
  BY <1>2 DEF DatabaseCrash, Counted
<1>3. ~\E n \in Ticks, p \in Kinds \ {"motion_ex"}, sweep \in BOOLEAN : FramePacket(n, p, sweep)
  <2> SUFFICES ASSUME NEW n \in Ticks, NEW p \in Kinds \ {"motion_ex"}, NEW sweep \in BOOLEAN,
                      FramePacket(n, p, sweep)
               PROVE  FALSE
    OBVIOUS
  <2>1. gate = "known" /\ FB!Add(Uid, n, p, sweep) /\ BufferInv
    BY DEF FramePacket, ListenerInv
  <2>2. PICK order \in Orders(AddedFrames(n, sweep)) : Flush(order)
    BY DEF FramePacket, AddedFrames
  <2>3. AddLeaves(n, sweep)
    BY <2>1, AddEffect
  <2>4. AddedFrames(n, sweep) \in SUBSET FB!Held(Uid)
    BY <2>3 DEF AddLeaves
  <2>5. rows \subseteq rows'
    BY <2>1, <2>2, <2>4, FlushSound
  <2>6. QED
    BY <2>5
<1>4. ~SessionEnd
  <2> SUFFICES ASSUME SessionEnd PROVE FALSE
    OBVIOUS
  <2> DEFINE frames == {k[2] : k \in FB!SessionFlushes(Uid)}
  <2>1. PICK order \in Orders(frames) : Flush(order)
    BY DEF SessionEnd
  <2>2. gate = "known" /\ frames \in SUBSET FB!Held(Uid)
    BY DEF SessionEnd, FB!SessionFlushes
  <2> HIDE DEF frames
  <2>3. rows \subseteq rows'
    BY <2>1, <2>2, FlushSound
  <2>4. QED
    BY <2>3
<1>5. ~\E n \in Ticks : MotionExPacket(n)
  BY DEF MotionExPacket, Inserted
<1>6. /\ ~GameTick /\ ~SomeSessionPacket /\ ~ParticipantsPacket /\ ~Restart /\ ~LogFlushed
      /\ ~UNCHANGED vars
      /\ ~\E heard \in BOOLEAN : StartSignal(heard)
      /\ ~\E back \in Ticks : Rewind(back)
  BY DEF GameTick, SomeSessionPacket, SessionPacket, ParticipantsPacket, Restart, LogFlushed,
         StartSignal, Rewind, dbVars, vars
<1>7. QED
  BY <1>1, <1>2, <1>3, <1>4, <1>5, <1>6 DEF Next

(* A flashback takes rows of the run it undoes, and of the run that stands *)
(* at most those of ticks driven before its FLBK was handled, whatever is  *)
(* lost, late or repeated (dispatcher.py 360-403, base.py 97-130).         *)
THEOREM StandingRowsKept == Spec => StandingRowsStay
<1> DEFINE Kept == \A r \in rows \ rows' :
      \/ r.frame \in undone
      \/ crashes' # crashes
      \/ \E flbk \in rewinds : InTheAir(flbk.at) /\ flbk.at < r.frame
<1>1. ListenerInv /\ Counted /\ [Next]_vars => Kept
  BY StandingStep
<1>2. ListenerInv /\ Counted /\ [Next]_vars => [Kept]_vars
  BY <1>1
<1> HIDE DEF Kept
<1>3. Spec => [][Kept]_vars
  BY <1>2, ListenerInvariant, CountedAlways, PTL DEF Spec
<1>4. QED
  BY <1>3 DEF StandingRowsStay, Kept

-----------------------------------------------------------------------------
(* The anchor *)

(* The session time of a tick never changes. *)
LEMMA TimesStay ==
  ASSUME ListenerInv, [Next]_vars, NEW n \in 1..Tick
  PROVE  log'[n].time = log[n].time
<1>1. CASE GameTick
  BY <1>1, GameTickGame DEF ListenerInv
<1>2. CASE \E heard \in BOOLEAN : StartSignal(heard)
  BY <1>2, StartSignalGame DEF ListenerInv
<1>3. CASE log' = log
  BY <1>3
<1>4. QED
  BY <1>1, <1>2, <1>3
     DEF Next, vars, gameVars, SomeSessionPacket, SessionPacket, ParticipantsPacket,
         FramePacket, MotionExPacket, SessionEnd, Rewind, Flashback, Restart, LogFlushed,
         DatabaseCrash

(* That a datagram came late is not forgotten. *)
LEMMA OvertakenStays ==
  ASSUME [Next]_vars
  PROVE  overtaken \subseteq overtaken'
<1>1. CASE \E n \in Ticks, p \in Kinds \ {"motion_ex"}, sweep \in BOOLEAN :
             FramePacket(n, p, sweep)
  BY <1>1 DEF FramePacket, Overtaken
<1>2. CASE \E n \in Ticks : MotionExPacket(n)
  BY <1>2 DEF MotionExPacket, Overtaken
<1>3. CASE UNCHANGED overtaken
  BY <1>3
<1>4. QED
  BY <1>1, <1>2, <1>3
     DEF Next, vars, history, GameTick, SomeSessionPacket, SessionPacket, ParticipantsPacket,
         SessionEnd, StartSignal, Rewind, Flashback, Restart, LogFlushed, DatabaseCrash

AnchoredNext(start, store, gone) ==
  \A r \in store : /\ r.ts = start + log'[r.frame].time
                   /\ r.frame \in gone[r.table] => r.frame \in overtaken'

LEMMA AnchoredStays ==
  ASSUME ListenerInv, [Next]_vars, NEW start, NEW store, NEW laps, NEW gone,
         Stored(start, store, laps, gone), Anchored(start, store, gone)
  PROVE  AnchoredNext(start, store, gone)
<1> SUFFICES ASSUME NEW r \in store
             PROVE  /\ r.ts = start + log'[r.frame].time
                    /\ r.frame \in gone[r.table] => r.frame \in overtaken'
  BY DEF AnchoredNext
<1>1. r.frame \in 1..Tick
  BY DEF Stored
<1>2. log'[r.frame].time = log[r.frame].time
  BY <1>1, TimesStay
<1>3. QED
  BY <1>2, OvertakenStays DEF Anchored

(* A row written now lies at the stored anchor, and a DELETE that has      *)
(* covered its frame was overtaken by the datagram: it is in the buffer    *)
(* since, or has just arrived.                                             *)
LEMMA WrittenAnchored ==
  ASSUME ListenerInv, AnchorInv, gate = "known", storedAnchor # None,
         NEW n, n \in FB!Held(Uid) \/ (n \in Arriving /\ overtaken' = Overtaken(n)),
         overtaken \subseteq overtaken', NEW t \in FrameTables
  PROVE  /\ n \in 1..Tick /\ Timestamp(n) = storedAnchor + log[n].time
         /\ n \in erased[t] => n \in overtaken'
<1>1. anchor # None /\ anchor = storedAnchor
  BY DEF ListenerInv, MemoryInv, AnchorInv
<1>2. n \in 1..Tick
  BY NewestAlive DEF ListenerInv, BufferInv, Arriving
<1>3. erased[t] \cap FB!Held(Uid) \subseteq overtaken
  BY DEF ListenerInv, Stored
<1>4. n \in erased[t] => n \in overtaken'
  BY <1>3 DEF Overtaken
<1>5. QED
  BY <1>1, <1>2, <1>4 DEF Timestamp

(* What a crash of the host would leave. *)
LEMMA DurableAnchored ==
  ASSUME ListenerInv, AnchorInv, [Next]_vars, durable' = durable \/ durable' = Committed
  PROVE  /\ durable'.anchor # None => storedAnchor = durable'.anchor
         /\ AnchoredNext(durable'.anchor, durable'.rows, durable'.erased)
<1>1. CASE durable' = durable
  <2>1. AnchoredNext(durable.anchor, durable.rows, durable.erased)
    BY AnchoredStays DEF ListenerInv, AnchorInv
  <2>2. QED
    BY <1>1, <2>1 DEF AnchorInv
<1>2. CASE durable' # durable
  <2>1. durable' = [anchor |-> storedAnchor, rows |-> rows, lapRows |-> lapRows,
                    erased |-> erased]
    BY <1>2 DEF Committed
  <2>2. AnchoredNext(storedAnchor, rows, erased)
    BY AnchoredStays DEF ListenerInv, AnchorInv
  <2>3. QED
    BY <2>1, <2>2
<1>3. QED
  BY <1>1, <1>2

(* A step that writes rows of frames in the buffer or in the air, if any. *)
LEMMA AnchorKept ==
  ASSUME ListenerInv, AnchorInv, [Next]_vars, UNCHANGED <<storedAnchor, erased>>,
         anchor' = anchor \/ anchor' = None, durable' = durable \/ durable' = Committed,
         \A r \in rows' : r \in rows \/
            /\ gate = "known" /\ storedAnchor # None
            /\ \/ r.frame \in FB!Held(Uid)
               \/ r.frame \in Arriving /\ overtaken' = Overtaken(r.frame)
            /\ r.table \in FrameTables /\ r.ts = Timestamp(r.frame)
  PROVE  AnchorInv'
<1>1. AnchoredNext(storedAnchor, rows, erased)
  BY AnchoredStays DEF ListenerInv, AnchorInv
<1>2. ASSUME NEW r \in rows', r \notin rows
      PROVE  /\ r.ts = storedAnchor + log'[r.frame].time
             /\ r.frame \in erased[r.table] => r.frame \in overtaken'
  <2>1. /\ gate = "known" /\ storedAnchor # None
        /\ \/ r.frame \in FB!Held(Uid)
           \/ r.frame \in Arriving /\ overtaken' = Overtaken(r.frame)
        /\ r.table \in FrameTables /\ r.ts = Timestamp(r.frame)
    BY <1>2
  <2>2. /\ r.frame \in 1..Tick /\ Timestamp(r.frame) = storedAnchor + log[r.frame].time
        /\ r.frame \in erased[r.table] => r.frame \in overtaken'
    BY <2>1, OvertakenStays, WrittenAnchored
  <2>3. QED
    BY <2>1, <2>2, TimesStay
<1>3. AnchoredNext(storedAnchor, rows', erased)
  BY <1>1, <1>2 DEF AnchoredNext
<1>4. /\ durable'.anchor # None => storedAnchor = durable'.anchor
      /\ AnchoredNext(durable'.anchor, durable'.rows, durable'.erased)
  BY DurableAnchored
<1>5. Anchored(storedAnchor, rows, erased)'
  BY <1>3 DEF Anchored, AnchoredNext
<1>6. Anchored(durable.anchor, durable.rows, durable.erased)'
  BY <1>4 DEF Anchored, AnchoredNext
<1>7. anchor' # None /\ storedAnchor' # None => anchor' = storedAnchor'
  BY DEF AnchorInv
<1>8. QED
  BY <1>4, <1>5, <1>6, <1>7 DEF AnchorInv

(* A flush writes rows of frames in the buffer. *)
LEMMA FlushAnchor ==
  ASSUME ListenerInv, AnchorInv, [Next]_vars, gate = "known",
         NEW frames \in SUBSET FB!Held(Uid), NEW order \in Orders(frames), Flush(order),
         UNCHANGED <<storedAnchor, erased, anchor, durable>>
  PROVE  AnchorInv'
<1>1. \A r \in rows' : r \in rows \/ NewRow(r)
  BY FlushSound
<1>2. \A r \in rows' : r \in rows \/
         /\ gate = "known" /\ storedAnchor # None
         /\ r.frame \in FB!Held(Uid)
         /\ r.table \in FrameTables /\ r.ts = Timestamp(r.frame)
  BY <1>1 DEF NewRow
<1>3. QED
  BY <1>2, AnchorKept

(* The anchor of the process is the one the database keeps. *)
LEMMA SessionPacketAnchor ==
  ASSUME "anchor_read" \notin Faults, ListenerInv, AnchorInv, [Next]_vars,
         NEW failed \in SUBSET (Faults \ {"delete"}), NEW lag \in Lags,
         SessionPacket(failed, lag)
  PROVE  AnchorInv'
<1>1. UNCHANGED <<rows, erased, durable>>
  BY DEF SessionPacket, history
<1>2. CASE UNCHANGED <<anchor, storedAnchor>>
  BY <1>1, <1>2, AnchorKept
<1>3. CASE ~UNCHANGED <<anchor, storedAnchor>>
  <2> DEFINE local == Tick + lag - log[Newest].time
  <2>1. InsertSession(failed, lag)
    BY <1>3 DEF SessionPacket
  <2>2. storedAnchor' = SessionUpserted(failed, local)
        /\ anchor' = AnchorAfter(failed, storedAnchor', local)
    BY <2>1 DEF InsertSession
  <2> HIDE DEF local
  <2>3. storedAnchor # None => storedAnchor' = storedAnchor
    BY <2>2 DEF SessionUpserted
  <2>4. anchor' # None /\ storedAnchor' # None => anchor' = storedAnchor'
    BY <2>2 DEF AnchorAfter, ReadBack
  <2>5. /\ durable'.anchor # None => storedAnchor = durable'.anchor
        /\ AnchoredNext(durable'.anchor, durable'.rows, durable'.erased)
    BY <1>1, DurableAnchored
  <2>6. AnchoredNext(storedAnchor', rows', erased')
    <3>1. CASE storedAnchor = None
      <4>1. rows' = {}
        BY <1>1, <3>1 DEF ListenerInv, Stored
      <4>2. QED
        BY <4>1 DEF AnchoredNext
    <3>2. CASE storedAnchor # None
      <4>1. AnchoredNext(storedAnchor, rows, erased)
        BY AnchoredStays DEF ListenerInv, AnchorInv
      <4>2. QED
        BY <1>1, <2>3, <3>2, <4>1
    <3>3. QED
      BY <3>1, <3>2
  <2>7. Anchored(storedAnchor, rows, erased)'
    BY <2>6 DEF Anchored, AnchoredNext
  <2>8. Anchored(durable.anchor, durable.rows, durable.erased)'
    BY <2>5 DEF Anchored, AnchoredNext
  <2>9. durable'.anchor # None => storedAnchor' = durable'.anchor
    BY <2>3, <2>5
  <2>10. QED
    BY <2>4, <2>7, <2>8, <2>9 DEF AnchorInv
<1>4. QED
  BY <1>2, <1>3

(* A DELETE takes every row past the point of return: the bound on the     *)
(* timestamp agrees with the one on the session time.                      *)
LEMMA FlashbackAnchor ==
  ASSUME ListenerInv, AnchorInv, [Next]_vars,
         NEW flbk \in rewinds, NEW tables \in SUBSET FrameTables, Flashback(flbk, tables)
  PROVE  AnchorInv'
<1> DEFINE late == {n \in undone : log[n].time > flbk.to}
<1>1. /\ UNCHANGED <<anchor, storedAnchor, durable, overtaken>> /\ log' = log
      /\ rows' = rows \ UNION {Deleted(t, flbk.to) : t \in tables}
      /\ erased' = [t \in FrameTables |-> IF t \in tables THEN erased[t] \cup late
                                          ELSE erased[t]]
  BY DEF Flashback, gameVars
<1>2. ASSUME NEW r \in rows'
      PROVE  /\ r.ts = storedAnchor + log[r.frame].time
             /\ r.frame \in erased'[r.table] => r.frame \in overtaken
  <2>1. r \in rows /\ \A t \in tables : r \notin Deleted(t, flbk.to)
    BY <1>1
  <2>2. /\ r.ts = storedAnchor + log[r.frame].time
        /\ r.frame \in erased[r.table] => r.frame \in overtaken
    BY <2>1 DEF AnchorInv, Anchored
  <2>3. r.frame \in 1..Tick /\ r.table \in FrameTables /\ storedAnchor # None
        /\ storedAnchor \in Nat
    BY <2>1 DEF ListenerInv, Stored
  <2>4. anchor # None => anchor = storedAnchor
    BY <2>3 DEF AnchorInv
  <2>5. log[r.frame].time \in Nat
    BY <2>3, LogTick DEF ListenerInv
  <2>6. flbk.to \in Nat
    BY DEF ListenerInv, GameInv, Rewound
  <2>7. r.table \in tables => ~(log[r.frame].time > flbk.to)
    BY <2>1, <2>2, <2>3, <2>4, <2>5, <2>6 DEF Deleted
  <2>8. erased'[r.table] = IF r.table \in tables THEN erased[r.table] \cup late
                           ELSE erased[r.table]
    BY <1>1, <2>3
  <2>9. QED
    BY <2>2, <2>7, <2>8
<1>3. Anchored(storedAnchor, rows, erased)'
  BY <1>1, <1>2 DEF Anchored
<1>4. /\ durable'.anchor # None => storedAnchor = durable'.anchor
      /\ AnchoredNext(durable'.anchor, durable'.rows, durable'.erased)
  BY <1>1, DurableAnchored
<1>5. Anchored(durable.anchor, durable.rows, durable.erased)'
  BY <1>4 DEF Anchored, AnchoredNext
<1>6. QED
  BY <1>1, <1>3, <1>4, <1>5 DEF AnchorInv

(* A crash takes the anchor back with everything that rests on it. *)
LEMMA DatabaseCrashAnchor ==
  ASSUME ListenerInv, AnchorInv, [Next]_vars, DatabaseCrash
  PROVE  AnchorInv'
<1>1. /\ storedAnchor' = durable.anchor /\ rows' = durable.rows /\ erased' = durable.erased
      /\ durable' = durable \/ durable' = Empty
      /\ UNCHANGED anchor
  BY DEF DatabaseCrash, memoryVars
<1>2. AnchoredNext(durable.anchor, durable.rows, durable.erased)
  BY AnchoredStays DEF ListenerInv, AnchorInv
<1>3. Anchored(storedAnchor, rows, erased)'
  BY <1>1, <1>2 DEF Anchored, AnchoredNext
<1>4. /\ durable'.anchor # None => durable' = durable
      /\ Anchored(durable.anchor, durable.rows, durable.erased)'
  BY <1>1, <1>2 DEF Anchored, AnchoredNext, Empty
<1>5. QED
  BY <1>1, <1>3, <1>4 DEF AnchorInv

(* Any step, while an anchor that is stored can be read back. *)
LEMMA StepAnchor ==
  ASSUME "anchor_read" \notin Faults, ListenerInv, AnchorInv, [Next]_vars
  PROVE  AnchorInv'
<1>1. CASE /\ UNCHANGED <<storedAnchor, erased, rows>>
           /\ anchor' = anchor \/ anchor' = None
           /\ durable' = durable \/ durable' = Committed
  BY <1>1, AnchorKept
<1>2. ASSUME NEW failed \in SUBSET (Faults \ {"delete"}), NEW lag \in Lags,
             SessionPacket(failed, lag)
      PROVE  AnchorInv'
  BY <1>2, SessionPacketAnchor
<1>3. ASSUME NEW n \in Ticks, NEW p \in Kinds \ {"motion_ex"}, NEW sweep \in BOOLEAN,
             FramePacket(n, p, sweep)
      PROVE  AnchorInv'
  <2>1. gate = "known" /\ FB!Add(Uid, n, p, sweep) /\ BufferInv
    BY <1>3 DEF FramePacket, ListenerInv
  <2>2. PICK order \in Orders(AddedFrames(n, sweep)) : Flush(order)
    BY <1>3 DEF FramePacket, AddedFrames
  <2>3. AddLeaves(n, sweep)
    BY <2>1, AddEffect
  <2>4. AddedFrames(n, sweep) \in SUBSET FB!Held(Uid)
    BY <2>3 DEF AddLeaves
  <2>5. UNCHANGED <<storedAnchor, erased, anchor, durable>>
    BY <1>3 DEF FramePacket, history
  <2>6. QED
    BY <2>1, <2>2, <2>4, <2>5, FlushAnchor
<1>4. ASSUME NEW n \in Ticks, MotionExPacket(n)
      PROVE  AnchorInv'
  <2>1. /\ gate = "known" /\ n \in Arriving /\ rows' = Inserted(MotionExRow(n), rows)
        /\ UNCHANGED <<storedAnchor, erased, anchor, durable>> /\ overtaken' = Overtaken(n)
    BY <1>4 DEF MotionExPacket, memoryVars
  <2>2. \A r \in rows' : r \in rows \/
           /\ gate = "known" /\ storedAnchor # None
           /\ r.frame \in Arriving /\ overtaken' = Overtaken(r.frame)
           /\ r.table \in FrameTables /\ r.ts = Timestamp(r.frame)
    BY <2>1 DEF Inserted, MotionExRow, FrameTables
  <2>3. QED
    BY <2>1, <2>2, AnchorKept
<1>5. CASE SessionEnd
  <2> DEFINE frames == {k[2] : k \in FB!SessionFlushes(Uid)}
  <2>1. gate = "known" /\ UNCHANGED <<storedAnchor, erased, anchor, durable>>
    BY <1>5 DEF SessionEnd, history
  <2>2. PICK order \in Orders(frames) : Flush(order)
    BY <1>5 DEF SessionEnd
  <2>3. frames \in SUBSET FB!Held(Uid)
    BY DEF FB!SessionFlushes
  <2> HIDE DEF frames
  <2>4. QED
    BY <2>1, <2>2, <2>3, FlushAnchor
<1>6. ASSUME NEW flbk \in rewinds,
             NEW tables \in (IF "delete" \in Faults THEN SUBSET FrameTables ELSE {FrameTables}),
             Flashback(flbk, tables)
      PROVE  AnchorInv'
  <2>1. tables \in SUBSET FrameTables
    OBVIOUS
  <2>2. QED
    BY <1>6, <2>1, FlashbackAnchor
<1>7. CASE DatabaseCrash
  BY <1>7, DatabaseCrashAnchor
<1>8. CASE GameTick \/ ParticipantsPacket \/ Restart \/ LogFlushed \/ UNCHANGED vars
  BY <1>1, <1>8 DEF GameTick, ParticipantsPacket, Restart, LogFlushed, vars, memoryVars,
                    dbVars, history
<1>9. ASSUME NEW heard \in BOOLEAN, StartSignal(heard)
      PROVE  AnchorInv'
  BY <1>1, <1>9 DEF StartSignal, dbVars
<1>10. ASSUME NEW back \in Ticks, Rewind(back)
       PROVE  AnchorInv'
  BY <1>1, <1>10 DEF Rewind, memoryVars, dbVars, history
<1>11. QED
  BY <1>2, <1>3, <1>4, <1>5, <1>6, <1>7, <1>8, <1>9, <1>10 DEF Next, SomeSessionPacket

LEMMA AnchorInvariant ==
  ASSUME "anchor_read" \notin Faults
  PROVE  Spec => []AnchorInv
<1>1. Init => AnchorInv
  BY DEF Init, AnchorInv, Anchored, Empty
<1>2. ListenerInv /\ AnchorInv /\ [Next]_vars => AnchorInv'
  BY StepAnchor
<1>3. QED
  BY <1>1, <1>2, ListenerInvariant, PTL DEF Spec

(* As long as the anchor that is stored can be read back, every row lies   *)
(* at it, whichever process wrote the row (session.py 105-218).            *)
THEOREM RowsShareAnchor ==
  ASSUME "anchor_read" \notin Faults
  PROVE  Spec => []RowsAnchored
<1>1. ListenerInv /\ AnchorInv => RowsAnchored
  BY DEF ListenerInv, Stored, AnchorInv, Anchored, RowsAnchored
<1>2. QED
  BY <1>1, ListenerInvariant, AnchorInvariant, PTL

(* Then no row of what a flashback has removed comes back, over any number *)
(* of flashbacks, restarts and crashes, but with a datagram of its tick    *)
(* that was handled after the FLBK (dispatcher.py 360-403).                *)
THEOREM ErasedForGood ==
  ASSUME "anchor_read" \notin Faults
  PROVE  Spec => []ErasedStaysErased
<1>1. AnchorInv => ErasedStaysErased
  BY DEF AnchorInv, Anchored, ErasedStaysErased
<1>2. QED
  BY <1>1, AnchorInvariant, PTL

(* A frame that arrives twice is one row, whatever crashed in between      *)
(* (car_frame.sql 8-11). *)
THEOREM FramesOnce ==
  ASSUME "anchor_read" \notin Faults
  PROVE  Spec => []OneRowPerFrame
<1>1. ListenerInv /\ AnchorInv => OneRowPerFrame
  BY DEF ListenerInv, Stored, AnchorInv, Anchored, OneRowPerFrame
<1>2. QED
  BY <1>1, ListenerInvariant, AnchorInvariant, PTL
=============================================================================
