------------------------------ MODULE Listener ------------------------------
(***************************************************************************)
(* One session as the listener sees it: the dispatcher's gates, the        *)
(* session anchor from which every timestamp is derived, the frame buffer, *)
(* race start, lap completion, flashbacks, restarts of the process and the *)
(* database it writes to.                                                  *)
(*                                                                         *)
(* The game produces ticks.  Tick n is the n-th record of `log' and n is   *)
(* its m_overallFrameIdentifier, which a flashback does not rewind, unlike *)
(* m_sessionTime.  Wall-clock time is counted in ticks.  Datagrams may be  *)
(* lost, repeated, or one tick late, and so overtake each other: the FLBK  *)
(* of a flashback and the last packets of the run it undoes are handled in *)
(* any order.  The rows are those of one driver who is on track.           *)
(***************************************************************************)
EXTENDS Integers, Sequences, FiniteSets

CONSTANTS
  SessionKinds,   \* of "race", "practice" and "excluded" (types 0 and 18)
  MaxTick, MaxLap,                            \* bounds on the game
  MaxFlashbacks, MaxRestarts, MaxCrashes,     \* bounds on the disturbances
  Kinds,          \* the kinds of datagram sent for a tick
  Lags,           \* ticks a Session packet may wait in the queue
  Faults          \* database calls that may fail

ASSUME ListenerAssumption ==
  /\ SessionKinds \subseteq {"race", "practice", "excluded"}
  /\ {MaxTick, MaxLap} \subseteq Nat \ {0}
  /\ {MaxFlashbacks, MaxRestarts, MaxCrashes} \subseteq Nat
  /\ Kinds \subseteq {"lap", "motion", "damage", "motion_ex"}
  /\ Lags \subseteq Nat
  /\ Faults \subseteq {"session_insert", "anchor_read", "delete"}

VARIABLES
  kind,           \* what the game is running
  log,            \* the game's ticks: [time, lap, formation]
  undone,         \* the ticks a flashback has undone
  rewinds,        \* the FLBK datagrams sent: [to, at], a session time and a tick
  gate,           \* _known_sessions and _excluded_sessions
  seen,           \* _seen_sessions
  anchor,         \* _session_starts, None where unset
  mapped,         \* _user_maps holds a map for the session
  started,        \* _race_started: "unset", "no" or "yes"
  lastLap,        \* _last_lap_nums for the driver
  pending, current, frameOrder, currentOrder,    \* the frame buffer
  storedAnchor,   \* sessions.session_start_utc, None without a session row
  rows,           \* car_frame, car_frame_damage and car_frame_motion_ex
  lapRows,        \* laps with a lap_setups and tyre_sets snapshot
  durable,        \* the database as a crash of its host would leave it
  erased,         \* history: the ticks each table's DELETE has covered
  overtaken,      \* history: ticks with a datagram handled after their DELETE
  grace,          \* history: frames about when the start signal was handled
  flashbacks, restarts, crashes

gameVars   == <<kind, log, undone, rewinds>>
bufferVars == <<pending, current, frameOrder, currentOrder>>
memoryVars == <<gate, seen, anchor, mapped, started, lastLap>>
dbVars     == <<storedAnchor, rows, lapRows, durable>>
history    == <<erased, overtaken, grace>>
budgets    == <<flashbacks, restarts, crashes>>

vars == <<kind, log, undone, rewinds, gate, seen, anchor, mapped, started, lastLap,
          pending, current, frameOrder, currentOrder,
          storedAnchor, rows, lapRows, durable, erased, overtaken, grace,
          flashbacks, restarts, crashes>>

None  == -1
Uid   == "session"
Ticks == 1..MaxTick

FrameTables == {"car_frame", "car_frame_damage", "car_frame_motion_ex"}

FB == INSTANCE FrameBuffer WITH Sessions <- {Uid}, Frames <- Ticks,
        PacketIds <- Kinds \ {"motion_ex"}, MaxSessions <- 1

-----------------------------------------------------------------------------
(* The game *)

Tick == Len(log)

Alive == (1..Tick) \ undone

Newest == CHOOSE n \in Alive : \A m \in Alive : m <= n

(* What the database holds, recorded only while a crash may still come. *)
Empty == [anchor |-> None, rows |-> {}, lapRows |-> {}, erased |-> [t \in FrameTables |-> {}]]

Committed ==
  IF crashes < MaxCrashes
  THEN [anchor |-> storedAnchor, rows |-> rows, lapRows |-> lapRows, erased |-> erased]
  ELSE durable

(* The next tick of the run that is being driven.  A commit is durable by  *)
(* then: only the last fraction of a second of them is at risk.            *)
GameTick ==
  /\ Tick < MaxTick
  /\ \E more \in {0, 1} :
       /\ log[Newest].formation => more = 0
       /\ log[Newest].lap + more <= MaxLap
       /\ log' = Append(log, [time |-> log[Newest].time + 1,
                              lap |-> log[Newest].lap + more,
                              formation |-> log[Newest].formation])
  /\ durable' = Committed
  /\ UNCHANGED <<kind, undone, rewinds, memoryVars, bufferVars, storedAnchor, rows, lapRows,
                 history, budgets>>

(* The driver rewinds to the session time of an earlier tick, but not past *)
(* the start of the race, and the game sends FLBK.                         *)
Rewind(back) ==
  LET newly == {n \in Alive : log[n].time > log[back].time}
  IN
  /\ flashbacks < MaxFlashbacks
  /\ back \in Alive /\ newly # {}
  /\ log[back].formation <=> log[Newest].formation
  /\ undone' = undone \cup newly
  /\ rewinds' = rewinds \cup {[to |-> log[back].time, at |-> Tick]}
  /\ flashbacks' = flashbacks + 1
  /\ UNCHANGED <<kind, log, memoryVars, bufferVars, dbVars, history, restarts, crashes>>

(* What was sent at the last tick or at the one before may be arriving. *)
InTheAir(tick) == tick >= Tick - 1

(* The ticks whose datagrams may be arriving, those of an undone run too. *)
Arriving == {n \in 1..Tick : InTheAir(n)}

-----------------------------------------------------------------------------
(* SessionService (packet 1) *)

(* Derived from the anchor, or from the clock while there is none. *)
Timestamp(n) == IF anchor = None THEN Tick ELSE anchor + log[n].time

AnchorNotReadBack(failed, stored, local) == local               \* mutant

(* ON CONFLICT DO UPDATE of everything but session_start_utc. *)
SessionUpserted(failed, local) ==
  IF "session_insert" \in failed \/ storedAnchor # None THEN storedAnchor ELSE local

(* get_session_start: None for a failure and for a row that is not there. *)
ReadBack(failed, stored) == IF "anchor_read" \in failed THEN None ELSE stored

(* "stored_start or session_start" *)
AnchorAfter(failed, stored, local) ==
  LET start == ReadBack(failed, stored) IN IF start = None THEN local ELSE start

(* _insert_session: insert, keeping the anchor of a row that is there, and *)
(* read the anchor back.                                                   *)
InsertSession(failed, lag) ==
  LET local == Tick + lag - log[Newest].time
  IN
  /\ storedAnchor' = SessionUpserted(failed, local)
  /\ anchor' = AnchorAfter(failed, storedAnchor', local)

AlwaysStarted == "yes"                                          \* mutant

(* "Non-race sessions are started from the first packet." *)
StartedAtFirst == IF kind = "race" THEN "no" ELSE "yes"

(* The row is inserted for the first Session packet the process sees, and  *)
(* never again: `seen' is set whether or not the INSERT succeeded.         *)
SessionPacket(failed, lag) ==
  /\ gate # "excluded"
  /\ IF kind = "excluded"
     THEN /\ gate' = "excluded"
          /\ UNCHANGED <<seen, anchor, started, storedAnchor>>
     ELSE /\ gate' = "known"
          /\ seen' = TRUE
          /\ IF seen THEN UNCHANGED <<anchor, storedAnchor>>
             ELSE InsertSession(failed, lag)
          /\ started' = IF started # "unset" THEN started
                        ELSE StartedAtFirst
  /\ UNCHANGED <<gameVars, mapped, lastLap, bufferVars, rows, lapRows, durable, history, budgets>>

(* Packet 4. *)
ParticipantsPacket ==
  /\ gate = "known"
  /\ mapped' = TRUE
  /\ UNCHANGED <<gameVars, gate, seen, anchor, started, lastLap, bufferVars, dbVars,
                 history, budgets>>

-----------------------------------------------------------------------------
(* Frames (packets 0, 2, 6, 7, 10 and 16) *)

(* The rows of the three tables, by what each is unique on: the timestamp  *)
(* and the overall frame identifier, within a session and a user.          *)
FrameRow(n)    == [table |-> "car_frame",           frame |-> n, ts |-> Timestamp(n)]
DamageRow(n)   == [table |-> "car_frame_damage",    frame |-> n, ts |-> Timestamp(n)]
MotionExRow(n) == [table |-> "car_frame_motion_ex", frame |-> n, ts |-> Timestamp(n)]

InsertedUnchecked(row, store) == store \cup {row}               \* mutant

(* INSERT ... ON CONFLICT DO NOTHING; the foreign key wants a session row. *)
Inserted(row, store) == IF storedAnchor = None THEN store ELSE store \cup {row}

(* write_frame *)
FrameWritten(batch, n, store) ==
  IF batch \cap {"lap", "motion"} = {} THEN store
  ELSE LET frame == Inserted(FrameRow(n), store)
       IN  IF "damage" \in batch THEN Inserted(DamageRow(n), frame) ELSE frame

RacingLapAfterTwo(lap) == lap > 2                               \* mutant

RacingLap(lap) == lap >= 2

CompletedFromZero(last, lap) == IF lap > last THEN {last} ELSE {}    \* mutant
CompletedCurrent(last, lap)  ==                                 \* mutant
  IF lap > last /\ last > 0 THEN {lap} ELSE {}

(* _check_lap_completions: the lap a higher lap number completes. *)
CompletedLap(last, lap) == IF lap > last /\ last > 0 THEN {last} ELSE {}

(* What flushing frames changes, threaded through them in order. *)
FlushState == [started |-> started, lastLap |-> lastLap, rows |-> rows, lapRows |-> lapRows]

(* _flush_frame: the backstop, the row, and _check_lap_completions. *)
FlushFrame(st, n) ==
  LET batch     == pending[Uid][n]
      lap       == log[n].lap
      start     == IF "lap" \in batch /\ RacingLap(lap) THEN "yes" ELSE st.started
      recording == start # "no"
  IN
  IF ~mapped \/ log[n].time < 1 THEN st
  ELSE IF ~recording THEN [st EXCEPT !.started = start]
  ELSE [started |-> start,
        rows |-> FrameWritten(batch, n, st.rows),
        lastLap |-> IF "lap" \in batch THEN lap ELSE st.lastLap,
        lapRows |-> IF "lap" \in batch /\ storedAnchor # None
                    THEN st.lapRows \cup CompletedLap(st.lastLap, lap) ELSE st.lapRows]

(* The orders in which frames may leave the buffer. *)
Orders(frames) ==
  {order \in [1..Cardinality(frames) -> frames] :
     \A n \in frames : \E i \in DOMAIN order : order[i] = n}

(* Frames handed to the callback one after the other. *)
Flushed(order) ==
  LET after[i \in 0..Len(order)] ==
        IF i = 0 THEN FlushState ELSE FlushFrame(after[i - 1], order[i])
  IN  after[Len(order)]

Flush(order) ==
  LET after == Flushed(order)
  IN
  /\ started' = after.started
  /\ lastLap' = after.lastLap
  /\ rows' = after.rows
  /\ lapRows' = after.lapRows

(* A lap takes longer than FLUSH_INTERVAL_MS: the first packet of lap 2    *)
(* finds the sweep due if a frame of the formation lap is still there.     *)
SweepDue(n) == RacingLap(log[n].lap) /\ \E m \in FB!Held(Uid) : log[m].formation

(* A packet of a tick that a DELETE has already covered. *)
Overtaken(n) == overtaken \cup {m \in {n} : \E t \in FrameTables : m \in erased[t]}

(* `add' flushes the completed frame first, then the sweep takes the stale *)
(* ones, in the order of a dict that is not modelled: in any order.        *)
FramePacket(n, p, sweep) ==
  /\ gate = "known" /\ mapped
  /\ n \in Arriving
  /\ SweepDue(n) => sweep
  /\ \E order \in Orders({k[2] : k \in FB!AddFlushes(Uid, n, sweep)}) :
       /\ \A i \in DOMAIN order : <<Uid, order[i]>> \in FB!Completed(Uid, n) => i = 1
       /\ Flush(order)
  /\ FB!Add(Uid, n, p, sweep)
  /\ overtaken' = Overtaken(n)
  /\ UNCHANGED <<gameVars, gate, seen, anchor, mapped, storedAnchor, durable,
                 erased, grace, budgets>>

(* Packet 13 is written at once, before the start of a race too. *)
MotionExPacket(n) ==
  /\ "motion_ex" \in Kinds
  /\ gate = "known" /\ mapped
  /\ n \in Arriving
  /\ rows' = Inserted(MotionExRow(n), rows)
  /\ overtaken' = Overtaken(n)
  /\ UNCHANGED <<gameVars, memoryVars, bufferVars, storedAnchor, lapRows, durable,
                 erased, grace, budgets>>

-----------------------------------------------------------------------------
(* Session-level events (packet 3) *)

(* SEND: every frame, in ascending order. *)
SessionEnd ==
  /\ gate = "known"
  /\ \E order \in Orders({k[2] : k \in FB!SessionFlushes(Uid)}) :
       /\ \A i, j \in DOMAIN order : i < j => order[i] < order[j]
       /\ Flush(order)
  /\ FB!FlushSession(Uid)
  /\ UNCHANGED <<gameVars, gate, seen, anchor, mapped, storedAnchor, durable,
                 history, budgets>>

(* The race starts: LGOT, or SCAR with the formation lap complete; the     *)
(* datagram may be lost.                                                   *)
StartSignal(heard) ==
  /\ log[Newest].formation
  /\ log' = [log EXCEPT ![Newest].formation = FALSE]
  /\ IF heard /\ gate = "known"
     THEN /\ started' = "yes"
          /\ grace' = FB!Held(Uid) \cup Arriving
     ELSE UNCHANGED <<started, grace>>
  /\ UNCHANGED <<kind, undone, rewinds, gate, seen, anchor, mapped, lastLap, bufferVars, dbVars,
                 erased, overtaken, budgets>>

DeletedFromCarFrame(table, rewindTo) ==                         \* mutant
  {r \in rows : r.table = table /\ table = "car_frame" /\ log[r.frame].time > rewindTo}
DeletedFromPointOn(table, rewindTo) ==                          \* mutant
  {r \in rows : r.table = table /\ log[r.frame].time >= rewindTo}

(* The rows the DELETE of a table takes: the bound on the timestamp goes   *)
(* in alongside the one on the session time when the anchor is known.      *)
Deleted(table, rewindTo) ==
  {r \in rows : /\ r.table = table
                /\ log[r.frame].time > rewindTo
                /\ anchor # None => r.ts > anchor + rewindTo}

(* FLBK: the buffer is discarded and the rows are deleted by the session   *)
(* time the datagram carries, each table in a transaction of its own.      *)
Flashback(flbk, tables) ==
  /\ gate = "known"
  /\ flbk \in rewinds /\ InTheAir(flbk.at)
  /\ FB!DiscardSession(Uid)
  /\ rows' = rows \ UNION {Deleted(t, flbk.to) : t \in tables}
  /\ lastLap' = 0
  /\ erased' = [t \in FrameTables |->
                  IF t \in tables THEN erased[t] \cup {n \in undone : log[n].time > flbk.to}
                  ELSE erased[t]]
  /\ UNCHANGED <<gameVars, gate, seen, anchor, mapped, started, storedAnchor, lapRows, durable,
                 overtaken, grace, budgets>>

-----------------------------------------------------------------------------
(* The process stops, its queue and buffer with it, and starts again. *)
Restart ==
  /\ restarts < MaxRestarts
  /\ restarts' = restarts + 1
  /\ gate' = "unknown" /\ seen' = FALSE /\ anchor' = None
  /\ mapped' = FALSE /\ started' = "unset" /\ lastLap' = 0
  /\ pending' = [s \in {Uid} |-> [n \in Ticks |-> {}]]
  /\ current' = [s \in {Uid} |-> FB!NoFrame]
  /\ frameOrder' = << >> /\ currentOrder' = << >>
  /\ UNCHANGED <<gameVars, dbVars, history, flashbacks, crashes>>

(* The database host: with synchronous_commit off a commit is durable only *)
(* when the log reaches the disk, and a crash takes back the later ones.   *)
LogFlushed ==
  /\ crashes < MaxCrashes
  /\ durable' = Committed
  /\ UNCHANGED <<gameVars, memoryVars, bufferVars, storedAnchor, rows, lapRows, history, budgets>>

DatabaseCrash ==
  /\ crashes < MaxCrashes
  /\ crashes' = crashes + 1
  /\ storedAnchor' = durable.anchor
  /\ rows' = durable.rows
  /\ lapRows' = durable.lapRows
  /\ erased' = durable.erased
  /\ durable' = IF crashes' < MaxCrashes THEN durable ELSE Empty
  /\ UNCHANGED <<gameVars, memoryVars, bufferVars, overtaken, grace, flashbacks, restarts>>

-----------------------------------------------------------------------------
Init ==
  /\ kind \in SessionKinds
  /\ log = <<[time |-> 0, lap |-> 1, formation |-> kind = "race"]>>
  /\ undone = {} /\ rewinds = {}
  /\ gate = "unknown" /\ seen = FALSE /\ anchor = None
  /\ mapped = FALSE /\ started = "unset" /\ lastLap = 0
  /\ FB!BufferInit
  /\ storedAnchor = None /\ rows = {} /\ lapRows = {}
  /\ erased = Empty.erased /\ durable = Empty
  /\ overtaken = {} /\ grace = {}
  /\ flashbacks = 0 /\ restarts = 0 /\ crashes = 0

SomeSessionPacket ==
  \E failed \in SUBSET (Faults \ {"delete"}), lag \in Lags : SessionPacket(failed, lag)

Next ==
  \/ GameTick
  \/ SomeSessionPacket
  \/ ParticipantsPacket
  \/ \E n \in Ticks, p \in Kinds \ {"motion_ex"}, sweep \in BOOLEAN : FramePacket(n, p, sweep)
  \/ \E n \in Ticks : MotionExPacket(n)
  \/ SessionEnd
  \/ \E heard \in BOOLEAN : StartSignal(heard)
  \/ \E back \in Ticks : Rewind(back)
  \/ \E flbk \in rewinds,
        tables \in (IF "delete" \in Faults THEN SUBSET FrameTables ELSE {FrameTables}) :
       Flashback(flbk, tables)
  \/ Restart
  \/ LogFlushed
  \/ DatabaseCrash

Spec == Init /\ [][Next]_vars

(* The game sends a Session packet twice a second. *)
FairSpec == Spec /\ WF_vars(SomeSessionPacket)

-----------------------------------------------------------------------------
Row == [table : FrameTables, frame : Ticks, ts : Nat]

TypeOK ==
  /\ log \in Seq([time : Nat, lap : 1..MaxLap, formation : BOOLEAN])
  /\ Tick \in Ticks
  /\ undone \subseteq Ticks
  /\ rewinds \subseteq [to : Nat, at : Ticks]
  /\ gate \in {"unknown", "known", "excluded"}
  /\ anchor \in Nat \cup {None} /\ storedAnchor \in Nat \cup {None}
  /\ seen \in BOOLEAN /\ mapped \in BOOLEAN
  /\ started \in {"unset", "no", "yes"}
  /\ lastLap \in 0..MaxLap
  /\ FB!BufferTypeOK
  /\ rows \subseteq Row
  /\ lapRows \subseteq 1..MaxLap
  /\ erased \in [FrameTables -> SUBSET Ticks]
  /\ durable.rows \subseteq Row /\ durable.erased \in [FrameTables -> SUBSET Ticks]
  /\ durable.anchor \in Nat \cup {None} /\ durable.lapRows \subseteq 1..MaxLap
  /\ overtaken \subseteq Ticks /\ grace \subseteq Ticks

(* Every row lies at its session's stored anchor plus its session time,    *)
(* whichever process wrote it, before or after a restart or a flashback:   *)
(* the key that makes a frame arriving twice one row, and the reason the   *)
(* DELETE of a flashback may bound the timestamp as well (session.py       *)
(* 105-218, sessions.py 45-51, base.py 97-130).                            *)
RowsAnchored ==
  \A r \in rows : storedAnchor # None /\ r.ts = storedAnchor + log[r.frame].time

(* car_frame.sql:8-11, one row for a frame that arrives twice, "a          *)
(* re-delivered datagram, a stale-frame sweep racing a normal flush, or a  *)
(* listener restart mid-session".                                          *)
OneRowPerFrame ==
  \A r1, r2 \in rows : r1.table = r2.table /\ r1.frame = r2.frame => r1 = r2

(* What a flashback has undone comes back to a table it was removed from   *)
(* only with a datagram of that tick handled after the FLBK: no frame      *)
(* still in the buffer, no datagram of the run that stands, no restarted   *)
(* process and no crash of the host brings a row of it back (dispatcher.py *)
(* 360-403, frame_buffer.py 89-98, base.py 97-130).                        *)
ErasedStaysErased ==
  \A r \in rows : r.frame \in erased[r.table] => r.frame \in overtaken

(* README.md:50-52, a flashback "deletes the undone frames [...] so no     *)
(* phantom duplicate laps survive", and tests/test_flashback.py:150-151,   *)
(* "No frame may survive past the rewind point from the first run-through".*)
NoUndoneFrameSurvives ==
  \A r \in rows : r.frame \notin erased[r.table]

(* The rows of the run that stands stay.  The DELETEs go by the session    *)
(* time and not by the run, and all they may take of it are the ticks      *)
(* driven since the flashback, when the FLBK itself is late (dispatcher.py *)
(* 360-403, base.py 97-130).                                               *)
StandingRowsStay ==
  [][\A r \in rows \ rows' :
       \/ r.frame \in undone
       \/ crashes' # crashes
       \/ \E flbk \in rewinds : InTheAir(flbk.at) /\ flbk.at < r.frame]_vars

(* A frame of the formation lap, in a run that stands, is a row only if it *)
(* was in the buffer or in the air when the start signal was handled       *)
(* (car_frame.py 284-287, dispatcher.py 208-213, 251-257, 455-463).  The   *)
(* rows of packet 13 are not of it: they are written before the start too. *)
FormationNotRecorded ==
  \A r \in rows :
    log[r.frame].formation /\ r.table # "car_frame_motion_ex"
      => r.frame \in grace \cup undone

(* A lap snapshot is kept only for a lap the driver has gone on from, late *)
(* frames, flashbacks and restarts included (dispatcher.py 490-523).       *)
SnapshotsOfDrivenLaps ==
  \A lap \in lapRows : \E n \in 1..Tick : log[n].lap > lap /\ ~log[n].formation

(* "a missed start event can never cost a whole race's telemetry"          *)
(* (dispatcher.py:73-75): a frame showing a car on a racing lap is         *)
(* recorded when it leaves the buffer, whatever the process knows of the   *)
(* start of the race, unless a restart or a flashback throws it away.      *)
RacingLapsRecorded ==
  [][\A n \in 1..Tick :
       /\ "lap" \in pending[Uid][n] /\ pending'[Uid][n] = {}
       /\ log[n].lap >= 2 /\ storedAnchor # None
       /\ restarts' = restarts
       /\ ~\E flbk \in rewinds, tables \in SUBSET FrameTables : Flashback(flbk, tables)
       => \E r \in rows' : r.table = "car_frame" /\ r.frame = n]_vars

(* client.py:49-52, on what a crash of the host loses: "the game resends   *)
(* its state continuously, so the next packet restores it".                *)
SessionRowRestored ==
  (gate = "known") ~> (gate # "known" \/ storedAnchor # None)
=============================================================================
