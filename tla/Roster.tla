------------------------------- MODULE Roster -------------------------------
(***************************************************************************)
(* Who drives which car, and whose user the rows of a car go to:           *)
(* ParticipantsService and EntriesRepository, with the rows that events    *)
(* and frames write through the user map.                                  *)
(*                                                                         *)
(* The sessions of one weekend follow each other.  People take seats and   *)
(* leave them at any time; some show their name, others appear under a     *)
(* generic one.  The race number and team of a person are their plate.  A  *)
(* Participants packet describes the seats of the moment; the listener may *)
(* restart, and any database call of the roster may fail.                  *)
(*                                                                         *)
(* A user is named by its driver name: the name of a person, or            *)
(* <<"Player", n>>.  The number in _player_counter is one that was stored, *)
(* or below one: numbers taken by packets that store nothing are skipped   *)
(* for good and are renumbered away once above every stored one.           *)
(***************************************************************************)
EXTENDS Integers, FiniteSets, FiniteSetsExt

CONSTANTS
  Cars,           \* car indices
  People,         \* humans who may drive
  Generic,        \* those who appear as "Player" or without a name
  Plate,          \* person -> team and race number
  SeedTeams,      \* teams the schema seeds, by the plates that show them
  Grids,          \* who sits where at the start
  Codes,          \* driver event codes the game may send
  MaxSession,     \* sessions of the weekend
  MaxMoves,       \* seat changes
  MaxFaults,      \* packets during which database calls fail
  MaxRestarts

ASSUME RosterAssumption ==
  /\ Cars \subseteq Nat /\ IsFiniteSet(Cars)
  /\ Generic \subseteq People /\ "ai" \notin People /\ "Player" \notin People
  /\ Plate \in [People -> Nat] /\ SeedTeams \subseteq Nat
  /\ Grids \subseteq [Cars -> People \cup {"ai"}]
  /\ \A g \in Grids : \A c, d \in Cars : g[c] = g[d] => c = d \/ g[c] = "ai"
  /\ Codes \subseteq {"OVTK", "COLL", "PENA", "SPTP", "FTLP", "RTMT", "DTSV"}
  /\ {MaxSession, MaxMoves, MaxFaults, MaxRestarts} \subseteq Nat
  /\ MaxSession > 0

VARIABLES
  session,        \* the session the game is running
  seat,           \* car -> a person or "ai"
  users,          \* identity.users
  teams,          \* telemetry.teams
  entries,        \* telemetry.entries
  written,        \* _written_humans of the session
  userMap,        \* _user_map_cache of the session
  counter,        \* _player_counter, Unset until it is first needed
  rows,           \* the rows of cars: whose driving, under which user
  owner,          \* history: the person a user was created for
  left,           \* history: people who have left a seat
  restartedIn,    \* history: sessions in which the process restarted
  miscounted,     \* history: max_player_number has failed
  moves, faults, restarts

gameVars   == <<session, seat>>
dbVars     == <<users, teams, entries>>
memoryVars == <<written, userMap, counter>>
history    == <<owner, left, restartedIn, miscounted>>
budgets    == <<moves, faults, restarts>>

vars == <<session, seat, users, teams, entries, written, userMap, counter,
          rows, owner, left, restartedIn, miscounted, moves, faults, restarts>>

Unset    == -1
Sessions == 1..MaxSession

Name(p)      == <<p, 0>>
Generated(n) == <<"Player", n>>

(* unpack_participants: what the packet says of a car. *)
Participant(c) ==
  [ai |-> seat[c] = "ai", unnamed |-> seat[c] \in Generic]

(* AI drivers and empty slots are skipped. *)
Humans == {c \in Cars : ~Participant(c).ai}

EntriesOf(s) == {e \in entries : e.session = s}

-----------------------------------------------------------------------------
(* The game *)

Moved ==
  /\ moves < MaxMoves
  /\ moves' = moves + 1
  /\ UNCHANGED <<session, dbVars, memoryVars, rows, owner, restartedIn, miscounted, faults,
                 restarts>>

(* A person takes a seat, or leaves it to the AI. *)
TakeSeat(c, p) ==
  /\ seat[c] = "ai"
  /\ \A d \in Cars : seat[d] # p
  /\ seat' = [seat EXCEPT ![c] = p]
  /\ Moved
  /\ UNCHANGED left

LeaveSeat(c) ==
  /\ c \in Humans
  /\ seat' = [seat EXCEPT ![c] = "ai"]
  /\ left' = left \cup {seat[c]}
  /\ Moved

-----------------------------------------------------------------------------
(* The database calls of a packet that fail: none, one, or all of them. *)
Calls    == {"lookup", "counter", "teams", "users", "entries"}
Failures == {{}, Calls} \cup {{call} : call \in Calls}

(* Names *)

AnyWeekendName(failed, p) == {e.user : e \in {f \in entries : f.session # session}}  \* mutant

(* find_weekend_driver_name: "team_id + race_number in another session of  *)
(* the same weekend", LIMIT 1.                                             *)
WeekendNames(failed, p) ==
  IF "lookup" \in failed THEN {}
  ELSE {e.user : e \in {f \in entries : f.session # session /\ f.plate = Plate[p]}}

(* max_player_number *)
MaxPlayerNumber(stored) ==
  Max({0} \cup {u[2] : u \in {v \in stored : v[1] = "Player"}})

(* _next_generic_name, on its first call: a failed query counts as 0. *)
CounterRead(failed) ==
  IF counter # Unset THEN counter
  ELSE IF "counter" \in failed THEN 0 ELSE MaxPlayerNumber(users)

(* The generic drivers, and those of them no other session knows. *)
GenericCars == {c \in Humans : Participant(c).unnamed}

Unknown(failed) == {c \in GenericCars : WeekendNames(failed, seat[c]) = {}}

(* The names a packet may come to: one sequential number for each car that *)
(* needs one, in the order of the cars.                                    *)
Namings(failed) ==
  LET needs == Unknown(failed)
      found == [c \in GenericCars |-> WeekendNames(failed, seat[c])]
      number(c) == CounterRead(failed) + Cardinality({d \in needs : d <= c})
  IN
  {n \in [Humans -> users \cup {Name(seat[c]) : c \in Humans}
                           \cup {Generated(number(c)) : c \in needs}] :
     \A c \in Humans :
       IF c \in needs THEN n[c] = Generated(number(c))
       ELSE IF c \in GenericCars THEN n[c] \in found[c]
       ELSE n[c] = Name(seat[c])}

-----------------------------------------------------------------------------
(* Entries *)

(* The batch is one transaction, row by row, and a row on the car of an    *)
(* entry replaces it: a user may not be on two cars in between.            *)
BreaksKey(old, batch) ==
  \E b \in batch :
    \/ \E a \in batch : a.car < b.car /\ a.user = b.user
    \/ \E e \in old : /\ e.user = b.user /\ e.car # b.car
                      /\ \A a \in batch : a.car < b.car => a.car # e.car

FirstUpserted(batch) ==                                         \* mutant
  entries \cup {b \in batch : \A a \in batch : b.car <= a.car}

(* INSERT ... ON CONFLICT (session_uid, car_index) DO UPDATE *)
Upserted(batch) ==
  {e \in entries : \A b \in batch : b.session = e.session => b.car # e.car} \cup batch

(* ensure_teams: a team the table lacks is added, and a failure swallowed. *)
EnsureTeams(failed, batch) ==
  IF "teams" \in failed THEN teams ELSE teams \cup {b.plate : b \in batch}

(* _resolve_user_ids: found by name or created, for all names or for none. *)
ResolveUsers(failed, batch) ==
  IF "users" \in failed THEN users ELSE users \cup {b.user : b \in batch}

(* What makes the strict write of a batch fail: no user was resolved, the  *)
(* database, a team without a row, the keys.                               *)
BatchFails(failed, batch) ==
  \/ failed \cap {"users", "entries"} # {}
  \/ \E b \in batch : b.plate \notin EnsureTeams(failed, batch)
  \/ BreaksKey(EntriesOf(session), batch)

AllHumans(batch, stored) == Humans                              \* mutant

(* The cars the repository reports as recorded. *)
Reported(batch, stored) == IF stored THEN {b.car : b \in batch} ELSE {}

CountedNewCars ==                                               \* mutant
  IF Cardinality(Humans) <= Cardinality(written) THEN {} ELSE Humans \ written

(* "new_entries": the humans whose car is not in the written set. *)
NewCars == Humans \ written

(* The entries of new_entries. *)
BatchOf(name) ==
  {[session |-> session, car |-> c, user |-> name[c], plate |-> Plate[seat[c]]] :
     c \in NewCars}

WrittenHumans(done) == written \cup Humans                      \* mutant

WrittenAfter(done) == IF done = {} THEN written ELSE written \cup done

(* Numbers taken and not stored, see above. *)
Settled(failed, stored) ==
  LET top == MaxPlayerNumber(stored)
      next == CounterRead(failed) + Cardinality(Unknown(failed))
  IN IF Unknown(failed) = {} THEN counter ELSE IF next <= top THEN next ELSE top

(* handle_participants_packet (packet 4) *)
ParticipantsPacket(failed) ==
  /\ UNCHANGED <<gameVars, rows, left, restartedIn, moves, restarts>>
  /\ failed # {} => faults < MaxFaults
  /\ faults' = IF failed = {} THEN faults ELSE faults + 1
  /\ miscounted' = (miscounted \/ ("counter" \in failed /\ counter = Unset
                                     /\ Unknown(failed) # {}))
  /\ \E name \in Namings(failed) :
       LET batch  == BatchOf(name)
           known  == ResolveUsers(failed, batch)
           stored == batch # {} /\ ~BatchFails(failed, batch)
           done   == Reported(batch, stored)
       IN
       /\ users' = known
       /\ teams' = EnsureTeams(failed, batch)
       /\ entries' = IF stored THEN Upserted(batch) ELSE entries
       /\ written' = WrittenAfter(done)
       /\ userMap' = [c \in DOMAIN userMap \cup done |->
                        IF c \in done THEN name[c] ELSE userMap[c]]
       /\ counter' = Settled(failed, known)
       /\ owner' = [u \in known |-> IF u \in users THEN owner[u]
                                    ELSE seat[CHOOSE c \in NewCars : name[c] = u]]

-----------------------------------------------------------------------------
(* Rows of cars *)

Row(c) == [session |-> session, person |-> seat[c], user |-> userMap[c]]

Mapped(c) == c \in DOMAIN userMap

(* OVTK, COLL: both drivers must resolve. *)
PairRows(c, d) == IF Mapped(c) /\ Mapped(d) THEN {Row(c), Row(d)} ELSE {}

(* PENA: the other driver is named if there is one that resolves. *)
PenaltyRows(c, d) ==
  IF Mapped(c) THEN {Row(c)} \cup {Row(o) : o \in {d} \cap DOMAIN userMap} ELSE {}

(* SPTP: likewise with the fastest driver of the session. *)
SpeedTrapRows(c, d) ==
  IF Mapped(c) THEN {Row(c)} \cup {Row(o) : o \in {d} \cap DOMAIN userMap} ELSE {}

(* FTLP, RTMT, and the driver actions. *)
SingleRows(c) == IF Mapped(c) THEN {Row(c)} ELSE {}

(* unpack_event_packet: the cars an event names, the other one if there is one. *)
Named(code, c, d) == IF code \in {"OVTK", "COLL", "PENA", "SPTP"} THEN <<c, d>> ELSE <<c, c>>

(* handle_event_packet: the rows of one event of a driver. *)
EventRows(code, n) ==
  CASE code \in {"OVTK", "COLL"} -> PairRows(n[1], n[2])
    [] code = "PENA"             -> PenaltyRows(n[1], n[2])
    [] code = "SPTP"             -> SpeedTrapRows(n[1], n[2])
    [] OTHER                     -> SingleRows(n[1])

(* Driver events require a user map (dispatcher). *)
EventPacket(code, c, d) ==
  /\ DOMAIN userMap # {}
  /\ code \in {"OVTK", "COLL"} => c # d
  /\ rows' = rows \cup EventRows(code, Named(code, c, d))
  /\ UNCHANGED <<gameVars, dbVars, memoryVars, history, budgets>>

(* write_frame: a row for every mapped car that is out of the garage. *)
WriteFrame ==
  /\ DOMAIN userMap # {}
  /\ \E out \in SUBSET DOMAIN userMap : rows' = rows \cup {Row(c) : c \in out}
  /\ UNCHANGED <<gameVars, dbVars, memoryVars, history, budgets>>

-----------------------------------------------------------------------------
NewMemory ==
  /\ written' = {}
  /\ userMap' = [c \in {} |-> Unset]

(* The weekend goes on: maps are kept by session. *)
NextSession ==
  /\ session < MaxSession
  /\ session' = session + 1
  /\ NewMemory
  /\ UNCHANGED <<seat, dbVars, counter, rows, history, budgets>>

Restart ==
  /\ restarts < MaxRestarts
  /\ restarts' = restarts + 1
  /\ NewMemory
  /\ counter' = Unset
  /\ restartedIn' = restartedIn \cup {session}
  /\ UNCHANGED <<gameVars, dbVars, rows, owner, left, miscounted, moves, faults>>

Init ==
  /\ session = 1
  /\ seat \in Grids
  /\ users = {}
  /\ teams = SeedTeams
  /\ entries = {}
  /\ written = {}
  /\ userMap = [c \in {} |-> Unset]
  /\ counter = Unset
  /\ rows = {}
  /\ owner = [u \in {} |-> Unset]
  /\ left = {}
  /\ restartedIn = {}
  /\ miscounted = FALSE
  /\ moves = 0 /\ faults = 0 /\ restarts = 0

Next ==
  \/ \E c \in Cars, p \in People : TakeSeat(c, p)
  \/ \E c \in Cars : LeaveSeat(c)
  \/ \E failed \in Failures : ParticipantsPacket(failed)
  \/ \E code \in Codes, c, d \in Cars : EventPacket(code, c, d)
  \/ WriteFrame
  \/ NextSession
  \/ Restart

Spec == Init /\ [][Next]_vars

(* The game sends a Participants packet every five seconds, and the        *)
(* database does not fail for ever.                                        *)
FairSpec == Spec /\ WF_vars(ParticipantsPacket({}))

-----------------------------------------------------------------------------
(* Every variable has its type, and the cars marked as written are those   *)
(* of the user map (participants.py:136-138).                              *)
TypeOK ==
  /\ session \in Sessions
  /\ seat \in [Cars -> People \cup {"ai"}]
  /\ \A u \in users : u[1] \in People \cup {"Player"} /\ u[2] \in Nat
  /\ \A e \in entries : /\ e.session \in Sessions /\ e.car \in Cars /\ e.user \in users
                        /\ e.plate \in Nat
  /\ counter \in Nat \cup {Unset}
  /\ DOMAIN userMap = written
  /\ written \subseteq Cars

(* The user map holds only what the table holds: a car is resolved to a    *)
(* user only when the row that says so is in entries, however writes fail  *)
(* and whatever an earlier process left (entries.py:134-138).              *)
MapIsRecorded ==
  \A c \in DOMAIN userMap :
    \E e \in entries : e.session = session /\ e.car = c /\ e.user = userMap[c]

(* No human's driving is stored under another's user: a row's user is that *)
(* of its driver, or of the one the AI took over from.  Excused are cars   *)
(* that changed hands in the session since the process started, which the  *)
(* written set does not see (participants.py:115), names counted from a    *)
(* failed query (participants.py:51) and shared plates.                    *)
RowsOfTheirDriver ==
  \A r \in rows :
    \/ r.person \in {owner[r.user], "ai"}
    \/ r.person \in left \/ owner[r.user] \in left
    \/ miscounted
    \/ \E p \in People \ {owner[r.user]} : Plate[p] = Plate[owner[r.user]]

(* Every user with rows in a session is in its roster, unless the process  *)
(* restarted in that session and named a generic driver anew, or the car   *)
(* had changed hands (the upsert by car of entries.py:163).                *)
RowsHaveEntries ==
  \A r \in rows :
    \/ \E e \in entries : e.session = r.session /\ e.user = r.user
    \/ r.session \in restartedIn /\ (owner[r.user] \in Generic \cup left)

(* Someone on track is recorded under two cars. *)
Clash ==
  \E c \in Humans : \E e \in EntriesOf(session) : e.car # c /\ owner[e.user] = seat[c]

(* The driver of a car has an entry with that car, under a user of theirs. *)
HasEntry(c) ==
  \E e \in EntriesOf(session) : e.car = c /\ owner[e.user] = seat[c]

(* The car is in the written set by an entry of somebody who has left it. *)
TakenOver(c) ==
  c \in written /\ \E e \in EntriesOf(session) : e.car = c /\ owner[e.user] \in left

(* Every human on track gets an entry of their own, again and again after  *)
(* failures, joins and restarts, unless they took over a car recorded for  *)
(* another; but a person whose user is still on another car of the session *)
(* stops the whole batch (entries.sql:21, participants.py:115, 126-134).   *)
HumansRecorded == []<>(Clash \/ \A c \in Humans : HasEntry(c) \/ TakenOver(c))

(* participants.py:20-21: "Re-evaluates on every packet so drivers joining *)
(* mid-session are captured."                                              *)
JoinersCaptured == []<>(Clash \/ \A c \in Humans : HasEntry(c))
=============================================================================
