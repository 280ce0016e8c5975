---------------------------- MODULE RosterProofs ----------------------------
(* What holds of the roster for every number of cars, people and sessions. *)
EXTENDS Roster, FiniteInduction

USE RosterAssumption

(* A batch replaces the entry of a car only if it has that car. *)
LEMMA UpsertKeeps ==
  ASSUME NEW batch, NEW e \in entries,
         \A b \in batch : b.session = e.session => b.car # e.car
  PROVE  e \in Upserted(batch)
  BY DEF Upserted

(* The lines of Next that leave the user map and the entries alone. *)
LEMMA RosterUntouched ==
  ASSUME [Next]_vars, ~\E failed \in Failures : ParticipantsPacket(failed),
         ~NextSession, ~Restart
  PROVE  UNCHANGED <<session, entries, userMap>>
  <1>1. CASE \E c \in Cars, p \in People : TakeSeat(c, p)
    BY <1>1 DEF TakeSeat, Moved, dbVars, memoryVars
  <1>2. CASE \E c \in Cars : LeaveSeat(c)
    BY <1>2 DEF LeaveSeat, Moved, dbVars, memoryVars
  <1>4. CASE \E code \in Codes, c, d \in Cars : EventPacket(code, c, d)
    BY <1>4 DEF EventPacket, gameVars, dbVars, memoryVars
  <1>5. CASE WriteFrame
    BY <1>5 DEF WriteFrame, gameVars, dbVars, memoryVars
  <1>6. CASE UNCHANGED vars
    BY <1>6 DEF vars
  <1> QED BY <1>1, <1>2, <1>4, <1>5, <1>6 DEF Next

-----------------------------------------------------------------------------
(* The user map holds only what the entries table holds, for every roster  *)
(* and every failure: what the database has not confirmed is not resolved. *)
THEOREM MapRecorded == Spec => []MapIsRecorded
  <1>1. Init => MapIsRecorded
    BY DEF Init, MapIsRecorded
  <1>2. MapIsRecorded /\ [Next]_vars => MapIsRecorded'
    <2> SUFFICES ASSUME MapIsRecorded, [Next]_vars PROVE MapIsRecorded'
      OBVIOUS
    <2>1. ASSUME NEW failed \in Failures, ParticipantsPacket(failed)
          PROVE  MapIsRecorded'
      <3>1. session' = session
        BY <2>1 DEF ParticipantsPacket, gameVars
      <3>2. PICK name \in Namings(failed) :
              LET batch  == BatchOf(name)
                  stored == batch # {} /\ ~BatchFails(failed, batch)
                  done   == Reported(batch, stored)
              IN /\ entries' = IF stored THEN Upserted(batch) ELSE entries
                 /\ userMap' = [c \in DOMAIN userMap \cup done |->
                                  IF c \in done THEN name[c] ELSE userMap[c]]
        BY <2>1 DEF ParticipantsPacket
      <3> DEFINE batch  == BatchOf(name)
                 stored == batch # {} /\ ~BatchFails(failed, batch)
                 done   == Reported(batch, stored)
      <3>3. entries' = IF stored THEN Upserted(batch) ELSE entries
        BY <3>2
      <3>4. userMap' = [c \in DOMAIN userMap \cup done |->
                          IF c \in done THEN name[c] ELSE userMap[c]]
        BY <3>2
      <3>5. batch \subseteq entries' \/ done = {}
        BY <3>3 DEF Upserted, Reported
      <3>6. ASSUME NEW c \in DOMAIN userMap'
            PROVE  \E e \in entries' : e.session = session /\ e.car = c /\ e.user = userMap'[c]
        <4>1. CASE c \in done
          <5>1. PICK b \in batch : b.car = c
            BY <4>1 DEF Reported
          <5>2. b.session = session /\ b.user = name[c]
            BY <5>1 DEF BatchOf
          <5>3. b \in entries'
            BY <3>5, <4>1
          <5> QED BY <3>4, <4>1, <5>1, <5>2, <5>3
        <4>2. CASE c \notin done
          <5>1. c \in DOMAIN userMap /\ userMap'[c] = userMap[c]
            BY <3>4, <3>6, <4>2
          <5>2. PICK e \in entries : e.session = session /\ e.car = c /\ e.user = userMap[c]
            BY <5>1 DEF MapIsRecorded
          <5>3. CASE stored
            <6>1. \A b \in batch : b.car # c
              BY <4>2, <5>3 DEF Reported
            <6>2. e \in Upserted(batch)
              BY <5>2, <6>1, UpsertKeeps DEF BatchOf
            <6> QED BY <3>3, <5>1, <5>2, <5>3, <6>2
          <5>4. CASE ~stored
            BY <3>3, <5>1, <5>2, <5>4
          <5> QED BY <5>3, <5>4
        <4> QED BY <4>1, <4>2
      <3> QED BY <3>1, <3>6 DEF MapIsRecorded
    <2>2. CASE NextSession
      BY <2>2 DEF NextSession, NewMemory, MapIsRecorded
    <2>3. CASE Restart
      BY <2>3 DEF Restart, NewMemory, MapIsRecorded
    <2>4. CASE UNCHANGED <<session, entries, userMap>>
      BY <2>4 DEF MapIsRecorded
    <2> QED BY <2>1, <2>2, <2>3, <2>4, RosterUntouched
  <1> QED BY <1>1, <1>2, PTL DEF Spec

-----------------------------------------------------------------------------
(* A user's name tells whether its person has one. *)
NameFits(u, p) ==
  \/ p \notin Generic /\ u = Name(p)
  \/ p \in Generic /\ \E n \in Nat : u = Generated(n)

(* Users and whom they were created for; someone with a user is on track   *)
(* or has left it, and the counter is not behind the stored numbers.       *)
UsersInv ==
  /\ IsFiniteSet(users)
  /\ owner \in [users -> People]
  /\ \A u \in users : NameFits(u, owner[u])
  /\ \A u \in users : owner[u] \in left \/ \E c \in Cars : seat[c] = owner[u]
  /\ counter # Unset /\ ~miscounted => \A u \in users : u[1] = "Player" => u[2] <= counter

(* The number the car would get. *)
Number(failed, c) == CounterRead(failed) + Cardinality({d \in Unknown(failed) : d <= c})

(* The greatest number is one, and no stored number is greater. *)
LEMMA GreatestNumber ==
  ASSUME NEW stored, IsFiniteSet(stored), \A u \in stored : u[1] = "Player" => u[2] \in Nat
  PROVE  /\ MaxPlayerNumber(stored) \in Nat
         /\ \A u \in stored : u[1] = "Player" => u[2] <= MaxPlayerNumber(stored)
  <1> DEFINE P == {v \in stored : v[1] = "Player"}
             f == [u \in P |-> u[2]]
             I == {f[u] : u \in P}
             S == {0} \cup {u[2] : u \in P}
  <1>1. IsFiniteSet(P)
    BY FS_Subset
  <1>2. S = I \cup {0}
    OBVIOUS
  <1>3. IsFiniteSet(I)
    <2> HIDE DEF f
    <2> QED BY <1>1, ImageFinite
  <1>4. IsFiniteSet(S)
    <2> HIDE DEF I, S
    <2> QED BY <1>2, <1>3, FS_AddElement
  <1>5. S \in SUBSET Nat /\ S # {}
    <2>1. \A u \in P : u[2] \in Nat
      OBVIOUS
    <2> QED BY <2>1
  <1> HIDE DEF S
  <1>6. \E m \in S : \A x \in S : m >= x
    BY <1>4, <1>5, GreatestExists
  <1>7. Max(S) \in S /\ \A x \in S : Max(S) >= x
    BY <1>6 DEF Max
  <1>8. MaxPlayerNumber(stored) = Max(S)
    BY DEF MaxPlayerNumber, S
  <1>9. \A u \in stored : u[1] = "Player" => u[2] \in S
    BY DEF S
  <1> QED BY <1>5, <1>7, <1>8, <1>9

LEMMA UserNumbers ==
  ASSUME UsersInv
  PROVE  \A u \in users : u[1] = "Player" => u[2] \in Nat
  BY DEF UsersInv, NameFits, Name, Generated

(* The numbers of a packet are above the counter and differ. *)
LEMMA Numbers ==
  ASSUME TypeOK, UsersInv, NEW failed \in Failures
  PROVE  /\ CounterRead(failed) \in Nat
         /\ Cardinality(Unknown(failed)) \in Nat
         /\ \A c \in Unknown(failed) :
              Number(failed, c) \in Nat /\ Number(failed, c) > CounterRead(failed)
         /\ \A c \in Unknown(failed) :
              Number(failed, c) <= CounterRead(failed) + Cardinality(Unknown(failed))
         /\ \A c, d \in Unknown(failed) : Number(failed, c) = Number(failed, d) => c = d
         /\ (counter # Unset => ~miscounted) /\ (counter = Unset => "counter" \notin failed) =>
              \A u \in users : u[1] = "Player" => u[2] <= CounterRead(failed)
  <1>1. IsFiniteSet(users) /\ \A u \in users : u[1] = "Player" => u[2] \in Nat
    BY UserNumbers DEF UsersInv
  <1>2. /\ MaxPlayerNumber(users) \in Nat
        /\ \A u \in users : u[1] = "Player" => u[2] <= MaxPlayerNumber(users)
    BY <1>1, GreatestNumber
  <1>3. CounterRead(failed) \in Nat
    BY <1>2 DEF CounterRead, TypeOK
  <1> DEFINE needs == Unknown(failed)
             upto(c) == {d \in needs : d <= c}
  <1>4. needs \subseteq Nat /\ IsFiniteSet(needs) /\ Cardinality(needs) \in Nat
    <2>1. needs \subseteq Cars
      BY DEF Unknown, GenericCars, Humans
    <2> QED BY <2>1, FS_Subset, FS_CardinalityType
  <1> HIDE DEF needs
  <1>5. ASSUME NEW c \in needs
        PROVE  /\ IsFiniteSet(upto(c)) /\ Cardinality(upto(c)) \in Nat
               /\ Cardinality(upto(c)) > 0 /\ Cardinality(upto(c)) <= Cardinality(needs)
    <2>1. upto(c) \subseteq needs /\ c \in upto(c)
      BY <1>4
    <2>2. IsFiniteSet(upto(c)) /\ Cardinality(upto(c)) <= Cardinality(needs)
      BY <1>4, <2>1, FS_Subset
    <2> QED BY <2>1, <2>2, FS_CardinalityType, FS_EmptySet
  <1>6. ASSUME NEW c \in needs, NEW d \in needs, c < d
        PROVE  Cardinality(upto(c)) # Cardinality(upto(d))
    <2>1. upto(c) \subseteq upto(d) /\ d \in upto(d) /\ d \notin upto(c)
      BY <1>4, <1>6
    <2> QED BY <1>5, <2>1, FS_Subset
  <1>7. \A c \in needs : Number(failed, c) = CounterRead(failed) + Cardinality(upto(c))
    BY DEF Number, needs
  <1> HIDE DEF upto
  <1>8. \A c, d \in needs : Number(failed, c) = Number(failed, d) => c = d
    <2> SUFFICES ASSUME NEW c \in needs, NEW d \in needs, Number(failed, c) = Number(failed, d)
                 PROVE  c = d
      OBVIOUS
    <2>1. Cardinality(upto(c)) = Cardinality(upto(d))
      BY <1>3, <1>5, <1>7
    <2> QED BY <1>4, <1>6, <2>1
  <1>9. (counter # Unset => ~miscounted) /\ (counter = Unset => "counter" \notin failed) =>
              \A u \in users : u[1] = "Player" => u[2] <= CounterRead(failed)
    BY <1>2 DEF CounterRead, UsersInv
  <1>10. /\ \A c \in needs : Number(failed, c) \in Nat /\ Number(failed, c) > CounterRead(failed)
         /\ \A c \in needs : Number(failed, c) <= CounterRead(failed) + Cardinality(needs)
    BY <1>3, <1>4, <1>5, <1>7
  <1> QED BY <1>3, <1>4, <1>8, <1>9, <1>10 DEF needs

(* How a car comes to its name. *)
LEMMA NamesOf ==
  ASSUME TypeOK, NEW failed \in Failures, NEW name \in Namings(failed), NEW c \in Humans
  PROVE  /\ c \in Cars /\ seat[c] \in People
         /\ \/ seat[c] \notin Generic /\ name[c] = Name(seat[c])
            \/ /\ seat[c] \in Generic /\ c \in Unknown(failed)
               /\ name[c] = Generated(Number(failed, c))
            \/ /\ seat[c] \in Generic /\ c \notin Unknown(failed)
               /\ \E e \in entries : e.plate = Plate[seat[c]] /\ e.user = name[c]
  <1>1. c \in Cars /\ seat[c] \in People
    BY DEF Humans, Participant, TypeOK
  <1>2. c \in GenericCars <=> seat[c] \in Generic
    BY DEF GenericCars, Participant
  <1>3. IF c \in Unknown(failed) THEN name[c] = Generated(Number(failed, c))
        ELSE IF c \in GenericCars THEN name[c] \in WeekendNames(failed, seat[c])
        ELSE name[c] = Name(seat[c])
    BY DEF Namings, Number
  <1>4. c \in Unknown(failed) => c \in GenericCars
    BY DEF Unknown
  <1> QED BY <1>1, <1>2, <1>3, <1>4 DEF WeekendNames

-----------------------------------------------------------------------------
SharesPlate(p) == \E q \in People \ {p} : Plate[q] = Plate[p]

(* An entry shows the plate of its user's person.  Those of the session    *)
(* lie on the cars this process has written, unless it was restarted, and  *)
(* a named person's stays on the car they sit in until they leave it.      *)
EntriesInv ==
  /\ \A e \in entries : e.session \in 1..session
  /\ \A e \in entries : e.plate = Plate[owner[e.user]] \/ miscounted
  /\ \A e \in EntriesOf(session) : owner[e.user] \in {seat[e.car]} \cup Generic \cup left
  /\ session \notin restartedIn => \A e \in EntriesOf(session) : e.car \in written

(* A car in the map is resolved to its driver, or to one who has left, but *)
(* for a failed count and for shared plates; a named person who has a user *)
(* and never left is resolved to it.                                       *)
SeatInv ==
  /\ \A c, d \in Cars : seat[c] = seat[d] => c = d \/ seat[c] = "ai"
  /\ \A c \in written : seat[c] \in People \ (Generic \cup left) /\ Name(seat[c]) \in users
                        => userMap[c] = Name(seat[c])
  /\ \A c \in written : \/ owner[userMap[c]] \in {seat[c]} \cup left
                        \/ miscounted \/ SharesPlate(owner[userMap[c]])

RowsInv ==
  /\ \A r \in rows : r.user \in users /\ r.session \in 1..session
  /\ RowsOfTheirDriver /\ RowsHaveEntries

RosterInv == TypeOK /\ UsersInv /\ EntriesInv /\ SeatInv /\ RowsInv

LEMMA InitRoster == ASSUME Init PROVE RosterInv
  <1>1. TypeOK
    BY DEF Init, TypeOK, Sessions
  <1>2. UsersInv
    BY FS_EmptySet DEF Init, UsersInv
  <1>3. EntriesInv /\ SeatInv
    BY DEF Init, EntriesInv, EntriesOf, SeatInv
  <1>4. RowsInv
    BY DEF Init, RowsInv, RowsOfTheirDriver, RowsHaveEntries
  <1> QED BY <1>1, <1>2, <1>3, <1>4 DEF RosterInv

(* A user the table lacks is created for the car that names it first. *)
LEMMA NewUser ==
  ASSUME TypeOK, UsersInv, NEW failed \in Failures, NEW name \in Namings(failed),
         NEW c \in Humans, name[c] \notin users
  PROVE  /\ NameFits(name[c], seat[c])
         /\ seat[c] \in Generic =>
              c \in Unknown(failed) /\ name[c] = Generated(Number(failed, c))
  <1>1. \A e \in entries : e.user \in users
    BY DEF TypeOK
  <1>2. c \in Unknown(failed) => Number(failed, c) \in Nat
    BY Numbers
  <1> QED BY <1>1, <1>2, NamesOf DEF NameFits

(* A packet names two cars of one new user for one person: only one car. *)
LEMMA NewUserOnce ==
  ASSUME TypeOK, UsersInv, SeatInv, NEW failed \in Failures, NEW name \in Namings(failed),
         NEW c \in Humans, NEW d \in Humans, name[c] \notin users, name[c] = name[d]
  PROVE  c = d
  <1>1. /\ NameFits(name[c], seat[c]) /\ NameFits(name[d], seat[d])
        /\ seat[c] \in Generic => c \in Unknown(failed) /\ name[c] = Generated(Number(failed, c))
        /\ seat[d] \in Generic => d \in Unknown(failed) /\ name[d] = Generated(Number(failed, d))
    BY NewUser
  <1>2. c \in Cars /\ d \in Cars /\ seat[c] \in People /\ seat[d] \in People
    BY NamesOf
  <1>3. CASE seat[c] \notin Generic
    BY <1>1, <1>2, <1>3 DEF NameFits, Name, Generated, SeatInv
  <1>4. CASE seat[c] \in Generic
    <2>1. seat[d] \in Generic
      BY <1>1, <1>2, <1>4 DEF NameFits, Name, Generated
    <2>2. Number(failed, c) = Number(failed, d)
      BY <1>1, <1>4, <2>1 DEF Generated
    <2> QED BY <1>1, <1>4, <2>1, <2>2, Numbers
  <1> QED BY <1>3, <1>4

LEMMA PacketKeeps ==
  ASSUME RosterInv, MapIsRecorded, NEW failed \in Failures, ParticipantsPacket(failed)
  PROVE  RosterInv'
  <1>0. TypeOK /\ UsersInv /\ EntriesInv /\ SeatInv /\ RowsInv
    BY DEF RosterInv
  <1>1. /\ UNCHANGED <<session, seat, rows, left, restartedIn>>
        /\ miscounted' = (miscounted \/ ("counter" \in failed /\ counter = Unset
                                            /\ Unknown(failed) # {}))
    BY DEF ParticipantsPacket, gameVars
  <1>2. PICK name \in Namings(failed) :
          LET batch  == BatchOf(name)
              known  == ResolveUsers(failed, batch)
              stored == batch # {} /\ ~BatchFails(failed, batch)
              done   == Reported(batch, stored)
          IN /\ users' = known
             /\ entries' = IF stored THEN Upserted(batch) ELSE entries
             /\ written' = WrittenAfter(done)
             /\ userMap' = [c \in DOMAIN userMap \cup done |->
                              IF c \in done THEN name[c] ELSE userMap[c]]
             /\ counter' = Settled(failed, known)
             /\ owner' = [u \in known |-> IF u \in users THEN owner[u]
                                          ELSE seat[CHOOSE c \in NewCars : name[c] = u]]
    BY DEF ParticipantsPacket
  <1> DEFINE batch  == BatchOf(name)
             known  == ResolveUsers(failed, batch)
             stored == batch # {} /\ ~BatchFails(failed, batch)
             done   == Reported(batch, stored)
  <1>3. /\ users' = known
        /\ written' = written \cup done
        /\ userMap' = [c \in DOMAIN userMap \cup done |->
                         IF c \in done THEN name[c] ELSE userMap[c]]
        /\ counter' = Settled(failed, known)
        /\ owner' = [u \in known |-> IF u \in users THEN owner[u]
                                     ELSE seat[CHOOSE c \in NewCars : name[c] = u]]
    BY <1>2 DEF WrittenAfter
  <1>4. entries' = IF stored THEN Upserted(batch) ELSE entries
    BY <1>2
  (* The batch. *)
  <1>5. /\ NewCars = Humans \ written /\ Humans \subseteq Cars
        /\ \A c \in NewCars : seat[c] \in People
    BY <1>0, NamesOf DEF NewCars, Humans
  <1>6. \A b : b \in batch <=> \E c \in NewCars :
          b = [session |-> session, car |-> c, user |-> name[c], plate |-> Plate[seat[c]]]
    BY DEF BatchOf
  <1>7. /\ \A b \in batch : /\ b.session = session /\ b.car \in NewCars /\ b.user = name[b.car]
                           /\ b.plate = Plate[seat[b.car]]
        /\ \A c \in NewCars : \E b \in batch : b.car = c
    <2> HIDE DEF batch
    <2>1. ASSUME NEW b \in batch
          PROVE  /\ b.session = session /\ b.car \in NewCars /\ b.user = name[b.car]
                 /\ b.plate = Plate[seat[b.car]]
      BY <1>6
    <2>2. ASSUME NEW c \in NewCars
          PROVE  \E b \in batch : b.car = c
      <3> DEFINE b == [session |-> session, car |-> c, user |-> name[c], plate |-> Plate[seat[c]]]
      <3>1. b \in batch /\ b.car = c
        BY <1>6
      <3> QED BY <3>1
    <2> QED BY <2>1, <2>2
  <1>8. done = {} \/ (stored /\ done = NewCars)
    <2>1. {b.car : b \in batch} = NewCars
      BY <1>7
    <2> QED BY <2>1 DEF Reported
  <1>9. /\ users \subseteq known
        /\ known = users \/ known = users \cup {name[c] : c \in NewCars}
        /\ stored => known = users \cup {name[c] : c \in NewCars}
    BY <1>7 DEF ResolveUsers, BatchFails
  <1>10. stored => ~BreaksKey(EntriesOf(session), batch)
    BY DEF BatchFails
  <1>11. \A e \in entries' : e \in entries \/ (stored /\ e \in batch)
    BY <1>4 DEF Upserted
  <1>12. \A e \in entries :
           e \in entries' \/ (stored /\ \E b \in batch : b.session = e.session /\ b.car = e.car)
    BY <1>4 DEF Upserted
  <1>13. stored => batch \subseteq entries'
    BY <1>4 DEF Upserted
  <1> HIDE DEF batch, stored, done, known
  (* The owners. *)
  <1>14. ASSUME NEW u \in known
         PROVE  /\ u \in users => owner'[u] = owner[u]
                /\ u \notin users => \E c \in NewCars : /\ name[c] = u /\ owner'[u] = seat[c]
                                                    /\ NameFits(u, seat[c])
    <2>1. CASE u \in users
      BY <1>3, <2>1
    <2>2. CASE u \notin users
      <3>1. \E c \in NewCars : name[c] = u
        BY <1>9, <2>2
      <3>2. PICK c \in NewCars : name[c] = u /\ owner'[u] = seat[c]
        BY <1>3, <2>2, <3>1
      <3> QED BY <1>0, <1>5, <2>2, <3>2, NewUser
    <2> QED BY <2>1, <2>2
  <1>15. \A u \in users : u \in known /\ owner'[u] = owner[u]
    BY <1>9, <1>14
  <1>16. \A u \in known : u \notin users =>
           \E c \in NewCars : name[c] = u /\ owner'[u] = seat[c] /\ NameFits(u, seat[c])
    BY <1>14
  (* The name of a car in the batch, and whose it is. *)
  <1>17. \A u \in users : u \in users' /\ owner[u] \in People /\ NameFits(u, owner[u])
    BY <1>0, <1>3, <1>15 DEF UsersInv
  <1>18. ASSUME NEW c \in NewCars, stored
         PROVE  name[c] \in known /\ c \in Humans /\ seat[c] \in People
    BY <1>5, <1>9, <1>18
  <1>19. ASSUME NEW c \in NewCars, stored, seat[c] \notin Generic
         PROVE  name[c] = Name(seat[c]) /\ owner'[name[c]] = seat[c]
    <2>1. name[c] = Name(seat[c]) /\ name[c] \in known /\ seat[c] \in People
      BY <1>0, <1>18, <1>19, NamesOf
    <2>2. NameFits(name[c], owner'[name[c]])
      BY <1>14, <1>17, <2>1
    <2> QED BY <2>1, <2>2 DEF NameFits, Name, Generated
  <1>20. ASSUME NEW c \in NewCars, stored, seat[c] \in Generic
         PROVE  Plate[owner'[name[c]]] = Plate[seat[c]] \/ miscounted'
    <2>1. CASE name[c] \notin users
      <3>1. PICK d \in NewCars : name[d] = name[c] /\ owner'[name[c]] = seat[d]
        BY <1>16, <1>18, <1>20, <2>1
      <3>2. d = c
        BY <1>0, <1>5, <2>1, <3>1, NewUserOnce
      <3> QED BY <3>1, <3>2
    <2>2. CASE name[c] \in users /\ c \in Unknown(failed)
      <3>1. name[c] = Generated(Number(failed, c))
        BY <1>0, <1>18, <1>20, <2>2, NamesOf
      <3>2. name[c][1] = "Player" /\ name[c][2] > CounterRead(failed)
            /\ name[c][2] \in Nat /\ CounterRead(failed) \in Nat
        BY <1>0, <2>2, <3>1, Numbers DEF Generated
      <3>3. ~((counter # Unset => ~miscounted) /\ (counter = Unset => "counter" \notin failed))
        BY <1>0, <2>2, <3>2, Numbers
      <3> QED BY <1>1, <2>2, <3>3
    <2>3. CASE name[c] \in users /\ c \notin Unknown(failed)
      <3>1. PICK e \in entries : e.plate = Plate[seat[c]] /\ e.user = name[c]
        BY <1>0, <1>18, <1>20, <2>3, NamesOf
      <3>2. Plate[owner[name[c]]] = Plate[seat[c]] \/ miscounted
        BY <1>0, <3>1 DEF EntriesInv
      <3>3. miscounted => miscounted'
        BY <1>1
      <3> QED BY <1>15, <2>3, <3>2, <3>3
    <2> QED BY <2>1, <2>2, <2>3
  (* A named person who is on track is not given to another car too. *)
  <1>21. ASSUME NEW c \in NewCars, stored, seat[c] \in Generic
         PROVE  owner'[name[c]] \in Generic \cup left
    <2> SUFFICES ASSUME owner'[name[c]] \notin Generic, owner'[name[c]] \notin left PROVE FALSE
      OBVIOUS
    <2> DEFINE p == owner'[name[c]]
    <2>1. name[c] \in users /\ owner[name[c]] = p /\ name[c] = Name(p) /\ p \in People
      <3>1. CASE name[c] \in users
        BY <1>15, <1>17, <3>1 DEF NameFits
      <3>2. CASE name[c] \notin users
        <4>1. PICK d \in NewCars : name[d] = name[c] /\ owner'[name[c]] = seat[d]
          BY <1>16, <1>18, <1>21, <3>2
        <4>2. d = c
          BY <1>0, <1>5, <3>2, <4>1, NewUserOnce
        <4> QED BY <1>21, <4>1, <4>2
      <3> QED BY <3>1, <3>2
    <2>2. p \notin Generic \cup left
      OBVIOUS
    <2> HIDE DEF p
    <2>3. PICK d \in Cars : seat[d] = p
      BY <1>0, <2>1, <2>2 DEF UsersInv
    <2>4. d \in Humans /\ d # c /\ c \in Nat /\ d \in Nat
      BY <1>5, <1>21, <2>1, <2>2, <2>3 DEF Humans, Participant
    <2>5. PICK b \in batch : b.car = c /\ b.user = name[c]
      <3>1. PICK e \in batch : e.car = c
        BY <1>7
      <3>2. e.user = name[e.car]
        BY <1>7
      <3> QED BY <3>1, <3>2
    <2>6. ~BreaksKey(EntriesOf(session), batch)
      BY <1>10, <1>21
    <2>7. CASE d \in NewCars
      <3>1. name[d] = Name(p)
        BY <1>19, <1>21, <2>2, <2>3, <2>7
      <3>2. PICK a \in batch : a.car = d /\ a.user = name[d]
        <4>1. PICK e \in batch : e.car = d
          BY <1>7, <2>7
        <4>2. e.user = name[e.car]
          BY <1>7
        <4> QED BY <4>1, <4>2
      <3>3. a.car < b.car \/ b.car < a.car
        BY <2>4, <2>5, <3>2
      <3> QED BY <2>1, <2>5, <2>6, <3>1, <3>2, <3>3 DEF BreaksKey
    <2>8. CASE d \notin NewCars
      <3>1. d \in written /\ d \in DOMAIN userMap
        BY <1>0, <1>5, <2>4, <2>8 DEF TypeOK
      <3>2. userMap[d] = Name(p)
        BY <1>0, <2>1, <2>2, <2>3, <3>1 DEF SeatInv
      <3>3. PICK e \in EntriesOf(session) : e.car = d /\ e.user = name[c]
        BY <2>1, <3>1, <3>2 DEF MapIsRecorded, EntriesOf
      <3>4. \A a \in batch : a.car # e.car
        BY <1>7, <2>8, <3>3
      <3> QED BY <2>4, <2>5, <2>6, <3>3, <3>4 DEF BreaksKey
    <2> QED BY <2>7, <2>8
  (* The new state. *)
  <1>22. \A u \in users' : /\ owner'[u] \in People /\ NameFits(u, owner'[u])
                           /\ owner'[u] \in left \/ \E c \in Cars : seat[c] = owner'[u]
    <2> SUFFICES ASSUME NEW u \in known
                 PROVE  /\ owner'[u] \in People /\ NameFits(u, owner'[u])
                        /\ owner'[u] \in left \/ \E c \in Cars : seat[c] = owner'[u]
      BY <1>3
    <2>1. CASE u \in users
      BY <1>0, <1>15, <1>17, <2>1 DEF UsersInv
    <2>2. CASE u \notin users
      BY <1>5, <1>16, <2>2
    <2> QED BY <2>1, <2>2
  <1>23. IsFiniteSet(users')
    <2>1. IsFiniteSet(NewCars)
      BY <1>5, FS_Subset
    <2>2. IsFiniteSet({name[c] : c \in NewCars})
      BY <2>1, ImageFinite
    <2>3. IsFiniteSet(users)
      BY <1>0 DEF UsersInv
    <2> DEFINE X == {name[c] : c \in NewCars}
    <2> HIDE DEF X
    <2>4. IsFiniteSet(users \cup X)
      BY <2>2, <2>3, FS_Union DEF X
    <2> QED BY <1>3, <1>9, <2>3, <2>4 DEF X
  <1>24. /\ counter' \in Nat \cup {Unset}
         /\ counter' # Unset /\ ~miscounted' =>
              \A u \in users' : u[1] = "Player" => u[2] <= counter'
    <2>1. \A u \in users' : u[1] = "Player" => u[2] \in Nat
      BY <1>22 DEF NameFits, Name, Generated
    <2> DEFINE top == MaxPlayerNumber(known)
               next == CounterRead(failed) + Cardinality(Unknown(failed))
    <2>2. top \in Nat /\ \A u \in users' : u[1] = "Player" => u[2] <= top
      BY <1>3, <1>23, <2>1, GreatestNumber
    <2>3. CounterRead(failed) \in Nat /\ Cardinality(Unknown(failed)) \in Nat /\ next \in Nat
      BY <1>0, Numbers
    <2>4. counter' = IF Unknown(failed) = {} THEN counter ELSE IF next <= top THEN next ELSE top
      BY <1>3 DEF Settled
    <2>5. CASE Unknown(failed) = {}
      <3>1. counter' = counter /\ (miscounted => miscounted')
        BY <1>1, <2>4, <2>5
      <3>2. \A u \in users' : u[1] = "Player" => u \in users
        <4> SUFFICES ASSUME NEW u \in known, u \notin users PROVE u[1] # "Player"
          BY <1>3
        <4>1. PICK c \in NewCars : name[c] = u
          BY <1>16
        <4>2. seat[c] \notin Generic /\ seat[c] \in People /\ NameFits(u, seat[c])
          BY <1>0, <1>5, <2>5, <4>1, NewUser
        <4> QED BY <4>2 DEF NameFits, Name
      <3> QED BY <1>0, <3>1, <3>2 DEF UsersInv, TypeOK
    <2>6. CASE Unknown(failed) # {}
      <3>1. counter' = IF next <= top THEN next ELSE top
        BY <2>4, <2>6
      <3>2. ASSUME ~miscounted', NEW u \in known, u[1] = "Player"
            PROVE  u[2] <= next
        <4>1. (counter # Unset => ~miscounted) /\ (counter = Unset => "counter" \notin failed)
          BY <1>1, <2>6, <3>2
        <4>2. CASE u \in users
          <5>1. u[2] <= CounterRead(failed)
            BY <1>0, <3>2, <4>1, <4>2, Numbers
          <5> QED BY <1>3, <2>1, <2>3, <3>2, <5>1
        <4>3. CASE u \notin users
          <5>1. PICK c \in NewCars : name[c] = u
            BY <1>16, <4>3
          <5>2. NameFits(u, seat[c]) /\ seat[c] \in People
                /\ (seat[c] \in Generic =>
                      c \in Unknown(failed) /\ u = Generated(Number(failed, c)))
            BY <1>0, <1>5, <4>3, <5>1, NewUser
          <5>3. c \in Unknown(failed) /\ u[2] = Number(failed, c)
            BY <3>2, <5>2 DEF NameFits, Name, Generated
          <5> QED BY <1>0, <5>3, Numbers
        <4> QED BY <4>2, <4>3
      <3> HIDE DEF top, next
      <3> QED BY <1>3, <2>1, <2>2, <2>3, <3>1, <3>2
    <2> QED BY <2>5, <2>6
  <1>25. UsersInv'
    <2>1. owner' \in [users' -> People]
      BY <1>3, <1>22
    <2> QED BY <1>1, <1>22, <1>23, <1>24, <2>1 DEF UsersInv
  <1>26. EntriesOf(session)' = {e \in entries' : e.session = session}
    BY <1>1 DEF EntriesOf
  <1>27. ASSUME NEW e \in entries'
         PROVE  \/ e \in entries
                \/ /\ stored /\ e.session = session /\ e.car \in NewCars /\ e.user = name[e.car]
                   /\ e.plate = Plate[seat[e.car]]
    BY <1>7, <1>11
  <1>28. TypeOK'
    <2>1. /\ written' \subseteq Cars /\ DOMAIN userMap' = written'
      BY <1>0, <1>1, <1>3, <1>5, <1>8 DEF TypeOK
    <2>2. \A u \in users' : u[1] \in People \cup {"Player"} /\ u[2] \in Nat
      BY <1>22 DEF NameFits, Name, Generated
    <2>3. ASSUME NEW e \in entries'
          PROVE  /\ e.session \in Sessions /\ e.car \in Cars /\ e.user \in users'
                 /\ e.plate \in Nat
      <3>1. CASE e \in entries
        BY <1>0, <1>17, <3>1 DEF TypeOK
      <3>2. CASE e \notin entries
        <4>1. /\ stored /\ e.session = session /\ e.car \in NewCars /\ e.user = name[e.car]
              /\ e.plate = Plate[seat[e.car]]
          BY <1>27, <3>2
        <4> QED BY <1>0, <1>3, <1>5, <1>18, <4>1 DEF TypeOK
      <3> QED BY <3>1, <3>2
    <2> QED BY <1>0, <1>1, <1>24, <2>1, <2>2, <2>3 DEF TypeOK
  <1>29. EntriesInv'
    <2>1. ASSUME NEW e \in entries'
          PROVE  /\ e.session \in 1..session
                 /\ Plate[owner'[e.user]] = e.plate \/ miscounted'
                 /\ e.session = session => owner'[e.user] \in {seat[e.car]} \cup Generic \cup left
                 /\ e.session = session /\ session \notin restartedIn => e.car \in written'
      <3>1. CASE e \in entries
        <4>1. e.user \in users /\ owner'[e.user] = owner[e.user]
          BY <1>0, <1>15, <3>1 DEF TypeOK
        <4>2. miscounted => miscounted'
          BY <1>1
        <4>3. e.session = session => e \in EntriesOf(session)
          BY <3>1 DEF EntriesOf
        <4> QED BY <1>0, <1>3, <3>1, <4>1, <4>2, <4>3 DEF EntriesInv
      <3>2. CASE e \notin entries
        <4>1. /\ stored /\ e.session = session /\ e.car \in NewCars /\ e.user = name[e.car]
              /\ e.plate = Plate[seat[e.car]]
          BY <1>27, <3>2
        <4>2. e.car \in written'
          BY <1>3, <1>7, <4>1 DEF done, Reported
        <4>3. session \in 1..session
          BY <1>0 DEF TypeOK, Sessions
        <4>4. Plate[owner'[e.user]] = e.plate \/ miscounted'
          BY <1>19, <1>20, <4>1
        <4>5. owner'[e.user] \in {seat[e.car]} \cup Generic \cup left
          BY <1>19, <1>21, <4>1
        <4> QED BY <4>1, <4>2, <4>3, <4>4, <4>5
      <3> QED BY <3>1, <3>2
    <2> QED BY <1>1, <1>26, <2>1 DEF EntriesInv
  <1>30. SeatInv'
    <2>1. ASSUME NEW c \in written'
          PROVE  /\ seat[c] \in People \ (Generic \cup left) /\ Name(seat[c]) \in users'
                     => userMap'[c] = Name(seat[c])
                 /\ \/ owner'[userMap'[c]] \in {seat[c]} \cup left
                    \/ miscounted' \/ SharesPlate(owner'[userMap'[c]])
      <3>1. CASE c \in done
        <4>1. userMap'[c] = name[c] /\ stored /\ c \in NewCars
          BY <1>3, <1>8, <3>1
        <4>2. Plate[owner'[name[c]]] = Plate[seat[c]] \/ miscounted'
          BY <1>19, <1>20, <4>1
        <4>3. seat[c] \in People
          BY <1>5, <4>1
        <4> QED BY <1>19, <4>1, <4>2, <4>3 DEF SharesPlate
      <3>2. CASE c \notin done
        <4>1. c \in written /\ userMap'[c] = userMap[c] /\ c \in Cars
          BY <1>0, <1>3, <3>2 DEF TypeOK
        <4>2. userMap[c] \in users
          BY <1>0, <4>1 DEF MapIsRecorded, TypeOK
        <4>3. ASSUME seat[c] \in People \ (Generic \cup left), Name(seat[c]) \in users'
              PROVE  Name(seat[c]) \in users
          <5> SUFFICES ASSUME Name(seat[c]) \notin users PROVE FALSE
            OBVIOUS
          <5>1. PICK d \in NewCars : name[d] = Name(seat[c]) /\ NameFits(Name(seat[c]), seat[d])
            BY <1>3, <1>16, <4>3
          <5>2. seat[d] = seat[c]
            BY <1>5, <4>3, <5>1 DEF NameFits, Name, Generated
          <5> QED BY <1>0, <1>5, <4>1, <4>3, <5>1, <5>2 DEF SeatInv
        <4>4. miscounted => miscounted'
          BY <1>1
        <4> QED BY <1>0, <1>15, <4>1, <4>2, <4>3, <4>4 DEF SeatInv
      <3> QED BY <3>1, <3>2
    <2> QED BY <1>0, <1>1, <2>1 DEF SeatInv
  <1>31. RowsInv'
    <2> SUFFICES ASSUME NEW r \in rows
                 PROVE  /\ r.user \in users' /\ r.session \in 1..session
                        /\ \/ r.person \in {owner'[r.user], "ai"}
                           \/ r.person \in left \/ owner'[r.user] \in left
                           \/ miscounted'
                           \/ \E p \in People \ {owner'[r.user]} : Plate[p] = Plate[owner'[r.user]]
                        /\ \/ \E e \in entries' : e.session = r.session /\ e.user = r.user
                           \/ r.session \in restartedIn /\ (owner'[r.user] \in Generic \cup left)
      BY <1>1 DEF RowsInv, RowsOfTheirDriver, RowsHaveEntries
    <2>1. r.user \in users /\ r.session \in 1..session /\ owner'[r.user] = owner[r.user]
      BY <1>0, <1>15 DEF RowsInv
    <2>2. miscounted => miscounted'
      BY <1>1
    <2>3. ASSUME NEW e \in entries, e.session = r.session, e.user = r.user,
                 ~(r.session \in restartedIn /\ (owner[r.user] \in Generic \cup left))
          PROVE  \E f \in entries' : f.session = r.session /\ f.user = r.user
      <3>1. CASE e \in entries'
        BY <2>3, <3>1
      <3>2. CASE e \notin entries'
        <4>1. PICK b \in batch : b.session = e.session /\ b.car = e.car /\ stored
          BY <1>12, <3>2
        <4>2. /\ b \in entries' /\ e.session = session /\ e \in EntriesOf(session)
              /\ b.car \in NewCars /\ b.user = name[b.car]
          BY <1>7, <1>13, <4>1 DEF EntriesOf
        <4>3. e.car \notin written
          BY <1>5, <4>1, <4>2
        <4>4. owner[e.user] = seat[e.car] /\ owner[e.user] \notin Generic
          BY <1>0, <2>3, <4>2, <4>3 DEF EntriesInv
        <4>5. e.user = Name(seat[e.car])
          BY <1>17, <2>1, <2>3, <4>4 DEF NameFits
        <4>6. b.user = Name(seat[e.car])
          BY <1>19, <4>1, <4>2, <4>4
        <4> QED BY <2>3, <4>1, <4>2, <4>5, <4>6
      <3> QED BY <3>1, <3>2
    <2>4. \/ r.person \in {owner[r.user], "ai"}
          \/ r.person \in left \/ owner[r.user] \in left
          \/ miscounted
          \/ \E p \in People \ {owner[r.user]} : Plate[p] = Plate[owner[r.user]]
      BY <1>0 DEF RowsInv, RowsOfTheirDriver
    <2>5. \/ \E e \in entries : e.session = r.session /\ e.user = r.user
          \/ r.session \in restartedIn /\ (owner[r.user] \in Generic \cup left)
      BY <1>0 DEF RowsInv, RowsHaveEntries
    <2>6. \/ \E e \in entries' : e.session = r.session /\ e.user = r.user
          \/ r.session \in restartedIn /\ (owner[r.user] \in Generic \cup left)
      BY <2>3, <2>5
    <2>7. \/ r.person \in {owner'[r.user], "ai"}
          \/ r.person \in left \/ owner'[r.user] \in left
          \/ miscounted'
          \/ \E p \in People \ {owner'[r.user]} : Plate[p] = Plate[owner'[r.user]]
      BY <2>1, <2>2, <2>4
    <2>8. r.user \in users'
      BY <1>17, <2>1
    <2> QED BY <2>1, <2>6, <2>7, <2>8
  <1> QED BY <1>25, <1>28, <1>29, <1>30, <1>31 DEF RosterInv

(* The game: seats change hands. *)
LEMMA SeatsKeep ==
  ASSUME RosterInv, MapIsRecorded,
         \/ \E c \in Cars, p \in People : TakeSeat(c, p)
         \/ \E c \in Cars : LeaveSeat(c)
  PROVE  RosterInv'
  <1>0. TypeOK /\ UsersInv /\ EntriesInv /\ SeatInv /\ RowsInv
    BY DEF RosterInv
  <1>1. PICK c \in Cars : Moved /\ ((\E p \in People : TakeSeat(c, p)) \/ LeaveSeat(c))
    BY DEF TakeSeat, LeaveSeat
  <1>2. /\ UNCHANGED <<session, users, entries, written, userMap, counter, rows, owner,
                       restartedIn, miscounted>>
    BY <1>1 DEF Moved, dbVars, memoryVars
  <1>3. /\ left \subseteq left'
        /\ \/ /\ seat[c] # "ai" /\ seat' = [seat EXCEPT ![c] = "ai"] /\ seat[c] \in left'
           \/ \E p \in People : /\ seat[c] = "ai" /\ \A d \in Cars : seat[d] # p
                               /\ seat' = [seat EXCEPT ![c] = p]
    BY <1>0, <1>1 DEF TakeSeat, LeaveSeat, Humans, Participant, TypeOK
  (* A seated person stays seated or has left. *)
  <1>4. /\ seat' \in [Cars -> People \cup {"ai"}]
        /\ \A d, e \in Cars : seat'[d] = seat'[e] => d = e \/ seat'[d] = "ai"
        /\ \A d \in Cars : seat[d] \in People => seat'[d] = seat[d] \/ seat[d] \in left'
        /\ \A d \in Cars : seat'[d] \in People =>
             seat'[d] = seat[d] \/ (\A e \in Cars : seat[e] # seat'[d])
    <2>1. /\ seat \in [Cars -> People \cup {"ai"}]
          /\ \A d, e \in Cars : seat[d] = seat[e] => d = e \/ seat[d] = "ai"
      BY <1>0 DEF TypeOK, SeatInv
    <2>2. CASE seat' = [seat EXCEPT ![c] = "ai"] /\ seat[c] \in left'
      BY <2>1, <2>2, RosterAssumption
    <2>3. ASSUME NEW p \in People, \A d \in Cars : seat[d] # p, seat[c] = "ai",
                 seat' = [seat EXCEPT ![c] = p]
          PROVE  /\ seat' \in [Cars -> People \cup {"ai"}]
                 /\ \A d, e \in Cars : seat'[d] = seat'[e] => d = e \/ seat'[d] = "ai"
                 /\ \A d \in Cars : seat[d] \in People => seat'[d] = seat[d]
                 /\ \A d \in Cars : seat'[d] \in People =>
                      seat'[d] = seat[d] \/ (\A e \in Cars : seat[e] # seat'[d])
      <3>1. \A d \in Cars : seat'[d] = IF d = c THEN p ELSE seat[d]
        BY <2>1, <2>3
      <3> QED BY <2>1, <2>3, <3>1, RosterAssumption
    <2> QED BY <1>3, <2>2, <2>3
  <1>5. TypeOK'
    BY <1>0, <1>2, <1>3, <1>4 DEF TypeOK
  <1>6. \A u \in users : owner[u] \in People
    BY <1>0 DEF UsersInv
  <1>7. UsersInv'
    <2>1. \A u \in users : owner[u] \in left' \/ \E d \in Cars : seat'[d] = owner[u]
      <3> SUFFICES ASSUME NEW u \in users, owner[u] \notin left'
                   PROVE  \E d \in Cars : seat'[d] = owner[u]
        OBVIOUS
      <3>1. PICK d \in Cars : seat[d] = owner[u]
        BY <1>0, <1>3 DEF UsersInv
      <3> QED BY <1>4, <1>6, <3>1
    <2> QED BY <1>0, <1>2, <2>1 DEF UsersInv
  <1>8. EntriesInv'
    <2>1. \A e \in EntriesOf(session) : owner[e.user] \in {seat'[e.car]} \cup Generic \cup left'
      <3> SUFFICES ASSUME NEW e \in EntriesOf(session), owner[e.user] \notin Generic \cup left'
                   PROVE  owner[e.user] = seat'[e.car]
        OBVIOUS
      <3>1. e.car \in Cars /\ e.user \in users
        BY <1>0 DEF TypeOK, EntriesOf
      <3>2. owner[e.user] = seat[e.car]
        BY <1>0, <1>3 DEF EntriesInv
      <3> QED BY <1>4, <1>6, <3>1, <3>2
    <2> QED BY <1>0, <1>2, <2>1 DEF EntriesInv, EntriesOf
  <1>9. SeatInv'
    <2> SUFFICES ASSUME NEW d \in written
                 PROVE  /\ seat'[d] \in People \ (Generic \cup left') /\ Name(seat'[d]) \in users
                            => userMap[d] = Name(seat'[d])
                        /\ \/ owner[userMap[d]] \in {seat'[d]} \cup left'
                           \/ miscounted \/ SharesPlate(owner[userMap[d]])
      BY <1>2, <1>4 DEF SeatInv
    <2>1. d \in Cars /\ userMap[d] \in users
      BY <1>0 DEF MapIsRecorded, TypeOK
    <2>2. ASSUME seat'[d] \in People \ (Generic \cup left'), Name(seat'[d]) \in users
          PROVE  userMap[d] = Name(seat'[d])
      <3>1. owner[Name(seat'[d])] = seat'[d]
        BY <1>0, <2>2 DEF UsersInv, NameFits, Name, Generated
      <3>2. \E e \in Cars : seat[e] = seat'[d]
        BY <1>0, <1>3, <2>2, <3>1 DEF UsersInv
      <3>3. seat'[d] = seat[d]
        BY <1>4, <2>1, <2>2, <3>2
      <3> QED BY <1>0, <1>3, <2>2, <3>3 DEF SeatInv
    <2>3. CASE owner[userMap[d]] = seat[d]
      BY <1>4, <1>6, <2>1, <2>2, <2>3
    <2>4. CASE owner[userMap[d]] # seat[d]
      BY <1>0, <1>3, <2>2, <2>4 DEF SeatInv
    <2> QED BY <2>3, <2>4
  <1>10. RowsInv'
    BY <1>0, <1>2, <1>3 DEF RowsInv, RowsOfTheirDriver, RowsHaveEntries
  <1> QED BY <1>5, <1>7, <1>8, <1>9, <1>10 DEF RosterInv

(* Rows are written for the cars of the map. *)
LEMMA EventRowsMapped ==
  ASSUME NEW code, NEW c, NEW d, NEW r \in EventRows(code, Named(code, c, d))
  PROVE  \E k \in DOMAIN userMap : r = Row(k)
  <1> DEFINE n == Named(code, c, d)
  <1>1. EventRows(code, n) \in {PairRows(n[1], n[2]), PenaltyRows(n[1], n[2]),
                               SpeedTrapRows(n[1], n[2]), SingleRows(n[1])}
    BY DEF EventRows
  <1> HIDE DEF n
  <1> QED BY <1>1 DEF n, PairRows, PenaltyRows, SpeedTrapRows, SingleRows, Mapped

(* What RowsInv says of a row. *)
RowFits(r) ==
  /\ r.user \in users /\ r.session \in 1..session
  /\ \/ r.person \in {owner[r.user], "ai"}
     \/ r.person \in left \/ owner[r.user] \in left
     \/ miscounted
     \/ \E p \in People \ {owner[r.user]} : Plate[p] = Plate[owner[r.user]]
  /\ \/ \E e \in entries : e.session = r.session /\ e.user = r.user
     \/ r.session \in restartedIn /\ (owner[r.user] \in Generic \cup left)

LEMMA RowsKeep ==
  ASSUME RosterInv, MapIsRecorded,
         (\E code \in Codes, c, d \in Cars : EventPacket(code, c, d)) \/ WriteFrame
  PROVE  RosterInv'
  <1>0. TypeOK /\ UsersInv /\ EntriesInv /\ SeatInv /\ RowsInv
    BY DEF RosterInv
  <1>1. /\ UNCHANGED <<session, seat, users, entries, written, userMap, counter,
                       owner, left, restartedIn, miscounted>>
        /\ \A r \in rows' : r \in rows \/ \E c \in DOMAIN userMap : r = Row(c)
    <2>1. CASE WriteFrame
      BY <2>1 DEF WriteFrame, gameVars, dbVars, memoryVars, history
    <2>2. ASSUME NEW code \in Codes, NEW c \in Cars, NEW d \in Cars, EventPacket(code, c, d)
          PROVE  /\ rows' = rows \cup EventRows(code, Named(code, c, d))
                 /\ UNCHANGED <<session, seat, users, entries, written, userMap, counter,
                                owner, left, restartedIn, miscounted>>
      BY <2>2 DEF EventPacket, gameVars, dbVars, memoryVars, history
    <2> QED BY <2>1, <2>2, EventRowsMapped
  <1>2. TypeOK' /\ UsersInv' /\ EntriesInv' /\ SeatInv'
    BY <1>0, <1>1 DEF TypeOK, UsersInv, EntriesInv, EntriesOf, SeatInv
  <1>3. ASSUME NEW c \in DOMAIN userMap
        PROVE  RowFits(Row(c))
    <2>1. Row(c).person = seat[c] /\ Row(c).user = userMap[c] /\ Row(c).session = session
      BY DEF Row
    <2>2. PICK e \in entries : e.session = session /\ e.user = userMap[c]
      BY DEF MapIsRecorded
    <2>3. e.user \in users /\ session \in 1..session /\ c \in written
      BY <1>0 DEF TypeOK, Sessions
    <2>4. owner[userMap[c]] \in {seat[c]} \cup left \/ miscounted \/ SharesPlate(owner[userMap[c]])
      BY <1>0, <2>3 DEF SeatInv
    <2> QED BY <2>1, <2>2, <2>3, <2>4 DEF RowFits, SharesPlate
  <1>4. RowsInv'
    <2>1. \A r \in rows : RowFits(r)
      BY <1>0 DEF RowsInv, RowsOfTheirDriver, RowsHaveEntries, RowFits
    <2>2. \A r \in rows' : RowFits(r)
      BY <1>1, <1>3, <2>1
    <2> QED BY <1>1, <2>2 DEF RowFits, RowsInv, RowsOfTheirDriver, RowsHaveEntries
  <1> QED BY <1>2, <1>4 DEF RosterInv

(* The maps are forgotten, and with a restart the counter. *)
LEMMA MemoryKeeps ==
  ASSUME RosterInv, NextSession \/ Restart
  PROVE  RosterInv'
  <1>0. TypeOK /\ UsersInv /\ EntriesInv /\ SeatInv /\ RowsInv
    BY DEF RosterInv
  <1>1. /\ UNCHANGED <<seat, users, entries, rows, owner, left, miscounted>>
        /\ written' = {} /\ userMap' = [c \in {} |-> Unset]
        /\ counter' = counter \/ counter' = Unset
        /\ \/ session' = session /\ restartedIn' = restartedIn \cup {session}
           \/ session < MaxSession /\ session' = session + 1 /\ restartedIn' = restartedIn
    BY DEF NextSession, Restart, NewMemory, gameVars, dbVars, history
  <1>2. session' \in Sessions /\ session \in Nat /\ 1..session \subseteq 1..session'
    BY <1>0, <1>1 DEF TypeOK, Sessions
  <1>3. TypeOK'
    BY <1>0, <1>1, <1>2 DEF TypeOK
  <1>4. UsersInv' /\ SeatInv'
    BY <1>0, <1>1 DEF UsersInv, SeatInv
  <1>5. EntriesInv'
    <2>1. session' = session \/ EntriesOf(session)' = {}
      BY <1>0, <1>1, <1>2 DEF EntriesInv, EntriesOf
    <2>2. session' = session =>
            session' \in restartedIn' /\ EntriesOf(session)' = EntriesOf(session)
      BY <1>1, <1>2 DEF EntriesOf
    <2> QED BY <1>0, <1>1, <1>2, <2>1, <2>2 DEF EntriesInv
  <1>6. RowsInv'
    BY <1>0, <1>1, <1>2 DEF RowsInv, RowsOfTheirDriver, RowsHaveEntries
  <1> QED BY <1>3, <1>4, <1>5, <1>6 DEF RosterInv

LEMMA StepRoster == ASSUME RosterInv, MapIsRecorded, [Next]_vars PROVE RosterInv'
  <1>1. CASE UNCHANGED vars
    BY <1>1 DEF vars, RosterInv, TypeOK, UsersInv, EntriesInv, EntriesOf, SeatInv, RowsInv,
                RowsOfTheirDriver, RowsHaveEntries
  <1> QED BY <1>1, PacketKeeps, SeatsKeep, RowsKeep, MemoryKeeps DEF Next

LEMMA RosterInvariant == Spec => []RosterInv
  <1>1. RosterInv /\ MapIsRecorded /\ [Next]_vars => RosterInv'
    BY StepRoster
  <1> QED BY <1>1, InitRoster, MapRecorded, PTL DEF Spec

(* Every variable keeps its type, for every failure of every call: users   *)
(* referred to exist, numbers are numbers, and the written set is the      *)
(* domain of the map.                                                      *)
THEOREM RosterTypeCorrect == Spec => []TypeOK
  <1>1. RosterInv => TypeOK
    BY DEF RosterInv
  <1> QED BY <1>1, RosterInvariant, PTL

(* For any number of cars, people, sessions, failures and restarts, a row  *)
(* is stored under its driver's user but for the cases the property names. *)
(* The numbers of a packet differ from each other and, unless the query    *)
(* for the last one failed, from every stored one; a name found by its     *)
(* plate is its driver's unless the plate is shared.                       *)
THEOREM RowsUnderTheirDriver == Spec => []RowsOfTheirDriver
  <1>1. RosterInv => RowsOfTheirDriver
    BY DEF RosterInv, RowsInv
  <1> QED BY <1>1, RosterInvariant, PTL

(* The roster of a session keeps every user with rows, but for those a     *)
(* restart names anew.  Without a restart no written car is written again; *)
(* with one, a named driver's car is given the same user, and the keys of  *)
(* the table stop a batch that would give that user to another car.        *)
THEOREM RowsKeepEntries == Spec => []RowsHaveEntries
  <1>1. RosterInv => RowsHaveEntries
    BY DEF RosterInv, RowsInv
  <1> QED BY <1>1, RosterInvariant, PTL
=============================================================================
