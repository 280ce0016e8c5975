------------------------- MODULE SessionCardsProofs -------------------------
(* What holds of the session cards for any number of sessions, weekends,   *)
(* ticks, overlaps and faults.                                             *)
EXTENDS SessionCards, TLAPS, FiniteSetTheorems

USE CardsAssumption

(* What a tick carries from one await to the next. *)
Carried(p) ==
  /\ tick[p].at \in CardSteps => tick[p].session \in 1..latest
  /\ tick[p].at = "archive" => tick[p].old \in Weekends
  /\ tick[p].at \in {"message", "post"} => weekends[weekend[tick[p].session]] # "none"
  /\ tick[p].at = "finalize" =>
       /\ tick[p].item \in Sessions /\ card[tick[p].item] # "none"
       /\ tick[p].data \in {"partial", "results"}
       /\ tick[p].data = "results" \/ results[tick[p].item] = "late"
  /\ \A s \in tick[p].todo : card[s] # "none"

(* Only a session that has started has a card; one that is over has its    *)
(* results, or has them late; a card without them was edited after that.   *)
CardsFollow ==
  /\ \A s \in Sessions : card[s] # "none" => s <= latest
  /\ \A s \in Sessions : Over(s) => results[s] # "none"
  /\ \A s \in Sessions : card[s] = "partial" => results[s] = "late"

CardInv == TypeOK /\ (\A p \in Ticks : Carried(p)) /\ CardsFollow

LEMMA Trouble ==
  ASSUME TypeOK, MoreTrouble
  PROVE  /\ overlaps + 1 \in 0..MaxTrouble /\ pauses + 1 \in 0..MaxTrouble
         /\ faults + 1 \in 0..MaxTrouble
  <1>1. IsFiniteSet(Sessions)
    BY FS_Interval DEF Sessions
  <1>2. Cardinality(deleted) \in Nat
    BY <1>1, FS_Subset, FS_CardinalityType DEF TypeOK
  <1> QED BY <1>2 DEF TypeOK, MoreTrouble

LEMMA BumpType ==
  ASSUME NEW n \in 0..(MaxTrouble + 1)
  PROVE  Bump(n) \in 0..(MaxTrouble + 1)
  BY DEF Bump

LEMMA IdleType == Idle \in TickType /\ Idle.at = "idle" /\ Idle.todo = {} /\ Idle.session = 0
  BY DEF Idle, At, TickType

(* A step that changes where a tick is, and perhaps the weekend it holds.   *)
LEMMA Moves ==
  ASSUME tick \in [Ticks -> TickType], NEW p \in Ticks,
         NEW step \in CardSteps \union LoopSteps \union {"idle"},
         tick' = [tick EXCEPT ![p].at = step]
  PROVE  /\ tick' \in [Ticks -> TickType]
         /\ tick'[p].at = step /\ tick'[p].session = tick[p].session
         /\ tick'[p].old = tick[p].old /\ tick'[p].todo = tick[p].todo
  BY DEF TickType

LEMMA MovesOld ==
  ASSUME tick \in [Ticks -> TickType], NEW p \in Ticks,
         NEW step \in CardSteps \union LoopSteps \union {"idle"},
         NEW old \in Weekends \union {NoWeekend},
         tick' = [tick EXCEPT ![p].at = step, ![p].old = old]
  PROVE  /\ tick' \in [Ticks -> TickType]
         /\ tick'[p].at = step /\ tick'[p].session = tick[p].session
         /\ tick'[p].old = old /\ tick'[p].todo = tick[p].todo
  <1>1. tick'[p] = [tick[p] EXCEPT !.at = step, !.old = old]
    OBVIOUS
  <1>2. /\ tick'[p].at = step /\ tick'[p].old = old
        /\ tick'[p].session = tick[p].session /\ tick'[p].todo = tick[p].todo
        /\ tick'[p].item = tick[p].item /\ tick'[p].data = tick[p].data
        /\ tick'[p] \in TickType
    BY <1>1 DEF TickType
  <1>3. \A q \in Ticks : q # p => tick'[q] = tick[q]
    OBVIOUS
  <1> QED BY <1>2, <1>3

LEMMA InitCards == Init => CardInv
  <1> SUFFICES ASSUME Init PROVE CardInv
    OBVIOUS
  <1>1. TypeOK
    BY IdleType DEF Init, TypeOK, Sessions
  <1>2. \A p \in Ticks : Carried(p)
    BY DEF Init, Carried, Idle, At, CardSteps
  <1>3. CardsFollow
    BY DEF Init, CardsFollow, Over, Stale, Sessions
  <1> QED BY <1>1, <1>2, <1>3 DEF CardInv

(* The game moves: what is known of the results only grows.                *)
LEMMA GameKeeps ==
  ASSUME CardInv,
         StartSession \/ FirstRow \/ Resume \/ FallBehind \/ \E s \in Sessions : GoQuiet(s)
  PROVE  CardInv'
  <1>1. /\ latest' \in 0..MaxSessions /\ latest <= latest'
        /\ phase' \in [Sessions -> {"begun", "running", "quiet"}]
        /\ behind' \subseteq Sessions
        /\ pauses' \in 0..MaxTrouble
    <2>0. /\ latest \in 0..MaxSessions /\ behind \subseteq Sessions /\ pauses \in 0..MaxTrouble
          /\ phase \in [Sessions -> {"begun", "running", "quiet"}]
      BY DEF CardInv, TypeOK
    <2>1. CASE StartSession
      BY <2>0, <2>1 DEF StartSession, budgets
    <2>2. CASE FirstRow
      <3>1. phase' = [phase EXCEPT ![latest] = "running"] /\ UNCHANGED <<latest, behind, pauses>>
        BY <2>2 DEF FirstRow, budgets
      <3>2. phase' \in [Sessions -> {"begun", "running", "quiet"}]
        BY <2>0, <3>1
      <3> QED BY <2>0, <3>1, <3>2
    <2>3. CASE Resume \/ FallBehind
      <3>1. pauses' \in 0..MaxTrouble /\ UNCHANGED latest
        BY <2>3, Trouble DEF Resume, FallBehind, CardInv
      <3>2. /\ latest \in Sessions
            /\ phase' = [phase EXCEPT ![latest] = "running"] \/ UNCHANGED phase
            /\ behind' = behind \/ behind' = behind \union {latest}
        BY <2>3 DEF Resume, FallBehind, CardInv, TypeOK, Sessions
      <3>3. phase' \in [Sessions -> {"begun", "running", "quiet"}]
        BY <2>0, <3>2
      <3>4. behind' \subseteq Sessions
        BY <2>0, <3>2
      <3> QED BY <2>0, <3>1, <3>3, <3>4
    <2>4. ASSUME NEW s \in Sessions, GoQuiet(s)
          PROVE  /\ UNCHANGED <<latest, behind, pauses>>
                 /\ phase' \in [Sessions -> {"begun", "running", "quiet"}]
      BY <2>0, <2>4 DEF GoQuiet, budgets
    <2> QED BY <2>0, <2>1, <2>2, <2>3, <2>4
  <1>2. /\ Observe
        /\ UNCHANGED <<weekend, weekends, card, finalized, deleted, tick, strays, orphans,
                       overlaps, faults>>
    BY DEF StartSession, FirstRow, Resume, FallBehind, GoQuiet, tables, history, budgets
  <1>3. /\ results' \in [Sessions -> {"none", "stored", "late"}]
        /\ \A s \in Sessions : results[s] = "late" => results'[s] = "late"
        /\ \A s \in Sessions : Over(s)' => results'[s] # "none"
    BY <1>2 DEF Observe, CardInv, TypeOK
  <1>4. TypeOK'
    BY <1>1, <1>2, <1>3 DEF CardInv, TypeOK
  <1>5. ASSUME NEW p \in Ticks PROVE Carried(p)'
    <2>1. Carried(p) /\ tick[p].todo \in SUBSET Sessions
      BY DEF CardInv, TypeOK, TickType
    <2>2. latest \in Int /\ latest' \in Int
      BY <1>1 DEF CardInv, TypeOK
    <2> QED BY <1>1, <1>2, <1>3, <2>1, <2>2 DEF Carried
  <1>6. CardsFollow'
    BY <1>1, <1>2, <1>3 DEF CardInv, CardsFollow, TypeOK, Sessions
  <1> QED BY <1>4, <1>5, <1>6 DEF CardInv

LEMMA ResultsKeep ==
  ASSUME CardInv, NEW s \in Sessions, ResultsStored(s) \/ Delete(s)
  PROVE  CardInv'
  <1>1. /\ results' \in [Sessions -> {"none", "stored", "late"}]
        /\ \A t \in Sessions : results[t] # "none" => results'[t] = results[t]
    BY DEF ResultsStored, Delete, game, CardInv, TypeOK
  <1>2. deleted' \subseteq Sessions
    BY DEF ResultsStored, Delete, CardInv, TypeOK
  <1>3. UNCHANGED <<latest, weekend, phase, behind, weekends, card, finalized, tick, strays,
                    orphans, overlaps, pauses, faults>>
    BY DEF ResultsStored, Delete, game, tables, history, budgets
  <1>4. TypeOK'
    BY <1>1, <1>2, <1>3 DEF CardInv, TypeOK
  <1>5. ASSUME NEW p \in Ticks PROVE Carried(p)'
    BY <1>1, <1>3 DEF CardInv, Carried
  <1>6. CardsFollow'
    BY <1>1, <1>3 DEF CardInv, CardsFollow, Over, Stale
  <1> QED BY <1>4, <1>5, <1>6 DEF CardInv

(* A step of one tick: the others carry what they did, when no row is lost. *)
LEMMA OthersCarry ==
  ASSUME CardInv, NEW p \in Ticks, NEW q \in Ticks, q # p, tick'[q] = tick[q],
         UNCHANGED game,
         \A w \in Weekends : weekends[w] # "none" => weekends'[w] # "none",
         \A s \in Sessions : card[s] # "none" => card'[s] # "none"
  PROVE  Carried(q)'
  <1>1. Carried(q) /\ tick[q] \in TickType
    BY DEF CardInv, TypeOK
  <1>2. tick[q].at \in CardSteps => weekend[tick[q].session] \in Weekends
    BY <1>1 DEF Carried, CardInv, TypeOK, Sessions
  <1>3. {"message", "post"} \subseteq CardSteps
    BY DEF CardSteps
  <1> QED BY <1>1, <1>2, <1>3 DEF Carried, game, TickType

(* The tick itself may always fall back to a step that carries nothing.    *)
LEMMA FallBack ==
  ASSUME CardInv, NEW p \in Ticks, NEW step \in {"idle", "pending", "next"},
         tick'[p].at = step, tick'[p].todo = {} \/ tick'[p].todo = tick[p].todo,
         \A s \in Sessions : card[s] # "none" => card'[s] # "none"
  PROVE  Carried(p)'
  BY DEF Carried, CardInv, TypeOK, TickType, CardSteps

LEMMA CardStepsKeep ==
  ASSUME CardInv, NEW p \in Ticks,
         Begin(p) \/ ReadActive(p) \/ Archive(p) \/ CreateWeekend(p) \/ ReadMessage(p)
  PROVE  CardInv'
  <1>1. /\ UNCHANGED <<game, card, finalized, deleted, strays, pauses, faults>>
        /\ \A q \in Ticks : q # p => tick'[q] = tick[q]
    BY DEF Begin, ReadActive, Archive, CreateWeekend, ReadMessage, Goto, tables, history, budgets,
           CardInv, TypeOK
  <1>2. tick \in [Ticks -> TickType] /\ Carried(p) /\ latest \in 0..MaxSessions
    BY DEF CardInv, TypeOK
  <1>3. ASSUME tick' \in [Ticks -> TickType], orphans' \in 0..(MaxTrouble + 1),
               overlaps' \in 0..MaxTrouble, Carried(p)',
               weekends' \in [Weekends -> {"none", "active", "archived"}],
               \A w \in Weekends : weekends[w] # "none" => weekends'[w] # "none"
        PROVE  CardInv'
    <2>1. TypeOK'
      BY <1>1, <1>3 DEF CardInv, TypeOK, game
    <2>2. ASSUME NEW q \in Ticks PROVE Carried(q)'
      BY <1>1, <1>3, OthersCarry
    <2>3. CardsFollow'
      BY <1>1 DEF CardInv, CardsFollow, Over, Stale, game
    <2> QED BY <2>1, <2>2, <2>3 DEF CardInv
  <1>4. CASE Begin(p)
    <2>1. /\ tick'[p] = At(IF latest = 0 THEN "pending" ELSE "active", latest, {})
          /\ UNCHANGED latest
      BY <1>2, <1>4 DEF Begin, game
    <2>2. tick'[p] \in TickType /\ Carried(p)'
      BY <1>2, <2>1 DEF At, TickType, CardSteps, LoopSteps, Carried
    <2>3. overlaps' \in 0..MaxTrouble
      BY <1>4, Trouble DEF Begin, CardInv, TypeOK
    <2>4. tick' \in [Ticks -> TickType]
      BY <1>2, <1>4, <2>1, <2>2 DEF Begin
    <2> QED BY <1>3, <1>4, <2>2, <2>3, <2>4 DEF Begin, tables, history, CardInv, TypeOK
  <1>5. CASE ReadActive(p)
    <2>1. /\ tick[p].at = "active" /\ tick[p].session \in Sessions
          /\ UNCHANGED <<weekends, orphans, overlaps>>
      BY <1>2, <1>5 DEF ReadActive, Carried, CardSteps, Sessions, tables, history, budgets
    <2>2. \/ tick' = [tick EXCEPT ![p].at = "create"]
          \/ /\ tick' = [tick EXCEPT ![p].at = "message"]
             /\ weekends[weekend[tick[p].session]] # "none"
          \/ \E w \in Weekends : tick' = [tick EXCEPT ![p].at = "archive", ![p].old = w]
      BY <1>5 DEF ReadActive, Goto, ActiveWeekends
    <2>3. CASE tick' = [tick EXCEPT ![p].at = "create"]
      <3>1. /\ tick' \in [Ticks -> TickType] /\ tick'[p].todo = tick[p].todo
            /\ tick'[p].session = tick[p].session /\ tick'[p].at = "create"
        BY <1>2, <2>3, Moves DEF CardSteps, LoopSteps
      <3>2. Carried(p)'
        BY <1>1, <1>2, <2>1, <2>3, <3>1 DEF Carried, CardSteps, game
      <3> QED BY <1>3, <2>1, <3>1, <3>2 DEF CardInv, TypeOK
    <2>4. CASE /\ tick' = [tick EXCEPT ![p].at = "message"]
               /\ weekends[weekend[tick[p].session]] # "none"
      <3>1. /\ tick' \in [Ticks -> TickType] /\ tick'[p].todo = tick[p].todo
            /\ tick'[p].session = tick[p].session /\ tick'[p].at = "message"
        BY <1>2, <2>4, Moves DEF CardSteps, LoopSteps
      <3>2. Carried(p)'
        BY <1>1, <1>2, <2>1, <2>4, <3>1 DEF Carried, CardSteps, game
      <3> QED BY <1>3, <2>1, <3>1, <3>2 DEF CardInv, TypeOK
    <2>5. ASSUME NEW w \in Weekends, tick' = [tick EXCEPT ![p].at = "archive", ![p].old = w]
          PROVE  CardInv'
      <3>1. /\ tick' \in [Ticks -> TickType] /\ tick'[p].todo = tick[p].todo
            /\ tick'[p].session = tick[p].session /\ tick'[p].at = "archive" /\ tick'[p].old = w
        BY <1>2, <2>5, MovesOld DEF CardSteps, LoopSteps
      <3>2. Carried(p)'
        BY <1>1, <1>2, <2>1, <2>5, <3>1 DEF Carried, CardSteps, game
      <3> QED BY <1>3, <2>1, <3>1, <3>2 DEF CardInv, TypeOK
    <2> QED BY <2>2, <2>3, <2>4, <2>5
  <1>6. CASE Archive(p)
    <2>1. /\ tick[p].at = "archive" /\ tick[p].old \in Weekends
          /\ weekends' = [weekends EXCEPT ![tick[p].old] = "archived"]
          /\ tick' = [tick EXCEPT ![p].at = "create", ![p].old = NoWeekend]
          /\ UNCHANGED <<orphans, overlaps>>
      BY <1>2, <1>6 DEF Archive, Archived, Carried, history, budgets
    <2>2. /\ tick' \in [Ticks -> TickType] /\ tick'[p].todo = tick[p].todo
          /\ tick'[p].session = tick[p].session /\ tick'[p].at = "create"
      BY <1>2, <2>1, MovesOld DEF CardSteps, LoopSteps
    <2>3. Carried(p)'
      BY <1>1, <1>2, <2>1, <2>2 DEF Carried, CardSteps, game
    <2> QED BY <1>3, <2>1, <2>2, <2>3 DEF CardInv, TypeOK
  <1>7. CASE CreateWeekend(p)
    <2> DEFINE w == weekend[tick[p].session]
    <2>1. tick[p].at = "create" /\ tick[p].session \in Sessions /\ w \in Weekends
      BY <1>2, <1>7 DEF CreateWeekend, Carried, CardSteps, Sessions, CardInv, TypeOK
    <2>2. /\ UNCHANGED overlaps
          /\ \/ /\ weekends' = [weekends EXCEPT ![w] = "active"] /\ UNCHANGED orphans
                /\ tick' = [tick EXCEPT ![p].at = "message"]
             \/ /\ UNCHANGED weekends /\ orphans' = Bump(orphans)
                /\ tick' = [tick EXCEPT ![p].at = "pending"]
      BY <1>7 DEF CreateWeekend, Goto, budgets
    <2>3. /\ weekends' \in [Weekends -> {"none", "active", "archived"}]
          /\ \A v \in Weekends : weekends[v] # "none" => weekends'[v] # "none"
          /\ orphans' \in 0..(MaxTrouble + 1) /\ overlaps' \in 0..MaxTrouble
      BY <2>1, <2>2, BumpType DEF CardInv, TypeOK
    <2>4. tick' \in [Ticks -> TickType]
      <3>1. {"message", "pending"} \subseteq CardSteps \union LoopSteps \union {"idle"}
        BY DEF CardSteps, LoopSteps
      <3> QED BY <1>2, <2>2, <3>1, Moves
    <2>5. Carried(p)'
      <3>1. CASE weekends' = [weekends EXCEPT ![w] = "active"]
                 /\ tick' = [tick EXCEPT ![p].at = "message"]
        <4>1. weekends'[w] = "active"
          BY <2>1, <3>1 DEF CardInv, TypeOK
        <4> QED BY <1>1, <1>2, <2>1, <3>1, <4>1 DEF TickType, Carried, CardSteps, game
      <3>2. CASE tick' = [tick EXCEPT ![p].at = "pending"]
        BY <1>1, <1>2, <3>2 DEF TickType, Carried, CardSteps
      <3> QED BY <2>2, <3>1, <3>2
    <2> QED BY <1>3, <2>3, <2>4, <2>5
  <1>8. CASE ReadMessage(p)
    <2>1. /\ tick[p].at = "message" /\ UNCHANGED <<weekends, orphans, overlaps>>
          /\ \E step \in {"pending", "post"} : tick' = [tick EXCEPT ![p].at = step]
      BY <1>8 DEF ReadMessage, Goto, tables, history, budgets
    <2>2. PICK step \in {"pending", "post"} : tick' = [tick EXCEPT ![p].at = step]
      BY <2>1
    <2>3. /\ tick' \in [Ticks -> TickType] /\ tick'[p].todo = tick[p].todo
          /\ tick'[p].session = tick[p].session /\ tick'[p].at = step
      BY <1>2, <2>2, Moves DEF CardSteps, LoopSteps
    <2>4. Carried(p)'
      <3>1. UNCHANGED <<latest, weekend, weekends, card>>
        BY <1>1, <2>1 DEF game
      <3>2. CASE step = "pending"
        BY <1>2, <2>3, <3>1, <3>2 DEF Carried, CardSteps
      <3>3. CASE step = "post"
        BY <1>2, <2>1, <2>3, <3>1, <3>3 DEF Carried, CardSteps
      <3> QED BY <2>2, <3>2, <3>3
    <2> QED BY <1>3, <2>1, <2>3, <2>4 DEF CardInv, TypeOK
  <1> QED BY <1>4, <1>5, <1>6, <1>7, <1>8

LEMMA PostKeeps ==
  ASSUME CardInv, NEW p \in Ticks, PostCard(p)
  PROVE  CardInv'
  <1> DEFINE s == tick[p].session
  <1>1. /\ tick \in [Ticks -> TickType] /\ Carried(p) /\ latest \in 0..MaxSessions
        /\ tick[p].at = "post"
    BY DEF CardInv, TypeOK, PostCard
  <1>2. s \in 1..latest /\ s \in Sessions /\ weekends[weekend[s]] # "none"
    BY <1>1 DEF Carried, CardSteps, Sessions
  <1>3. /\ UNCHANGED <<game, weekends, finalized, deleted, orphans, overlaps, pauses, faults>>
        /\ tick' = [tick EXCEPT ![p].at = "pending"]
    BY DEF PostCard, Goto, budgets
  <1>4. \/ card[s] = "none" /\ card' = [card EXCEPT ![s] = "placeholder"] /\ UNCHANGED strays
        \/ card' = card /\ strays' = Bump(strays)
    BY DEF PostCard
  <1>5. /\ card' \in [Sessions -> {"none", "placeholder", "partial", "results"}]
        /\ strays' \in 0..(MaxTrouble + 1)
        /\ \A t \in Sessions : card[t] # "none" => card'[t] = card[t]
        /\ \A t \in Sessions : card'[t] # card[t] => t = s /\ card'[t] = "placeholder"
    BY <1>2, <1>4, BumpType DEF CardInv, TypeOK
  <1>6. /\ tick' \in [Ticks -> TickType] /\ tick'[p].at = "pending"
        /\ tick'[p].todo = tick[p].todo
        /\ \A q \in Ticks : q # p => tick'[q] = tick[q]
    BY <1>1, <1>3, Moves DEF CardSteps, LoopSteps
  <1>7. TypeOK'
    <2>1. \A t \in Sessions : finalized[t] => card'[t] \notin {"none", "placeholder"}
      BY <1>5 DEF CardInv, TypeOK
    <2>2. \A t \in Sessions : card'[t] # "none" => weekends[weekend[t]] # "none"
      BY <1>2, <1>5 DEF CardInv, TypeOK
    <2> QED BY <1>3, <1>5, <1>6, <2>1, <2>2 DEF CardInv, TypeOK, game
  <1>8. ASSUME NEW q \in Ticks PROVE Carried(q)'
    <2>1. \A t \in Sessions : card[t] # "none" => card'[t] # "none"
      BY <1>5
    <2> QED BY <1>3, <1>6, <2>1, OthersCarry, FallBack
  <1>9. CardsFollow'
    <2>1. \A t \in Sessions : card'[t] # "none" => t <= latest
      BY <1>2, <1>5 DEF CardInv, CardsFollow
    <2>2. \A t \in Sessions : card'[t] = "partial" => results[t] = "late"
      BY <1>5 DEF CardInv, CardsFollow
    <2> QED BY <1>3, <2>1, <2>2 DEF CardInv, CardsFollow, Over, Stale, game
  <1> QED BY <1>7, <1>8, <1>9 DEF CardInv

(* A session that isSessionDone accepts is over, so its results are known. *)
LEMMA DoneIsOver ==
  ASSUME CardInv, NEW s \in Sessions, card[s] # "none", IsSessionDone(s)
  PROVE  /\ FinalCard(s) \in {"partial", "results"}
         /\ FinalCard(s) = "results" \/ results[s] = "late"
  <1>1. s <= latest /\ latest \in Sessions
    BY DEF CardInv, CardsFollow, TypeOK, Sessions
  <1>2. Over(s)
    BY <1>1 DEF Over, IsSessionDone, Sessions
  <1> QED BY <1>2 DEF CardInv, CardsFollow, TypeOK, FinalCard

LEMMA LoopKeeps ==
  ASSUME CardInv, NEW p \in Ticks, ReadPending(p) \/ NextCard(p)
  PROVE  CardInv'
  <1>1. /\ UNCHANGED <<game, tables, deleted, strays, orphans, overlaps, pauses, faults>>
        /\ \A q \in Ticks : q # p => tick'[q] = tick[q]
    BY DEF ReadPending, NextCard, history, budgets, CardInv, TypeOK
  <1>2. tick \in [Ticks -> TickType] /\ Carried(p) /\ tick[p] \in TickType
    BY DEF CardInv, TypeOK
  <1>3. tick' \in [Ticks -> TickType] /\ Carried(p)'
    <2>1. CASE ReadPending(p)
      <3>1. tick' = [tick EXCEPT ![p] = At("next", 0, Pending)]
        BY <2>1 DEF ReadPending
      <3>2. At("next", 0, Pending) \in TickType
        BY DEF At, TickType, LoopSteps, Pending
      <3>3. tick' \in [Ticks -> TickType] /\ tick'[p].at = "next" /\ tick'[p].todo = Pending
        BY <1>2, <3>1, <3>2 DEF At
      <3> QED BY <1>1, <3>3 DEF Carried, Pending, CardSteps, tables
    <2>2. CASE NextCard(p) /\ tick' = [tick EXCEPT ![p] = Idle]
      <3>1. tick' \in [Ticks -> TickType] /\ tick'[p].at = "idle" /\ tick'[p].todo = {}
        BY <1>2, <2>2, IdleType
      <3> QED BY <3>1 DEF Carried, CardSteps
    <2>3. ASSUME NEW s \in tick[p].todo, tick[p].at = "next",
                 tick' = [tick EXCEPT ![p] =
                   IF IsSessionDone(s)
                   THEN [[tick[p] EXCEPT !.todo = @ \ {s}]
                           EXCEPT !.at = "finalize", !.item = s, !.data = FinalCard(s)]
                   ELSE [tick[p] EXCEPT !.todo = @ \ {s}]]
          PROVE  tick' \in [Ticks -> TickType] /\ Carried(p)'
      <3>1. s \in Sessions /\ card[s] # "none" /\ s \in 0..MaxSessions
        BY <1>2, <2>3 DEF Carried, TickType, Sessions
      <3> DEFINE rest == [tick[p] EXCEPT !.todo = @ \ {s}]
      <3>2. /\ rest \in TickType /\ rest.at = "next" /\ rest.todo \subseteq tick[p].todo
        BY <1>2, <2>3 DEF TickType
      <3>3. CASE IsSessionDone(s)
        <4> DEFINE now == [rest EXCEPT !.at = "finalize", !.item = s, !.data = FinalCard(s)]
        <4>1. tick' = [tick EXCEPT ![p] = now]
          BY <2>3, <3>3
        <4>2. now \in TickType /\ now.at = "finalize" /\ now.item = s
              /\ now.data = FinalCard(s) /\ now.todo = rest.todo
          <5> HIDE DEF rest
          <5> QED BY <3>1, <3>2, <3>3, DoneIsOver DEF TickType, LoopSteps
        <4>3. tick' \in [Ticks -> TickType] /\ tick'[p] = now
          <5> HIDE DEF now
          <5> QED BY <1>2, <4>1, <4>2
        <4> HIDE DEF now, rest
        <4> QED BY <1>1, <1>2, <3>1, <3>2, <3>3, <4>2, <4>3, DoneIsOver
                DEF Carried, CardSteps, tables, game
      <3>4. CASE ~IsSessionDone(s)
        <4>1. tick' \in [Ticks -> TickType] /\ tick'[p] = rest
          BY <1>2, <2>3, <3>2, <3>4
        <4> HIDE DEF rest
        <4> QED BY <1>1, <1>2, <3>2, <4>1 DEF Carried, CardSteps, tables
      <3> QED BY <3>3, <3>4
    <2> QED BY <2>1, <2>2, <2>3 DEF NextCard, ReadPending
  <1>4. TypeOK'
    BY <1>1, <1>3 DEF CardInv, TypeOK, game, tables
  <1>5. ASSUME NEW q \in Ticks PROVE Carried(q)'
    BY <1>1, <1>3, OthersCarry DEF tables
  <1>6. CardsFollow'
    BY <1>1 DEF CardInv, CardsFollow, Over, Stale, game, tables
  <1> QED BY <1>4, <1>5, <1>6 DEF CardInv

(* An edit, recorded or not, shows what the tick read when the session was over. *)
LEMMA EditKeeps ==
  ASSUME CardInv, NEW p \in Ticks, tick[p].at = "finalize",
         card' = [card EXCEPT ![tick[p].item] = tick[p].data],
         finalized' \in {finalized, [finalized EXCEPT ![tick[p].item] = TRUE]},
         UNCHANGED <<game, weekends, deleted, strays, orphans, overlaps, pauses>>,
         faults' \in 0..MaxTrouble,
         NEW step \in {"idle", "next"}, NEW todo, todo = {} \/ todo = tick[p].todo,
         tick' = [tick EXCEPT ![p] = At(step, 0, todo)]
  PROVE  CardInv'
  <1> DEFINE s == tick[p].item
  <1>1. /\ s \in Sessions /\ card[s] # "none" /\ tick[p].data \in {"partial", "results"}
        /\ tick[p].data = "results" \/ results[s] = "late"
        /\ tick[p] \in TickType
    BY DEF CardInv, Carried, TypeOK
  <1>2. /\ card' \in [Sessions -> {"none", "placeholder", "partial", "results"}]
        /\ card'[s] = tick[p].data
        /\ \A t \in Sessions : t # s => card'[t] = card[t]
        /\ finalized' \in [Sessions -> BOOLEAN]
        /\ \A t \in Sessions : t # s => finalized'[t] = finalized[t]
    BY <1>1 DEF CardInv, TypeOK
  <1>3. At(step, 0, todo) \in TickType
    BY <1>1 DEF At, TickType, LoopSteps
  <1>4. /\ tick' \in [Ticks -> TickType] /\ tick'[p].at = step
        /\ tick'[p].todo = {} \/ tick'[p].todo = tick[p].todo
        /\ \A q \in Ticks : q # p => tick'[q] = tick[q]
    BY <1>3 DEF CardInv, TypeOK, At
  <1>5. \A t \in Sessions : card[t] # "none" <=> card'[t] # "none"
    BY <1>1, <1>2
  <1>6. TypeOK'
    <2>1. \A t \in Sessions : finalized'[t] => card'[t] \notin {"none", "placeholder"}
      BY <1>1, <1>2 DEF CardInv, TypeOK
    <2>2. \A t \in Sessions : card'[t] # "none" => weekends[weekend[t]] # "none"
      BY <1>5 DEF CardInv, TypeOK
    <2> QED BY <1>2, <1>4, <2>1, <2>2 DEF CardInv, TypeOK, game
  <1>7. ASSUME NEW q \in Ticks PROVE Carried(q)'
    BY <1>4, <1>5, OthersCarry, FallBack
  <1>8. CardsFollow'
    <2>1. \A t \in Sessions : card'[t] = "partial" => results[t] = "late"
      BY <1>1, <1>2 DEF CardInv, CardsFollow
    <2> QED BY <1>5, <2>1 DEF CardInv, CardsFollow, Over, Stale, game
  <1> QED BY <1>6, <1>7, <1>8 DEF CardInv

LEMMA EndKeeps ==
  ASSUME CardInv, NEW p \in Ticks, Finalize(p) \/ Fail(p)
  PROVE  CardInv'
  <1>1. tick \in [Ticks -> TickType] /\ tick[p] \in TickType
    BY DEF CardInv, TypeOK
  <1>2. ASSUME NEW step \in {"idle", "pending"}, tick' = [tick EXCEPT ![p] = At(step, 0, {})],
               UNCHANGED <<game, tables, deleted, overlaps, pauses>>,
               strays' \in 0..(MaxTrouble + 1), orphans' \in 0..(MaxTrouble + 1),
               faults' \in 0..MaxTrouble
        PROVE  CardInv'
    <2>1. At(step, 0, {}) \in TickType
      BY DEF At, TickType, LoopSteps
    <2>2. /\ tick' \in [Ticks -> TickType] /\ tick'[p].at = step /\ tick'[p].todo = {}
          /\ \A q \in Ticks : q # p => tick'[q] = tick[q]
      BY <1>1, <1>2, <2>1 DEF At
    <2>3. TypeOK'
      BY <1>2, <2>2 DEF CardInv, TypeOK, game, tables
    <2>4. ASSUME NEW q \in Ticks PROVE Carried(q)'
      BY <1>2, <2>2, OthersCarry, FallBack DEF tables
    <2>5. CardsFollow'
      BY <1>2 DEF CardInv, CardsFollow, Over, Stale, game, tables
    <2> QED BY <2>3, <2>4, <2>5 DEF CardInv
  <1>3. /\ faults \in 0..MaxTrouble /\ strays \in 0..(MaxTrouble + 1)
        /\ orphans \in 0..(MaxTrouble + 1)
    BY DEF CardInv, TypeOK
  <1>4. CASE Finalize(p)
    <2>1. CASE tick[p].item \in deleted
      <3>1. tick' = [tick EXCEPT ![p] = At("idle", 0, {})] /\ UNCHANGED <<card, finalized>>
        BY <1>4, <2>1 DEF Finalize, Idle
      <3> QED BY <1>2, <1>3, <1>4, <3>1 DEF Finalize, tables, history, budgets
    <2>2. CASE tick[p].item \notin deleted
      <3>1. /\ tick[p].at = "finalize"
            /\ card' = [card EXCEPT ![tick[p].item] = tick[p].data]
            /\ finalized' = [finalized EXCEPT ![tick[p].item] = TRUE]
            /\ tick' = [tick EXCEPT ![p] = At("next", 0, tick[p].todo)]
            /\ UNCHANGED <<game, weekends, deleted, strays, orphans, overlaps, pauses, faults>>
        BY <1>4, <2>2 DEF Finalize, history, budgets
      <3> QED BY <1>3, <3>1, EditKeeps
    <2> QED BY <2>1, <2>2
  <1>5. CASE Fail(p)
    <2>1. PICK step \in {"idle", "pending"} :
            /\ tick' = [tick EXCEPT ![p] = At(step, 0, {})]
            /\ step = "pending" => tick[p].at \in CardSteps
      BY <1>5 DEF Fail, AfterThrow
    <2>2. faults' \in 0..MaxTrouble
      BY <1>5, Trouble DEF Fail, CardInv
    <2>3. UNCHANGED <<game, weekends, finalized, deleted, overlaps, pauses>>
      BY <1>5 DEF Fail
    <2>4. CASE /\ UNCHANGED card
               /\ strays' \in {strays, Bump(strays)} /\ orphans' \in {orphans, Bump(orphans)}
      BY <1>2, <1>3, <2>1, <2>2, <2>3, <2>4, BumpType DEF tables
    <2>5. CASE /\ tick[p].at = "finalize" /\ UNCHANGED history
               /\ card' = [card EXCEPT ![tick[p].item] = tick[p].data]
      <3>1. step = "idle"
        BY <2>1, <2>5 DEF CardSteps
      <3> QED BY <2>1, <2>2, <2>3, <2>5, <3>1, EditKeeps DEF history
    <2> QED BY <1>5, <2>4, <2>5 DEF Fail, history
  <1> QED BY <1>4, <1>5

LEMMA CardStep == CardInv /\ [Next]_vars => CardInv'
  <1> SUFFICES ASSUME CardInv, [Next]_vars PROVE CardInv'
    OBVIOUS
  <1>1. CASE Game
    BY <1>1, GameKeeps, ResultsKeep DEF Game
  <1>2. ASSUME NEW p \in Ticks, Begin(p) \/ Advance(p) \/ Fail(p)
        PROVE  CardInv'
    BY <1>2, CardStepsKeep, PostKeeps, LoopKeeps, EndKeeps DEF Advance
  <1>3. CASE UNCHANGED vars
    <2>1. TypeOK'
      BY <1>3 DEF vars, CardInv, TypeOK
    <2>2. ASSUME NEW p \in Ticks PROVE Carried(p)'
      BY <1>3 DEF vars, CardInv, Carried
    <2>3. CardsFollow'
      BY <1>3 DEF vars, CardInv, CardsFollow, Over, Stale
    <2> QED BY <2>1, <2>2, <2>3 DEF CardInv
  <1> QED BY <1>1, <1>2, <1>3 DEF Next

(* What the bot stores and carries has its type, a card that is final was  *)
(* edited, and a card's weekend has a row: for any number of overlapping   *)
(* ticks and failed calls.                                                 *)
THEOREM CardsTyped == Spec => []TypeOK
  <1>1. CardInv => TypeOK
    BY DEF CardInv
  <1> QED BY InitCards, CardStep, <1>1, PTL DEF Spec

(* A final card shows the session's results unless they were stored only   *)
(* after the session counted as over (its newest row a minute behind the   *)
(* clock, or another session of the weekend started), however ticks        *)
(* overlap and calls fail.                                                 *)
THEOREM FinalCardsShowResults == Spec => []FinalCardShowsResults
  <1>1. CardInv => FinalCardShowsResults
    BY DEF CardInv, CardsFollow, TypeOK, FinalCardShowsResults
  <1> QED BY InitCards, CardStep, <1>1, PTL DEF Spec

-----------------------------------------------------------------------------
(* While no two ticks overlap: one at most is running.                     *)
Alone == \A p \in Ticks, q \in Ticks : tick[p].at # "idle" /\ tick[q].at # "idle" => p = q

(* What the running tick has read still holds when it acts on it.          *)
StillSo(p) ==
  /\ tick[p].at = "archive" =>
       /\ tick[p].old # weekend[tick[p].session]
       /\ weekends[tick[p].old] = "active"
  /\ tick[p].at = "create" => \A w \in Weekends : weekends[w] # "active"
  /\ tick[p].at = "post" => card[tick[p].session] = "none"

OneActive == \A v \in Weekends, w \in Weekends :
  weekends[v] = "active" /\ weekends[w] = "active" => v = w

(* No tick is behind session i.                                            *)
NoneBehind(i) == \A p \in Ticks : tick[p].at \in CardSteps => i <= tick[p].session

(* A weekend with a row was played; an archived one was left for another.  *)
PlayedAndLeft ==
  /\ \A w \in Weekends : weekends[w] # "none" =>
       \E i \in 1..latest : weekend[i] = w /\ NoneBehind(i)
  /\ \A w \in Weekends : weekends[w] = "archived" =>
       \E i \in 1..latest, j \in 1..latest :
         i < j /\ weekend[i] = w /\ weekend[j] # w /\ NoneBehind(j)

InVain == strays <= faults /\ (Returned \/ orphans <= faults)

OneInv ==
  overlaps = 0 =>
    /\ Alone /\ OneActive /\ PlayedAndLeft /\ InVain
    /\ \A p \in Ticks : StillSo(p)

LEMMA InitOne == Init => OneInv
  BY IdleType DEF Init, OneInv, Alone, OneActive, PlayedAndLeft, InVain, StillSo

LEMMA GameOne ==
  ASSUME CardInv, OneInv, Game \/ UNCHANGED vars
  PROVE  OneInv'
  <1>1. /\ UNCHANGED <<weekend, weekends, card, tick, strays, orphans, overlaps, faults>>
        /\ latest' \in Nat /\ latest \in Nat /\ latest <= latest'
    BY DEF Game, StartSession, FirstRow, Resume, FallBehind, GoQuiet, ResultsStored, Delete, vars,
           game, tables, history, budgets, CardInv, TypeOK
  <1>2. CASE overlaps = 0
    <2>1. Alone /\ OneActive /\ PlayedAndLeft /\ InVain /\ \A p \in Ticks : StillSo(p)
      BY <1>2 DEF OneInv
    <2>2. Alone' /\ OneActive' /\ \A p \in Ticks : StillSo(p)'
      BY <1>1, <2>1 DEF Alone, OneActive, StillSo
    <2>3. 1..latest \subseteq 1..latest'
      BY <1>1
    <2>4. PlayedAndLeft'
      BY <1>1, <2>1, <2>3 DEF PlayedAndLeft, NoneBehind
    <2>5. InVain'
      BY <1>1, <2>1, <2>3 DEF InVain, Returned
    <2> QED BY <2>2, <2>4, <2>5 DEF OneInv
  <1>3. CASE overlaps # 0
    BY <1>1, <1>3 DEF OneInv
  <1> QED BY <1>2, <1>3

(* The only running tick moves on and no table of weekends changes: what   *)
(* remains is what it has read, and what was done in vain.                 *)
LEMMA SameWeekends ==
  ASSUME CardInv, OneInv, overlaps = 0, NEW p \in Ticks, tick[p].at # "idle",
         \A q \in Ticks : q # p => tick'[q] = tick[q],
         tick'[p].at \in CardSteps =>
           tick[p].at \in CardSteps /\ tick'[p].session = tick[p].session,
         UNCHANGED <<game, weekends>>,
         StillSo(p)', InVain'
  PROVE  OneInv'
  <1>1. /\ Alone /\ OneActive /\ PlayedAndLeft
        /\ \A q \in Ticks : q # p => tick[q].at = "idle"
    BY DEF OneInv, Alone
  <1>2. Alone' /\ OneActive'
    BY <1>1 DEF Alone, OneActive
  <1>3. \A q \in Ticks : StillSo(q)'
    BY <1>1 DEF StillSo
  <1>4. \A i \in 1..latest : NoneBehind(i) => NoneBehind(i)'
    BY <1>1 DEF NoneBehind, CardSteps
  <1>5. PlayedAndLeft'
    BY <1>1, <1>4 DEF PlayedAndLeft, game
  <1> QED BY <1>2, <1>3, <1>5 DEF OneInv

LEMMA BeginOne ==
  ASSUME CardInv, OneInv, NEW p \in Ticks, Begin(p)
  PROVE  OneInv'
  <1> SUFFICES ASSUME overlaps' = 0 PROVE OneInv'
    BY DEF OneInv
  <1>1. /\ Running = {} /\ overlaps = 0
        /\ UNCHANGED <<latest, weekend, weekends, card, strays, orphans, faults>>
    BY DEF Begin, CardInv, TypeOK, game, tables, history
  <1>2. /\ Alone /\ OneActive /\ PlayedAndLeft /\ InVain
        /\ \A q \in Ticks : tick[q].at = "idle"
    BY <1>1 DEF OneInv, Running
  <1>3. /\ tick'[p].at \in {"pending", "active"} /\ tick'[p].session = latest
        /\ \A q \in Ticks : q # p => tick'[q] = tick[q]
    BY DEF Begin, CardInv, TypeOK, At
  <1>4. Alone' /\ OneActive' /\ InVain'
    BY <1>1, <1>2, <1>3 DEF Alone, OneActive, InVain, Returned
  <1>5. \A q \in Ticks : StillSo(q)'
    BY <1>2, <1>3 DEF StillSo
  <1>6. \A i \in 1..latest : NoneBehind(i)'
    BY <1>2, <1>3 DEF NoneBehind, CardSteps
  <1>7. PlayedAndLeft'
    BY <1>1, <1>2, <1>6 DEF PlayedAndLeft
  <1> QED BY <1>4, <1>5, <1>7 DEF OneInv

LEMMA BumpStep == ASSUME NEW n \in 0..(MaxTrouble + 1) PROVE Bump(n) <= n + 1
  BY DEF Bump

LEMMA AdvanceOne ==
  ASSUME CardInv, OneInv, NEW p \in Ticks, Advance(p)
  PROVE  OneInv'
  <1>1. UNCHANGED <<game, overlaps, faults>> /\ tick[p].at # "idle"
    BY DEF Advance, ReadActive, Archive, CreateWeekend, ReadMessage, PostCard, ReadPending,
           NextCard, Finalize, budgets
  <1> SUFFICES ASSUME overlaps = 0 PROVE OneInv'
    BY <1>1 DEF OneInv
  <1>2. /\ tick \in [Ticks -> TickType] /\ Carried(p) /\ StillSo(p)
        /\ Alone /\ OneActive /\ PlayedAndLeft /\ InVain
        /\ latest \in Nat /\ faults \in Nat
        /\ strays \in 0..(MaxTrouble + 1) /\ orphans \in 0..(MaxTrouble + 1)
        /\ weekends \in [Weekends -> {"none", "active", "archived"}]
    BY DEF CardInv, TypeOK, OneInv
  <1>3. \A q \in Ticks : q # p => tick'[q] = tick[q] /\ tick[q].at = "idle"
    BY <1>1, <1>2 DEF Alone, Advance, ReadActive, Archive, CreateWeekend, ReadMessage, PostCard,
           ReadPending, NextCard, Finalize, Goto
  <1>4. ASSUME UNCHANGED <<strays, orphans>> PROVE InVain'
    BY <1>1, <1>2, <1>4 DEF InVain, Returned, game
  <1>5. ASSUME UNCHANGED <<weekends, strays, orphans>>,
               NEW step \in {"idle", "pending", "next", "finalize"}, tick'[p].at = step
        PROVE  OneInv'
    <2>1. StillSo(p)' /\ tick'[p].at \notin CardSteps
      BY <1>5 DEF StillSo, CardSteps
    <2> QED BY <1>1, <1>3, <1>4, <1>5, <2>1, SameWeekends
  <1>6. CASE ReadActive(p)
    <2>1. /\ tick[p].at = "active" /\ UNCHANGED <<weekends, card, strays, orphans>>
          /\ tick[p].session \in Sessions
      BY <1>2, <1>6 DEF ReadActive, tables, history, Carried, CardSteps, Sessions, CardInv, TypeOK
    <2>2. PICK step \in {"create", "message"}, w \in Weekends \union {NoWeekend} :
            \/ /\ tick' = [tick EXCEPT ![p].at = step]
               /\ step = "create" => ActiveWeekends = {}
            \/ /\ tick' = [tick EXCEPT ![p].at = "archive", ![p].old = w]
               /\ w \in ActiveWeekends /\ w # weekend[tick[p].session]
      BY <1>6 DEF ReadActive, Goto, ActiveWeekends
    <2>3. {"create", "message", "archive"} \subseteq CardSteps
      BY DEF CardSteps
    <2>4. CASE tick' = [tick EXCEPT ![p].at = step] /\ (step = "create" => ActiveWeekends = {})
      <3>1. tick'[p].at = step /\ tick'[p].session = tick[p].session
        BY <1>2, <2>3, <2>4, Moves
      <3>2. StillSo(p)'
        BY <2>1, <2>4, <3>1 DEF StillSo, ActiveWeekends
      <3> QED BY <1>1, <1>3, <1>4, <2>1, <3>1, <3>2, SameWeekends DEF CardSteps
    <2>5. CASE /\ tick' = [tick EXCEPT ![p].at = "archive", ![p].old = w]
               /\ w \in ActiveWeekends /\ w # weekend[tick[p].session]
      <3>0. w \in Weekends
        BY <2>5 DEF ActiveWeekends
      <3>1. /\ tick'[p].at = "archive" /\ tick'[p].session = tick[p].session
            /\ tick'[p].old = w
        <4>1. "archive" \in CardSteps \union LoopSteps \union {"idle"}
          BY <2>3
        <4>2. tick \in [Ticks -> TickType]
          BY <1>2
        <4>3. tick' = [tick EXCEPT ![p].at = "archive", ![p].old = w]
          BY <2>5
        <4> QED BY <3>0, <4>1, <4>2, <4>3, MovesOld
      <3>2. StillSo(p)'
        BY <1>1, <2>1, <2>5, <3>1 DEF StillSo, ActiveWeekends, game
      <3> QED BY <1>1, <1>3, <1>4, <2>1, <3>1, <3>2, SameWeekends DEF CardSteps
    <2> QED BY <2>2, <2>4, <2>5
  <1>7. CASE Archive(p)
    <2>0. PICK o \in Weekends, s \in 1..latest : o = tick[p].old /\ s = tick[p].session
      BY <1>2, <1>7 DEF Archive, Carried, CardSteps
    <2>1. /\ tick[p].at = "archive" /\ o \in Weekends /\ s \in 1..latest
          /\ weekends[o] = "active" /\ weekend[s] # o
          /\ weekends' = [weekends EXCEPT ![o] = "archived"]
          /\ UNCHANGED <<card, strays, orphans>>
      BY <1>2, <1>7, <2>0 DEF Archive, Archived, StillSo, history
    <2>2. tick'[p].at = "create" /\ tick'[p].session = s
      <3>1. tick' = [tick EXCEPT ![p].at = "create", ![p].old = NoWeekend]
        BY <1>7 DEF Archive
      <3>2. "create" \in CardSteps
        BY DEF CardSteps
      <3> QED BY <1>2, <2>0, <3>1, <3>2, MovesOld
    <2>3. \A w \in Weekends : weekends'[w] # "active"
      BY <1>2, <2>1 DEF OneActive
    <2>4. Alone' /\ OneActive' /\ \A q \in Ticks : StillSo(q)'
      BY <1>3, <2>2, <2>3 DEF Alone, OneActive, StillSo
    <2>5. \A i \in 1..latest : NoneBehind(i) => NoneBehind(i)' /\ i <= s
      BY <1>2, <1>3, <2>0, <2>1, <2>2 DEF NoneBehind, CardSteps
    <2>6. NoneBehind(s)'
      <3>1. s <= s
        BY <1>2
      <3>2. ASSUME NEW q \in Ticks, tick'[q].at \in CardSteps PROVE tick'[q].session = s
        BY <1>3, <2>2, <3>2 DEF CardSteps
      <3> QED BY <3>1, <3>2 DEF NoneBehind
    <2>7. PICK i \in 1..latest : weekend[i] = o /\ NoneBehind(i)
      BY <1>2, <2>1 DEF PlayedAndLeft
    <2>8. i < s
      BY <1>2, <2>1, <2>5, <2>7
    <2>9. \A w \in Weekends : w # o => weekends'[w] = weekends[w]
      BY <1>2, <2>1
    <2>10. PlayedAndLeft'
      <3>1. UNCHANGED <<latest, weekend>>
        BY <1>1 DEF game
      <3>2. \A w \in Weekends : weekends'[w] # "none" =>
              \E k \in 1..latest : weekend[k] = w /\ NoneBehind(k)'
        BY <1>2, <2>1, <2>5, <2>9 DEF PlayedAndLeft
      <3>3. \A w \in Weekends : weekends'[w] = "archived" =>
              \E k \in 1..latest, j \in 1..latest :
                k < j /\ weekend[k] = w /\ weekend[j] # w /\ NoneBehind(j)'
        <4>1. CASE \A w \in Weekends : w # o
          BY <2>1, <4>1
        <4>2. ASSUME NEW w \in Weekends, w # o, weekends'[w] = "archived"
              PROVE  \E k \in 1..latest, j \in 1..latest :
                       k < j /\ weekend[k] = w /\ weekend[j] # w /\ NoneBehind(j)'
          BY <1>2, <2>5, <2>9, <4>2 DEF PlayedAndLeft
        <4>3. \E k \in 1..latest, j \in 1..latest :
                k < j /\ weekend[k] = o /\ weekend[j] # o /\ NoneBehind(j)'
          BY <2>1, <2>6, <2>7, <2>8
        <4> QED BY <4>2, <4>3
      <3> QED BY <3>1, <3>2, <3>3 DEF PlayedAndLeft, NoneBehind
    <2> QED BY <1>4, <2>1, <2>4, <2>10 DEF OneInv
  <1>8. CASE CreateWeekend(p)
    <2>0. tick[p].at = "create" /\ tick[p].session \in 1..latest
      BY <1>2, <1>8 DEF CreateWeekend, Carried, CardSteps
    <2>1. PICK s \in 1..latest, w \in Weekends :
            /\ s = tick[p].session /\ w = weekend[s]
            /\ \A v \in Weekends : weekends[v] # "active"
      <3>1. \A v \in Weekends : weekends[v] # "active"
        BY <1>2, <2>0 DEF StillSo
      <3>2. latest \in 0..MaxSessions /\ weekend \in [Sessions -> Weekends]
        BY DEF CardInv, TypeOK
      <3>3. weekend[tick[p].session] \in Weekends
        BY <2>0, <3>2 DEF Sessions
      <3> QED BY <2>0, <3>1, <3>3
    <2>2. {"message", "pending"} \subseteq CardSteps \union LoopSteps \union {"idle"}
      BY DEF CardSteps, LoopSteps
    <2>3. CASE /\ weekends[w] = "none" /\ UNCHANGED <<card, strays, orphans>>
               /\ weekends' = [weekends EXCEPT ![w] = "active"]
               /\ tick' = [tick EXCEPT ![p].at = "message"]
      <3>1. tick'[p].at = "message" /\ tick'[p].session = s
        BY <1>2, <2>1, <2>2, <2>3, Moves
      <3>2. /\ \A v \in Weekends : v # w => weekends'[v] = weekends[v]
            /\ weekends'[w] = "active"
        BY <1>2, <2>1, <2>3
      <3>3. Alone' /\ OneActive' /\ \A q \in Ticks : StillSo(q)'
        BY <1>3, <2>1, <3>1, <3>2 DEF Alone, OneActive, StillSo
      <3>4. \A i \in 1..latest : NoneBehind(i) => NoneBehind(i)'
        BY <1>2, <1>3, <2>0, <2>1, <3>1 DEF NoneBehind, CardSteps
      <3>5. NoneBehind(s)'
        BY <1>2, <1>3, <2>0, <2>1, <3>1 DEF NoneBehind, CardSteps
      <3>6. \A v \in Weekends : weekends'[v] # "none" =>
              \E i \in 1..latest : weekend[i] = v /\ NoneBehind(i)'
        BY <1>2, <2>1, <3>2, <3>4, <3>5 DEF PlayedAndLeft
      <3>7. \A v \in Weekends : weekends'[v] = "archived" =>
              \E i \in 1..latest, j \in 1..latest :
                i < j /\ weekend[i] = v /\ weekend[j] # v /\ NoneBehind(j)'
        BY <1>2, <3>2, <3>4 DEF PlayedAndLeft
      <3>8. PlayedAndLeft'
        BY <1>1, <3>6, <3>7 DEF PlayedAndLeft, NoneBehind, game
      <3> QED BY <1>4, <2>3, <3>3, <3>8 DEF OneInv
    <2>4. CASE /\ weekends[w] # "none" /\ UNCHANGED <<weekends, card, strays>>
               /\ tick' = [tick EXCEPT ![p].at = "pending"]
      <3>1. tick'[p].at = "pending"
        BY <1>2, <2>2, <2>4, Moves
      <3>2. weekends[w] = "archived"
        BY <1>2, <2>1, <2>4
      <3>3. PICK i \in 1..latest, j \in 1..latest :
              i < j /\ weekend[i] = w /\ weekend[j] # w /\ NoneBehind(j)
        BY <1>2, <2>1, <3>2 DEF PlayedAndLeft
      <3>4. j <= s /\ j # s
        BY <2>0, <2>1, <3>3 DEF NoneBehind, CardSteps
      <3>5. Returned
        BY <1>2, <2>1, <3>3, <3>4 DEF Returned
      <3>6. InVain'
        BY <1>1, <1>2, <2>4, <3>5 DEF InVain, Returned, game
      <3>7. StillSo(p)' /\ tick'[p].at \notin CardSteps
        BY <3>1 DEF StillSo, CardSteps
      <3> QED BY <1>1, <1>3, <2>4, <3>6, <3>7, SameWeekends
    <2> QED BY <1>8, <2>1, <2>3, <2>4 DEF CreateWeekend, Goto
  <1>9. CASE ReadMessage(p)
    <2>1. /\ tick[p].at = "message" /\ UNCHANGED <<weekends, card, strays, orphans>>
      BY <1>9 DEF ReadMessage, tables, history
    <2>2. PICK step \in {"pending", "post"} :
            /\ tick' = [tick EXCEPT ![p].at = step]
            /\ step = "post" => card[tick[p].session] = "none"
      BY <1>9 DEF ReadMessage, Goto, Existing
    <2>3. {"post", "pending"} \subseteq CardSteps \union LoopSteps \union {"idle"}
      BY DEF CardSteps, LoopSteps
    <2>4. tick'[p].at = step /\ tick'[p].session = tick[p].session
      BY <1>2, <2>2, <2>3, Moves
    <2>5. StillSo(p)'
      BY <2>1, <2>2, <2>4 DEF StillSo
    <2>6. tick[p].at \in CardSteps
      BY <2>1 DEF CardSteps
    <2> QED BY <1>1, <1>3, <1>4, <2>1, <2>4, <2>5, <2>6, SameWeekends
  <1>10. CASE PostCard(p)
    <2>1. /\ UNCHANGED <<weekends, strays, orphans>>
          /\ tick' = [tick EXCEPT ![p].at = "pending"]
      BY <1>2, <1>10 DEF PostCard, StillSo, Goto
    <2>2. "pending" \in LoopSteps
      BY DEF LoopSteps
    <2>3. tick'[p].at = "pending"
      BY <1>2, <2>1, <2>2, Moves
    <2> QED BY <1>5, <2>1, <2>3
  <1>11. CASE ReadPending(p) \/ NextCard(p) \/ Finalize(p)
    <2>1. UNCHANGED <<weekends, strays, orphans>>
      BY <1>11 DEF ReadPending, NextCard, Finalize, tables, history
    <2>2. CASE ReadPending(p)
      <3>1. tick'[p].at = "next"
        BY <1>2, <2>2 DEF ReadPending, At
      <3> QED BY <1>5, <2>1, <3>1
    <2>3. CASE Finalize(p)
      <3>1. tick'[p].at = "idle" \/ tick'[p].at = "next"
        BY <1>2, <2>3 DEF Finalize, At, Idle
      <3> QED BY <1>5, <2>1, <3>1
    <2>4. CASE NextCard(p)
      <3>1. CASE tick' = [tick EXCEPT ![p] = Idle]
        BY <1>2, <1>5, <2>1, <3>1, IdleType
      <3>2. ASSUME NEW t, tick[p].at = "next",
                   tick' = [tick EXCEPT ![p] =
                     IF IsSessionDone(t)
                     THEN [[tick[p] EXCEPT !.todo = @ \ {t}]
                             EXCEPT !.at = "finalize", !.item = t, !.data = FinalCard(t)]
                     ELSE [tick[p] EXCEPT !.todo = @ \ {t}]]
            PROVE  tick'[p].at \in {"next", "finalize"}
        <4> DEFINE rest == [tick[p] EXCEPT !.todo = @ \ {t}]
                   now == [rest EXCEPT !.at = "finalize", !.item = t, !.data = FinalCard(t)]
        <4>1. tick'[p] = IF IsSessionDone(t) THEN now ELSE rest
          BY <1>2, <3>2
        <4>2. rest.at = "next" /\ rest \in
                [at : {"next"}, session : 0..MaxSessions, old : Weekends \union {NoWeekend},
                 todo : SUBSET Sessions, item : 0..MaxSessions,
                 data : {"none", "partial", "results"}]
          BY <1>2, <3>2 DEF TickType
        <4>3. now.at = "finalize"
          <5> HIDE DEF rest
          <5> QED BY <4>2
        <4> HIDE DEF rest, now
        <4> QED BY <4>1, <4>2, <4>3
      <3> QED BY <1>5, <2>1, <2>4, <3>1, <3>2 DEF NextCard
    <2> QED BY <1>11, <2>2, <2>3, <2>4
  <1> QED BY <1>6, <1>7, <1>8, <1>9, <1>10, <1>11 DEF Advance

LEMMA FailOne ==
  ASSUME CardInv, OneInv, NEW p \in Ticks, Fail(p)
  PROVE  OneInv'
  <1>1. /\ UNCHANGED <<game, weekends, overlaps>> /\ tick[p].at # "idle"
        /\ faults' = faults + 1
        /\ strays' \in {strays, Bump(strays)} /\ orphans' \in {orphans, Bump(orphans)}
    BY DEF Fail, history
  <1> SUFFICES ASSUME overlaps = 0 PROVE OneInv'
    BY <1>1 DEF OneInv
  <1>2. /\ strays \in 0..(MaxTrouble + 1) /\ orphans \in 0..(MaxTrouble + 1)
        /\ faults \in 0..MaxTrouble /\ tick \in [Ticks -> TickType] /\ InVain
    BY DEF CardInv, TypeOK, OneInv
  <1>3. PICK step \in {"idle", "pending"} : tick' = [tick EXCEPT ![p] = At(step, 0, {})]
    BY DEF Fail, AfterThrow
  <1>4. tick'[p].at = step /\ \A q \in Ticks : q # p => tick'[q] = tick[q]
    BY <1>2, <1>3 DEF At
  <1>5. StillSo(p)' /\ tick'[p].at \notin CardSteps
    BY <1>4 DEF StillSo, CardSteps
  <1>6. /\ Bump(strays) \in Nat /\ Bump(strays) <= strays + 1
        /\ Bump(orphans) \in Nat /\ Bump(orphans) <= orphans + 1
    BY <1>2, BumpStep, BumpType
  <1>7. InVain'
    <2>1. Returned' <=> Returned
      BY <1>1 DEF Returned, game
    <2> QED BY <1>1, <1>2, <1>6, <2>1 DEF InVain
  <1> QED BY <1>1, <1>4, <1>5, <1>7, SameWeekends

(* While no two ticks overlap there is one active weekend at most, as      *)
(* activeWeekend says, and nothing is posted twice but for a failed call   *)
(* or a weekend that is taken up again; for any number of sessions.        *)
THEOREM OneOfEachHolds == Spec => []OneOfEach
  <1>1. Init => CardInv /\ OneInv
    BY InitCards, InitOne
  <1>2. CardInv /\ OneInv /\ [Next]_vars => (CardInv /\ OneInv)'
    BY CardStep, GameOne, BeginOne, AdvanceOne, FailOne DEF Next
  <1>3. CardInv /\ OneInv => OneOfEach
    BY DEF OneInv, OneActive, InVain, OneOfEach, ActiveWeekends
  <1> QED BY <1>1, <1>2, <1>3, PTL DEF Spec

=============================================================================
