---------------------------- MODULE SessionCards ----------------------------
(***************************************************************************)
(* The Discord bot's minute tick (bot/src/index.ts): one channel for the   *)
(* weekend of the latest session, one card per session, edited to its      *)
(* final form when the session is over.  A tick is a process that awaits   *)
(* Discord and the database at every step; cron starts the next one        *)
(* whether or not the last has returned.  A call that fails throws, and    *)
(* what it had already done on the other side stays done.  What is done in *)
(* Discord (a channel created, a message posted or edited) no tick reads   *)
(* back, so it shares its step with the statement that records it.         *)
(*                                                                         *)
(* Commands, members and roles are other steps of the tick and share no    *)
(* state with this one; what a card says is abstracted to whether it has   *)
(* the session's result.                                                   *)
(***************************************************************************)
EXTENDS Integers, FiniteSets

CONSTANTS
  MaxSessions,    \* sessions the league runs
  Weekends,       \* weekend_link values
  Calendars,      \* the weekends the sessions may belong to, in order
  MaxTicks,       \* ticks that may be running at once
  MaxTrouble      \* overlapping ticks, pauses, deleted cards and failed calls, together

ASSUME CardsAssumption ==
  /\ Calendars \subseteq [1..MaxSessions -> Weekends]
  /\ MaxSessions \in Nat \ {0} /\ MaxTicks \in Nat \ {0}
  /\ MaxTrouble \in Nat

VARIABLES
  latest,         \* the session latestSession returns, 0 before the first
  weekend,        \* session -> its weekend
  phase,          \* session -> "begun" (no timeline row), "running" or "quiet" (none for 60 s)
  behind,         \* sessions whose time is over 60 s behind the clock (flashbacks, pauses)
  results,        \* session -> "none", "stored", or "late": it counted as over before they were
  weekends,       \* bot.discord_weekends: "none", "active" or "archived"
  card,           \* the message bot.discord_session_messages names: "none", "placeholder",
                  \* "partial" (final layout, the result perhaps missing) or "results"
  finalized,      \* bot.discord_session_messages.finalized
  deleted,        \* sessions whose message is gone
  tick,           \* process -> where it is and what it has read
  strays,         \* history: messages posted and never recorded
  orphans,        \* history: channels created and never recorded
  overlaps,       \* ticks started while another ran
  pauses,         \* sessions that went on after a minute without telemetry, or fell behind
  faults          \* calls that failed, and ticks that were killed

game    == <<latest, weekend, phase, behind, results>>
tables  == <<weekends, card, finalized>>
history == <<strays, orphans>>
budgets == <<overlaps, pauses, faults>>

vars == <<latest, weekend, phase, behind, results, weekends, card, finalized, deleted, tick,
          strays, orphans, overlaps, pauses, faults>>

Sessions == 1..MaxSessions
Ticks    == 1..MaxTicks
NoWeekend == "no weekend"

CardSteps == {"active", "archive", "create", "message", "post"}
LoopSteps == {"pending", "next", "finalize"}

At(step, session, todo) ==
  [at |-> step, session |-> session, old |-> NoWeekend, todo |-> todo, item |-> 0, data |-> "none"]
Idle == At("idle", 0, {})

-----------------------------------------------------------------------------
(* What the tick reads. *)

\* activeWeekend: one of the rows not archived, in no order.
ActiveWeekends == {w \in Weekends : weekends[w] = "active"}

\* sessionMessage: the session has a recorded card.
OncePerWeekend(s) == \E t \in Sessions : card[t] # "none" /\ weekend[t] = weekend[s]  \* mutant
Existing(s) == card[s] # "none"

EverySession == {s \in Sessions : s <= latest /\ ~finalized[s]}        \* mutant
\* pendingSessionMessages.
Pending == {s \in Sessions : card[s] # "none" /\ ~finalized[s]}

\* The clock is over a minute past the newest row's timestamp, which is the anchor and the
\* session's own time: no row came, or the session's time was set back or stood still.
Stale(s) == phase[s] = "quiet" \/ s \in behind

AnyNewer(s) == latest # s \/ Stale(s)                                 \* mutant
SameWeekendOnly(s) == latest # s /\ weekend[latest] = weekend[s]        \* mutant
\* isSessionDone: the two reads it makes agree with some moment between them.
IsSessionDone(s) ==
  \/ latest # s /\ weekend[latest] = weekend[s]
  \/ Stale(s)

\* finalResultData and finalCardFor.
FinalCard(s) == IF results[s] = "stored" THEN "results" ELSE "partial"

-----------------------------------------------------------------------------
(* The game and the listener. *)

MoreTrouble == overlaps + pauses + faults + Cardinality(deleted) < MaxTrouble

\* The session counts as over: its newest row is stale, or another of its weekend has followed.
Over(s) ==
  /\ s <= latest
  /\ \/ Stale(s)
     \/ \E n \in Sessions : s < n /\ n <= latest /\ weekend[n] = weekend[s]

\* A session without results that is over now has them late, when it has them at all.
Observe ==
  results' = [s \in Sessions |-> IF Over(s)' /\ results[s] = "none" THEN "late" ELSE results[s]]

StartSession ==
  /\ latest < MaxSessions
  /\ latest' = latest + 1
  /\ UNCHANGED <<weekend, phase, behind, tables, deleted, tick, history, budgets>>
  /\ Observe

\* The first row of session_timeline.
FirstRow ==
  /\ latest # 0 /\ phase[latest] = "begun"
  /\ phase' = [phase EXCEPT ![latest] = "running"]
  /\ UNCHANGED <<latest, weekend, behind, tables, deleted, tick, history, budgets>>
  /\ Observe

\* A minute without a row: the session is paused, has ended, or was left for another.
GoQuiet(s) ==
  /\ s <= latest /\ phase[s] = "running"
  /\ phase' = [phase EXCEPT ![s] = "quiet"]
  /\ UNCHANGED <<latest, weekend, behind, tables, deleted, tick, history, budgets>>
  /\ Observe

\* The session goes on, not classified yet.  Its time passed while only the telemetry was away, and
\* stood still while it was paused.
Resume ==
  /\ MoreTrouble
  /\ latest # 0 /\ phase[latest] = "quiet" /\ results[latest] # "stored"
  /\ phase' = [phase EXCEPT ![latest] = "running"]
  /\ behind' \in {behind, behind \union {latest}}
  /\ pauses' = pauses + 1
  /\ UNCHANGED <<latest, weekend, tables, deleted, tick, history, overlaps, faults>>
  /\ Observe

\* A session that sends all the time falls a minute behind: what flashbacks undid and short pauses
\* took adds up.
FallBehind ==
  /\ MoreTrouble
  /\ latest # 0 /\ phase[latest] = "running" /\ latest \notin behind
  /\ behind' = behind \union {latest}
  /\ pauses' = pauses + 1
  /\ UNCHANGED <<latest, weekend, phase, tables, deleted, tick, history, overlaps, faults>>
  /\ Observe

\* The final classification is stored before the session counts as over: afterwards it is late.
ResultsStored(s) ==
  /\ s <= latest /\ phase[s] = "running" /\ results[s] = "none"
  /\ results' = [results EXCEPT ![s] = "stored"]
  /\ UNCHANGED <<latest, weekend, phase, behind, tables, deleted, tick, history, budgets>>

\* A moderator deletes a card: Discord refuses every edit of it from then on.
Delete(s) ==
  /\ MoreTrouble
  /\ card[s] # "none" /\ s \notin deleted
  /\ deleted' = deleted \union {s}
  /\ UNCHANGED <<game, tables, tick, history, budgets>>

Game ==
  \/ StartSession \/ FirstRow \/ Resume \/ FallBehind
  \/ \E s \in Sessions : GoQuiet(s) \/ ResultsStored(s) \/ Delete(s)

-----------------------------------------------------------------------------
(* The step sessionCard of a tick. *)

Running == {p \in Ticks : tick[p].at # "idle"}

\* What is posted or created in vain is counted until two ticks overlap, and up to MaxTrouble + 1.
Bump(n) == IF overlaps > 0 \/ n > MaxTrouble THEN n ELSE n + 1

Goto(p, step) == tick' = [tick EXCEPT ![p].at = step]

\* step(): a throw of the card step is logged and the tick goes on with the pending cards.
AfterThrow(p) == IF tick[p].at \in CardSteps THEN "pending" ELSE "idle"

\* The tick starts and reads the latest session; with none the card step returns.
Begin(p) ==
  /\ tick[p].at = "idle"
  /\ \A q \in Ticks : q < p => tick[q].at # "idle"
  /\ IF Running = {} THEN UNCHANGED overlaps
     ELSE MoreTrouble /\ overlaps' = overlaps + 1
  /\ tick' = [tick EXCEPT ![p] = At(IF latest = 0 THEN "pending" ELSE "active", latest, {})]
  /\ UNCHANGED <<game, tables, deleted, history, pauses, faults>>

ReadActive(p) ==
  /\ tick[p].at = "active"
  /\ \/ ActiveWeekends = {} /\ Goto(p, "create")
     \/ \E w \in ActiveWeekends :
          IF w = weekend[tick[p].session] THEN Goto(p, "message")
          ELSE tick' = [tick EXCEPT ![p].at = "archive", ![p].old = w]
  /\ UNCHANGED <<game, tables, deleted, history, budgets>>

RenameOnly(w) == weekends                                             \* mutant
\* archiveWeekend.
Archived(w) == [weekends EXCEPT ![w] = "archived"]

\* archivePreviousWeekend: the channel is renamed, then the row marked.
Archive(p) ==
  /\ tick[p].at = "archive"
  /\ weekends' = Archived(tick[p].old)
  /\ tick' = [tick EXCEPT ![p].at = "create", ![p].old = NoWeekend]
  /\ UNCHANGED <<game, card, finalized, deleted, history, budgets>>

\* createChannel and insertWeekend: the weekend is the key, and its row may exist, archived or not.
CreateWeekend(p) ==
  /\ tick[p].at = "create"
  /\ LET w == weekend[tick[p].session] IN
       IF weekends[w] = "none"
       THEN /\ weekends' = [weekends EXCEPT ![w] = "active"]
            /\ Goto(p, "message")
            /\ UNCHANGED orphans
       ELSE /\ Goto(p, "pending")
            /\ orphans' = Bump(orphans)
            /\ UNCHANGED weekends
  /\ UNCHANGED <<game, card, finalized, deleted, strays, budgets>>

ReadMessage(p) ==
  /\ tick[p].at = "message"
  /\ Goto(p, IF Existing(tick[p].session) THEN "pending" ELSE "post")
  /\ UNCHANGED <<game, tables, deleted, history, budgets>>

\* postMessage and insertSessionMessage: the session is the key.
PostCard(p) ==
  /\ tick[p].at = "post"
  /\ LET s == tick[p].session IN
       IF card[s] = "none"
       THEN card' = [card EXCEPT ![s] = "placeholder"] /\ UNCHANGED strays
       ELSE strays' = Bump(strays) /\ UNCHANGED card
  /\ Goto(p, "pending")
  /\ UNCHANGED <<game, weekends, finalized, deleted, orphans, budgets>>

-----------------------------------------------------------------------------
(* The step finalizeCards. *)

ReadPending(p) ==
  /\ tick[p].at = "pending"
  /\ tick' = [tick EXCEPT ![p] = At("next", 0, Pending)]
  /\ UNCHANGED <<game, tables, deleted, history, budgets>>

\* The rows come in no order; a session that is not over is passed by.  Results that are stored
\* between the check and their query are late, so the two are one step.
NextCard(p) ==
  /\ tick[p].at = "next"
  /\ \/ tick[p].todo = {} /\ tick' = [tick EXCEPT ![p] = Idle]
     \/ \E s \in tick[p].todo :
          LET rest == [tick[p] EXCEPT !.todo = @ \ {s}] IN
            tick' = [tick EXCEPT ![p] =
                       IF IsSessionDone(s)
                       THEN [rest EXCEPT !.at = "finalize", !.item = s, !.data = FinalCard(s)]
                       ELSE rest]
  /\ UNCHANGED <<game, tables, deleted, history, budgets>>

\* editMessage and finalizeSessionMessage; the edit throws when the message is gone, which ends
\* the loop.
Finalize(p) ==
  /\ tick[p].at = "finalize"
  /\ LET s == tick[p].item IN
       IF s \in deleted
       THEN tick' = [tick EXCEPT ![p] = Idle] /\ UNCHANGED <<card, finalized>>
       ELSE /\ card' = [card EXCEPT ![s] = tick[p].data]
            /\ finalized' = [finalized EXCEPT ![s] = TRUE]
            /\ tick' = [tick EXCEPT ![p] = At("next", 0, tick[p].todo)]
  /\ UNCHANGED <<game, weekends, deleted, history, budgets>>

\* A call throws, or the tick is killed: before the step, or between what it does in Discord and
\* the record of it.
Fail(p) ==
  /\ MoreTrouble /\ tick[p].at # "idle"
  /\ faults' = faults + 1
  /\ \E to \in {AfterThrow(p), "idle"} : tick' = [tick EXCEPT ![p] = At(to, 0, {})]
  /\ \/ UNCHANGED <<card, history>>
     \/ tick[p].at = "post" /\ strays' = Bump(strays) /\ UNCHANGED <<card, orphans>>
     \/ tick[p].at = "create" /\ orphans' = Bump(orphans) /\ UNCHANGED <<card, strays>>
     \/ /\ tick[p].at = "finalize" /\ tick[p].item \notin deleted
        /\ card' = [card EXCEPT ![tick[p].item] = tick[p].data]
        /\ UNCHANGED history
  /\ UNCHANGED <<game, weekends, finalized, deleted, overlaps, pauses>>

Advance(p) ==
  \/ ReadActive(p) \/ Archive(p) \/ CreateWeekend(p) \/ ReadMessage(p) \/ PostCard(p)
  \/ ReadPending(p) \/ NextCard(p) \/ Finalize(p)

-----------------------------------------------------------------------------
Init ==
  /\ latest = 0 /\ weekend \in Calendars
  /\ phase = [s \in Sessions |-> "begun"] /\ behind = {}
  /\ results = [s \in Sessions |-> "none"]
  /\ weekends = [w \in Weekends |-> "none"]
  /\ card = [s \in Sessions |-> "none"] /\ finalized = [s \in Sessions |-> FALSE]
  /\ deleted = {} /\ tick = [p \in Ticks |-> Idle]
  /\ strays = 0 /\ orphans = 0
  /\ overlaps = 0 /\ pauses = 0 /\ faults = 0

Next == Game \/ \E p \in Ticks : Begin(p) \/ Advance(p) \/ Fail(p)

Spec == Init /\ [][Next]_vars

(* Cron starts a tick every minute; a call returns or throws; and a session *)
(* that was left for another falls silent.                                  *)
FairSpec ==
  /\ Spec
  /\ WF_vars(\E p \in Ticks : Begin(p))
  /\ \A p \in Ticks : WF_vars(Advance(p))
  /\ WF_vars(\E s \in 1..(latest - 1) : GoQuiet(s))

-----------------------------------------------------------------------------
TickType ==
  [at : CardSteps \union LoopSteps \union {"idle"}, session : 0..MaxSessions,
   old : Weekends \union {NoWeekend}, todo : SUBSET Sessions, item : 0..MaxSessions,
   data : {"none", "partial", "results"}]

\* Types; a final row names a card that was edited, and a card's weekend has its row.
TypeOK ==
  /\ latest \in 0..MaxSessions
  /\ weekend \in [Sessions -> Weekends]
  /\ phase \in [Sessions -> {"begun", "running", "quiet"}]
  /\ behind \subseteq Sessions
  /\ results \in [Sessions -> {"none", "stored", "late"}]
  /\ weekends \in [Weekends -> {"none", "active", "archived"}]
  /\ card \in [Sessions -> {"none", "placeholder", "partial", "results"}]
  /\ finalized \in [Sessions -> BOOLEAN]
  /\ \A s \in Sessions : finalized[s] => card[s] \notin {"none", "placeholder"}
  /\ \A s \in Sessions : card[s] # "none" => weekends[weekend[s]] # "none"
  /\ deleted \subseteq Sessions
  /\ tick \in [Ticks -> TickType]
  /\ strays \in 0..(MaxTrouble + 1) /\ orphans \in 0..(MaxTrouble + 1)
  /\ overlaps \in 0..MaxTrouble /\ pauses \in 0..MaxTrouble /\ faults \in 0..MaxTrouble

\* A weekend was left for another and then taken up again.
Returned ==
  \E i \in 1..latest, j \in 1..latest, k \in 1..latest :
    i < j /\ j < k /\ weekend[i] = weekend[k] /\ weekend[i] # weekend[j]

(* While no two ticks overlap there is at most one active weekend, as       *)
(* activeWeekend's comment says; a second message or channel comes only     *)
(* from a call that failed between the creation and its record, or (the     *)
(* channel) from a weekend that is taken up again.                          *)
OneOfEach ==
  overlaps = 0 =>
    /\ \A v \in ActiveWeekends, w \in ActiveWeekends : v = w
    /\ strays <= faults
    /\ Returned \/ orphans <= faults

(* A card finalizePendingCards will never touch again shows the session's   *)
(* results, unless the session counted as over before they were stored: the *)
(* clock was a minute past its newest row's timestamp (silence, pauses or   *)
(* flashbacks), or another of its weekend had started (a dead letter).      *)
FinalCardShowsResults ==
  \A s \in Sessions : finalized[s] => card[s] = "results" \/ results[s] = "late"

(* Again and again every card of a session that is over is final, except    *)
(* those of sessions that never had a timeline row, and unless a pending    *)
(* card was deleted: its edit throws at every tick and ends the loop before *)
(* the rest.                                                                *)
EveryCardFinal ==
  []<>(\/ \E s \in deleted : ~finalized[s]
       \/ \A s \in Sessions :
            card[s] # "none" /\ Over(s) => finalized[s] \/ phase[s] = "begun")

(* Again and again the latest session has its card, unless its weekend was  *)
(* left before (insertWeekend then fails at every tick), or ticks have      *)
(* overlapped.                                                              *)
EverySessionCarded ==
  []<>(latest = 0 \/ card[latest] # "none" \/ Returned \/ overlaps > 0)
=============================================================================
