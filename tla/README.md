# formula1-app in TLA+

A Python listener records the UDP telemetry of EA SPORTS F1 26 in TimescaleDB;
Cloudflare Workers read that database for a dashboard, a Discord bot and a
sign-on.  This directory models the parts of the program whose correctness
depends on the order of events, checks them with TLC on small instances, and
proves the most important facts with TLAPS for every size.

## The system

| Component | State | Operations | Talks to |
|---|---|---|---|
| UDP server (`listener/server.py`) | bounded queue, drop counter | receive, drop when full, worker, shutdown | calls the dispatcher from one worker thread |
| Packet dispatcher (`dispatcher.py`) | known and excluded sessions, user maps, race-started flags, last lap numbers, classification received | one handler per packet id, behind gates | every service; owns the frame buffer |
| Frame buffer (`frame_buffer.py`, `utils/bounded_dict.py`) | packets by (session, frame), current frame by session, both bounded and evicting | `add`, `check_periodic_flush`, `flush_session`, `discard_session` | calls back `_flush_frame` |
| Session service (`services/session.py`) | seen sessions, anchors, types, tracks | first Session packet inserts the row and reads the anchor back | `telemetry.sessions` |
| Frame writers (`services/car_frame.py`, `motion_ex.py`) | none | write a frame, delete past a flashback | three hypertables |
| Snapshots (`car_setup.py`, `tyre_sets.py`) | caches of the latest setup and tyre sets | cache a packet, write at lap completion | `lap_setups`, `tyre_sets` |
| Participants (`participants.py`, `entries.py`) | written car indices, user maps, player counter | resolve names, write entries, retry | `entries`, `identity.users` |
| Classification (`final_classification.py`) | processed sessions, dead-letter files | write, dead letter, replay at startup | two result tables |
| Lap history, lap positions | last lap counts, last bests | incremental upserts | `laps`, `session_bests`, ... |
| Events, lobby | none | one insert per packet | event tables |
| Database (`database/client.py`, `repositories/`, `schema/`) | the tables | one transaction per call, failures logged and swallowed, `synchronous_commit` off | — |
| Bot (`bot/`) | weekend channels, session cards, roster snapshot | a tick per minute, possibly overlapping | Discord, `bot.*` tables, KV |
| Auth (`auth/`) | signed tokens only | OIDC over the roster snapshot | KV |
| Web (`web/`), `packages/db` | none | read-only queries | database |

What is hard here: datagrams are lost, repeated, late and reordered, and six of
them make one row; a flashback rewinds session time but not frame numbers, while
frames of the undone run are still buffered; the listener restarts in the
middle of a session and must derive the same keys; every database failure is
swallowed, so memory and tables may disagree afterwards; the host may lose the
last commits; the bot's ticks overlap and their calls fail half way.

What makes each part correct:

- **Frame buffer.** Every tick becomes one whole row; only named accidents
  split or lose a frame; memory stays bounded.
- **Dispatcher, session service, writers.** Every row lies at the stored anchor
  plus its session time; undone driving stays out and what was not undone stays
  in; formation laps stay out and racing laps stay in; snapshots are of laps that
  were driven.
- **UDP server.** First in, first out, nothing lost that was queued while it runs.
- **Participants.** A row is never attributed to somebody else; a failed roster
  write is retried.
- **Classification.** A result received is stored in the end, and once.
- **Lap history.** The table agrees with the last packet when nothing failed.
- **Bot.** One active channel, one card per session, a final card only at the end.

## Modules

| Module | Models |
|---|---|
| `FrameBuffer` | `FrameBuffer` and its two `BoundedDict`s: state, and one operator per method |
| `FrameAssembly` | the buffer with its callers (frame packets, SEND, FLBK, restart) and its callback writing two tables |
| `FrameLog` | the abstract promise: a frame is open, is closed once by a row of all its packets, and is final |
| `Listener` | one session through gates, anchor, buffer, race start, lap completion, flashback, restart, database crash |
| `Roster` | who drives which car: Participants packets, users and entries, the user map, and the rows that go through it |
| `Inbox` | the abstract promise of the server: accepted datagrams, one at a time, in order |
| `UdpServer` | the receive loop, the bounded queue, the worker thread, the signal and the ways the process ends |
| `Service` | the final classification run by that worker, with dead letters, their replay at the start, and restarts |
| `LapCapture` | what the Session History packets of a driver become: laps behind a counter, bests behind a cache, stints at the end |
| `SessionCards` | the bot's minute tick: the weekend channel, the card of the latest session, the pending cards |
| `FrameAssemblyProofs`, `ListenerProofs`, `RosterProofs`, `InboxProofs`, `ServiceProofs`, `LapCaptureProofs`, `SessionCardsProofs` | the proofs about the module each is named after |
| `FiniteInduction` | lemmas about finite sets, functions defined by recursion and filtered sequences, which the proofs rest on |
| `MCFrameAssembly`, `MCListener`, `MCRoster`, `MCService`, `MCLapCapture`, `MCSessionCards` | instances for TLC |

`FrameAssembly` extends `FrameBuffer`; `Listener` instantiates it with one
session.  `Service` extends `UdpServer`, whose worker takes a datagram and is
idle again after the steps of a handler that `Service` defines; `UdpServer`
instantiates `Inbox` with its own queue.  The others stand alone, because what
they share with the rest is a table only one of them writes.  Definitions marked
`\* mutant` are plausible bugs, used by nothing but to show that a property
notices them.

**FrameBuffer.** `pending` is `_frames` (packet ids for each key), `current` is
`_current_frame`, and `frameOrder`, `currentOrder` are the key orders of the two
ordered dicts, which age differently: `_frames` keeps the order of insertion,
`_current_frame` is moved to the end by every packet.  `Add` is `add` followed
by `check_periodic_flush`, as the dispatcher calls them under its lock; whether
100 ms have passed is the parameter `sweep`.  `Without` is `SelectSeq`, written as
a recursive function because the prover knows nothing of `SelectSeq`.

**FrameAssembly.** `Deliver` takes any packet of any frame of any session, so
that loss, repetition and reordering need no actions of their own.  `up` is the
set of tables whose INSERT takes effect.  `rows` is what the rows hold;
`delivered`, `high` and `excused` are history.  A key is *excused* when a packet
came late for it or while it was being assembled, when its session was ended,
rewound or evicted, when the process restarted, or when its write failed.

**Listener.** The game is a sequence of ticks; tick n has frame identifier n, a
session time, a lap, and a formation flag.  A Session packet may have waited in
the queue (`Lags`), which is what makes a newly derived anchor differ.  The
driver is on track and human; the roster is a flag.  Any datagram may be lost.

A flashback is two actions.  `Rewind` is the game's: the ticks past the chosen
point are undone, and an FLBK that carries the session time rewound to leaves.
`Flashback` is the listener's, when that datagram is handled: the buffer is
discarded and one DELETE per table goes by session time.  Frame packets of the
undone run and of the one that stands may be handled before or after it, or
between two FLBKs, as long as they are in the air (`Arriving`, `InTheAir`).
`erased` is what the DELETEs have covered, by table, and `overtaken` the ticks
of it of which a datagram was handled afterwards.

A frame packet flushes the completed frame first and then what the
sweep finds, in any order, since the code's is that of a dict; SEND flushes in
ascending order.  `SweepDue` is the one place where the length of the sweep's
interval matters: the formation frames that are still held when the first packet
of lap 2 comes have been there for a lap, far longer than 100 ms, so the sweep
that follows that packet takes them before the packet's own frame is flushed.
`FormationNotRecorded` rests on it: were such a frame swept after a frame of
lap 2, the backstop would have started the race by then.  `durable` is the
database as a crash of its host would leave it; it is recorded only while a crash
may still come.  Pure counters (`flashbacks`, `restarts`, `crashes`) bound the
runs.

**Roster.** `seat` is the game; `users`, `teams`, `entries`, `rows` the
tables; `written`, `userMap`, `counter` what `ParticipantsService` remembers.  `ParticipantsPacket(failed)` is the whole handler: names, the generic
counter, the teams, the batch as one transaction, what is marked as written.
`failed` is the set of its database calls that fail, and the transaction also
fails when it meets one of the two keys of `entries`.  `EventPacket` and
`WriteFrame` resolve through the map as it is, however stale.  The set of
restricted drivers is left out: it is the packet's, set anew by each, and nothing
here reads it.

**UdpServer and Service.** The main thread and the worker interleave at the
queue.  `Signal`, `Leave`, `End` are the stages of a stop: the pool is closed,
the sentinel is queued if there is room, the daemon worker dies where it is;
`End` alone is a kill.  Handling a classification is the insert
(`WriteFinal`) and, when that failed, a letter in two steps: `OpenLetter` opens
the file of the second, which truncates the letter it held, and `DumpLetter`
fills it.  Either may fail, and the process may be killed between, which leaves a
torn letter, one that names nobody.  Replaying a letter is the insert and the
removal (`ReplayRemove`), each of which may fail on its own; a torn letter is
passed over (`ReplayUnreadable`).  `HostCrash` takes the table back to what the
log had on disk (`durable`, moved on by `LogFlushed` while a crash may still
come); `lost` are the drivers whose only result went with it.

**LapCapture.** `num`, `time`, `pit` are the game; `last` and `cached` are
`_last_num_laps` and `_last_bests`.  A packet is taken with the laps written, and
its bests and stints are steps of their own, between which a restart may fall.
Of the session bests it models the best lap; the numbers of the sector bests may
name the lap in progress, which has no row yet.

**SessionCards.** `tick[p]` is where a tick is and what it has read: every await
that reads or changes what another tick may change is a step.  What is done in
Discord no tick reads back, so it shares a step with the statement that records
it, and `Fail` may fall between the two.

The bot takes a session for done when another of its weekend has followed, or
when the clock is a minute past the timestamp of its newest timeline row.  That
timestamp is the anchor plus the session's own time, so it stands still while no
row comes (`phase`), and it stays behind when a session that sends has been
paused or rewound for a minute in all (`behind`); `Stale` is either.  `Resume`
may leave the session behind, and `FallBehind` is what flashbacks and short
pauses add up to without any silence.  Results are `"late"` when they were
stored only after the session counted as done.

## Runs

| Run | Instance | Result |
|---|---|---|
| `frame_assembly` | 1 session, 3 frames, a triggering and a damage packet, every outcome of the two inserts, fairness of the sweep | 19,728 states; `TypeOK`, `RowsAreWhole`, `OnlyNewestPending`, `ImplementsFrameLog`, `LeftBehindIsFlushed` hold |
| `frame_eviction` | 3 sessions in a buffer of 2, 2 frames, 1 packet, sessions symmetric | 80,857 states; `DictOK`, `RowsAreWhole`, `OnlyNewestPending`, `ClosedIsPast` hold |
| `listener` | race, practice and excluded sessions, 4 ticks, 2 laps, lap packets, 2 flashbacks, 1 restart | 514,702 states; the seven properties hold |
| `listener_crash` | 3 ticks, lap and motion-ex packets, a Session packet that may have waited, failing session inserts, 1 crash of the host, 1 flashback, 1 restart | 932,781 states; `RowsAnchored`, `ErasedStaysErased` hold |
| `roster` | 2 cars, a named and two generic drivers, 2 sessions of a weekend, 2 moves, 1 failing call, 1 restart, an unknown team | 120,696 states; the five properties hold |
| `service` | 3 datagrams, 2 drivers, a queue of 2, 2 starts, 2 faults of the database or of the files, 1 crash of the host, 3 seconds | 355,107 states; the six properties hold |
| `lap_capture` | 3 laps, 2 lap times, 1 stop, 1 flashback, 1 failed write, 1 restart | 371,144 states; the six properties hold |
| `session_cards` | 3 sessions over 2 weekends, one after the other or one taken up again, 2 tick processes, and one of: an overlap, a pause, falling a minute behind, a deleted card, a failed call | 1,554,823 states; the five properties hold |
| `flashback_overtaken` | 3 ticks, 1 flashback | `NoUndoneFrameSurvives` is violated |
| `anchor_unread` | the read-back of the anchor may fail | `OneRowPerFrame` is violated |
| `session_row_restored` | 1 crash of the host, fairness of the Session packet | `SessionRowRestored` is violated |
| `joiner_unrecorded` | 1 session, 2 moves, no failures | `JoinersCaptured` is violated |

Why the bounds are enough.  A frame can be late for a frame and between two
others only with three frames.  Two packets, one that triggers a row and one
that does not, tell apart every case of `RowAfter`.  Three sessions in two slots
is the least with which the two dicts can evict different sessions.  Four ticks
allow a lap to be completed, undone, and driven again, and two flashbacks let the
second FLBK, or a frame undone by it, overtake the first; one restart on either
side of a flashback meets every stage of a session.  A DELETE that fails for
some of the tables leaves less erased and is not in a run: the theorems about the
rows hold for any `Faults`.  Two cars allow
a driver to move, to take over a car and to leave one behind, and two sessions
tell what is kept from what is derived anew.  Three datagrams fill a queue of two
with one in hand or one refused; two starts put a crash before and after a
replay; three seconds are two letters of one second and one of another.  A lap
in hand, one completed and one rewound need three laps, and two times show a
stale row.  Three sessions are the least with which a weekend is left and taken
up again; `MaxTrouble` of one means that each accident is met alone, at every
step of every tick.  Deadlock checking is off where the game ends (`MaxTick`
ticks, `MaxSent` datagrams, the last lap).  No run hides a
deadlock of the frame buffer: a datagram can always come.

### What the runs show

The properties name their exceptions, and each exception is something the code
does:

- *Frame buffer.* The newest frame of a session that stops sending is never
  stale and waits for SEND or a restart, although `check_periodic_flush` speaks
  of "frames left behind by a session that stopped sending" (`frame_buffer.py:59`
  against line 72).  `LeftBehindIsFlushed` is about the others.
- *Listener.* A row that a flashback has erased comes back when a datagram of
  its tick is handled after the FLBK, and in no other way (`ErasedStaysErased`,
  finding 1).  An FLBK that arrives late also deletes what was driven since,
  past the point rewound to (`StandingRowsStay`).
- *Roster.* The written set goes by car index, so a driver who takes over a car
  in mid-session drives under the first one's user (`RowsOfTheirDriver`) and
  gets no entry (`TakenOver` in `HumansRecorded`, finding 4); a
  person on two cars of a session violates the key of `entries`, and the whole
  batch fails with it until the clash is gone (`Clash`).
- *Service.* A stop loses the datagrams in the queue, and a letter that was
  about to be written.  Opening a letter destroys the older one of the same
  second; when the dump then fails, or the process is killed, the results of both
  are lost (`forgone`).  A torn letter stays for ever, and so does one whose
  removal failed, which is stored again at each start.  A letter replayed after a
  newer result was stored puts the older one back: `ResultKept` asks for a result,
  not for the newest.  A result whose commit the host lost is not stored again:
  the session is in the set of processed ones, and the repeat of the
  classification is ignored (`lost`; `final_classification.py:146` against
  `client.py:49-52`).
- *LapCapture.* The counter advances past a lap whose write failed, and does not
  see a lap rewound and finished again between two packets (`missed`, `unseen`).
- *SessionCards.* A session that is a minute behind the clock, by silence, pauses
  or flashbacks, counts as over although it may be sending ("ended" at
  `index.ts:86` and "its timeline stalls" at line 172, against the comparison at
  line 185): its card becomes final, and its results come too late for it.  So do
  results from a dead letter.  A weekend taken up again
  after another fails the key of `discord_weekends` at every tick, which creates
  a channel each time and no card.  Two overlapping ticks can archive the current
  weekend with the same effect.  A deleted card that is pending ends the loop of
  every tick.  A session that never had a timeline row keeps its placeholder when
  the next one belongs to another weekend.

One more gap is of the code and outside the models: a driver who restricts their
telemetry in mid-session is not in the restricted set until the next Participants
packet (`participants.py:67`), and the game's zeroes of those seconds are stored
as values, which `README.md:53-55` of the repository excludes.

### Findings

1. `flashback_overtaken`: a frame packet of the undone run that the network
   delivers after the FLBK is buffered and written like any other
   (`dispatcher.py:341`), so a frame the flashback removed is in the table again,
   against `README.md:50-52` ("no phantom duplicate laps survive") and
   `test_flashback.py:150-151` ("No frame may survive past the rewind point").
2. `anchor_unread`: when `get_session_start` fails after a restart, the service
   uses an anchor of its own (`session.py:218`) although the stored row has
   another; a frame received again is stored twice, against `car_frame.sql:8-11`.
3. `session_row_restored`: a session row lost with the host is never inserted
   again by the running process (`session.py:70`), against `client.py:49-52`,
   and every later row of the session fails its foreign key.  A failed first
   INSERT has the same effect.
4. `joiner_unrecorded`: a driver who joins in mid-session in a car that was
   recorded for another never gets an entry (`participants.py:115`), against
   `participants.py:20-21` ("so drivers joining mid-session are captured").

### Fairness

`FairSpec` of `FrameAssembly` is weak fairness of a delivery that carries the
sweep.  The game sends some 60 ticks a second and the sweep runs on the first
packet after 100 ms; it is fair only while some session sends, and nothing is
assumed of which one.
`FairSpec` of `Listener` is weak fairness of the Session packet, sent twice a
second.  Neither assumes that any other datagram arrives.

`Roster`: weak fairness of a Participants packet whose calls succeed; the game
repeats it every five seconds, and the database does not fail for ever.
`Service`: of the worker thread, which runs while its process does; neither a
start nor a stop is assumed.  `LapCapture`: of the steps of a Session History
packet, which comes about once a second for each car, and of what makes the
driver known.  `SessionCards`: of a tick being started (cron), of each tick's
next call returning or throwing, and of a session that was left for another
falling silent; no session is assumed to start or to end.

## Proofs

All are for any values of the constants, under the ASSUMEs of the module: any
number of flashbacks, faults, restarts and crashes.  Every invariant and every
action property of the passing runs is a theorem.

| Module | Theorem | States |
|---|---|---|
| `FrameAssemblyProofs` | `TypeCorrect` | `[]TypeOK` |
| | `FramesRecordedWhole` | `[]RowsAreWhole` |
| | `BufferHoldsNewest` | `[]OnlyNewestPending` |
| | `ClosedFramesArePast` | `[]ClosedIsPast` |
| | `DictsBounded` | `[]DictOK` |
| | `RefinesFrameLog` | `ImplementsFrameLog` |
| | `ClosedFramesFinal` | `[][RowsFinal]_vars`: a closed frame stays closed and its row stays as it is |
| `ListenerProofs` | `ListenerTypeCorrect` | `[]TypeOK` |
| | `FormationLapUnrecorded` | `[]FormationNotRecorded` |
| | `SnapshotsFollowLaps` | `[]SnapshotsOfDrivenLaps` |
| | `BackstopRecords` | `RacingLapsRecorded` |
| | `RowsShareAnchor`, `ErasedForGood` | `[]RowsAnchored`, `[]ErasedStaysErased`, if the anchor can be read back |
| | `StandingRowsKept` | `StandingRowsStay` |
| | `FramesOnce` | `[]OneRowPerFrame`, if the anchor can be read back |
| `RosterProofs` | `MapRecorded` | `[]MapIsRecorded` |
| | `RosterTypeCorrect` | `[]TypeOK` |
| | `RowsUnderTheirDriver`, `RowsKeepEntries` | `[]RowsOfTheirDriver`, `[]RowsHaveEntries` |
| `InboxProofs` | `InboxOrdered` | `InboxSpec => []Ordered` |
| `ServiceProofs` | `ServiceImplementsInbox`, `ResultsKept` | `ImplementsInbox`, `[]ResultKept` |
| | `HandledInOrder` | `[]Promised!Ordered`: the order of `Inbox`, in this server |
| | `ServiceTypeCorrect` | `[]TypeOK` |
| | `ReplayIsComplete`, `LettersLeave` | `[]ReplayComplete`, `LettersLeaveStored` |
| `LapCaptureProofs` | `TypeCorrect` | `[]TypeOK` |
| | `LapsDriven`, `BestsJoin` | `[]LapsAsDriven`, `[]BestNamesLap` |
| | `BestsShown`, `StintsAreFinal` | `[]BestsAsShown`, `[]StintsFinal` |
| `SessionCardsProofs` | `CardsTyped`, `FinalCardsShowResults` | `[]TypeOK`, `[]FinalCardShowsResults` |
| | `OneOfEachHolds` | `[]OneOfEach` |

**FrameAssembly.** The inductive invariant `IInv` says of each frame that is not
excused: it is whole; if packets are pending it is its session's current and
highest frame; if its packets have left the buffer it is below the highest.
Each part needs the others: a closed frame stays whole because nothing can come
for it without being late, and an open one stays whole because neither the sweep
nor a higher frame can take it before its packets are complete.  The step of
`Deliver` is split by whether the frame is the one delivered, one flushed, or
another.  The refinement follows from the same invariant: a step that closes a
frame writes the row of all its packets, and any other leaves a frame alone or
collects.  `ClosedFramesFinal` is read off the abstract step alone.

`DictInv` relates each key order to what its dict holds (`OrderOf`): the sessions
with packets, and those with a current frame.  Each dict operation keeps that
relation for its own set, and `Add` chains three of them.

**Listener.** `ListenerInv` has six parts.

- `GameInv`: a run that is still on the formation lap has nothing else behind
  it, the end of that lap and the beginning of lap 2 are different ticks,
  time and lap number never run ahead of the tick, and an FLBK names what was
  undone of the ticks driven before it.
- `MemoryInv`: an open gate means that the session was seen, has an anchor, and
  knows whether its race has started.
- `BufferInv`: with a frame of the formation lap that stands in the buffer, no
  frame of a racing lap is there, so that the backstop cannot open the race over
  it.  A packet of lap 2 keeps this by `SweepDue`, a late packet of the
  formation lap by `GameInv`.
- `StartInv`: once the race is known to have started, the formation frames in
  the buffer or in the air are those accounted for when the signal was heard, or
  undone.
- `Stored`, of the database and of what a crash would leave of it: rows are of
  ticks driven, snapshots of laps gone on from, and what a DELETE has covered was
  undone and is in the buffer only if a datagram of it came afterwards.
- `HistoryInv`: what the durable database has erased, the running one has.

Flushing is a fold of `FlushFrame` over an order that is not known, so
`FlushByStep` shows it once for any set of states the fold stays in: with one
set, that every row and snapshot added is of a frame held (`FlushSound`); by
induction from the place of a racing frame, that its row is still there at the
end (`RacingFlushRecords`).  `StoredStays` shows once that what was stored stays
right while the game goes on, for both databases.

`AnchorInv` adds that process, database and durable database agree on the anchor
where they have one, and that every row lies at it and is of a frame no DELETE
has covered, or of one that was overtaken.  A DELETE bounds the timestamp and the session time, and takes all
it should only because the two bounds agree on such a row.  It is proved under
`"anchor_read" \notin Faults`, which the run `anchor_unread` shows to be
needed; the failing inserts and DELETEs stay in.

`StandingRowsKept` needs no such assumption: a row a DELETE takes has a session
time past the one the FLBK carries, so by `GameInv` its tick was undone, or was
driven after the FLBK left.

**Roster.** `MapIsRecorded` is inductive: a packet adds to the map only cars of
a batch that was stored, and an upsert replaces the entry of a car only when the
batch has that car.  `RosterInv` is for the other two: a generated user's number
is not behind the counter unless the query for the last one failed, so numbers
differ (`UsersInv`); the entries of the session show their users' plates, and
lie on cars this process has written unless it was restarted (`EntriesInv`); a
car in the map is resolved to who sits in it or to one who has left, but for a
failed count and for shared plates (`SeatInv`).  It assumes that the grid is
finite and that nobody sits in two cars at once.

**Service.** The refinement needs only `Numbered`: what waits is in order, newer
than what is in hand, and no newer than the last datagram sent.  Through it
`InboxOrdered`, proved of the promise alone, holds of the server
(`HandledInOrder`).  `ResultKept`
rests on `ThisSecond` and `Growing`: a letter of the current second was written
by this process, and a later classification of it names every driver an earlier
one named, so whatever happens to the file it opens, the results that were in it
are in the new letter or given up by name with it.  A torn letter names nobody,
so it owes nothing.  `ReplayInv` says where each letter found at the start is
while the replay runs (torn, refused, waiting, in hand, or stored and not
removed), and that all of them are older than any letter written later.  A
crash of the host changes the table alone; `lost` names the drivers it leaves
without a row.

**LapCapture.** A lap behind the counter was shown and changes only by being
rewound (`BehindCounter`), a lap that was shown has a row or was missed
(`ShownHasRow`), and the best lap in hand has one (`BestHasRow`); the bests and
the stints have small invariants of their own about the cache and the
classification.

**SessionCards.** `CardInv`: a session that counts as over, by the clock or by
the one that followed, has its results or has them late, so that what a tick read when it found the session done is still the truth
when its edit lands, however many ticks run.  `OneInv`, while no two ticks
overlap: the one tick that runs finds its readings still so (`StillSo`), and an
archived weekend was left for a session no later than the tick's own
(`PlayedAndLeft`), so that an insert that meets its row means a weekend taken up
again.

**FiniteInduction.** An induction theorem with an operator for its predicate is
of no use to the prover, so these state induction with a set in its place
(`SetInduction`, `UpToInduction`), and derive what the proofs need: a greatest
element, that a function defined by recursion exists and satisfies its
definition (`RecursionExists`), and what filtering leaves of a sequence
(`FilteredKeeps`).

Only model-checked: liveness (`LeftBehindIsFlushed`, `HumansRecorded`,
`HandledInTheEnd`, `LapStored`, `EveryCardFinal`, `EverySessionCarded`), which
the prover has no way to show; and the four violations of the findings.

## Not modelled, and the plan

Next:

1. An abstract specification of a session's tables (a keyed store that takes
   rows of the run that stands, gives up those of a run undone, and may lose its
   last commits) and the proof that `Listener` implements it.
2. The content of a lap's snapshot: setups and tyre sets held in caches that a
   flashback does not rewind (`tyre_sets.py:78`).
3. The pure algorithms of the web worker (`matchDriver`, `buildFeed`) and the
   gap to the car behind, against reference definitions.

Left out, and why:

- *Lap positions, lobby, the event tables, timeline and forecast*: one statement
  per datagram, which keeps nothing from one to the next.  Which drivers an event
  is recorded under is in `Roster`.
- *Packet parsers and enums*: stateless decoding of fixed layouts; what the
  models take from a packet (the laps of a history, the cars of a participants
  packet) is what the parsers return.
- *The kernel's socket buffer*: a datagram lost there is one never received.
- *Roles, commands, auth and web workers*: they read, or reconcile one value
  against Discord with no memory of their own.
- *Columns of rows, rendering, migrations, deployment, logging.*
