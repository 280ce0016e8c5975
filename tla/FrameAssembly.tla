--------------------------- MODULE FrameAssembly ---------------------------
(***************************************************************************)
(* The frame buffer together with its callers and its callback: the        *)
(* datagrams of many ticks arrive in any order, twice or never, and every  *)
(* tick must become one whole database row.                                *)
(*                                                                         *)
(*   Deliver       PacketDispatcher.handle_packet for a buffered packet    *)
(*   SessionEnded  handle_packet for the SEND event                        *)
(*   Flashback     handle_packet for the FLBK event                        *)
(*   Restart       the process stops and starts again, its memory lost     *)
(*                                                                         *)
(* The rows are those of one driver on track, keyed by (session, frame):   *)
(* that the key of a frame is stable is the subject of module Listener.    *)
(***************************************************************************)
EXTENDS FrameBuffer

CONSTANTS
  TriggerIds,    \* packets that make _flush_frame write at all: 0, 2, 6, 7
  DamageIds,     \* packets stored in car_frame_damage: 10
  Outcomes       \* bound: the sets of tables whose INSERT may take effect

ASSUME PacketIdsAssumption ==
  TriggerIds \subseteq PacketIds /\ DamageIds \subseteq PacketIds \ TriggerIds

(* The two tables one flush writes, each in a transaction of its own. *)
Tables == {"car_frame", "car_frame_damage"}

ASSUME OutcomesAssumption == Outcomes \subseteq SUBSET Tables

VARIABLES
  rows,          \* the packets a key's car_frame and car_frame_damage rows hold
  delivered,     \* history: the packets of a key handed to the buffer
  high,          \* history: the highest frame delivered for a session
  excused        \* history: the keys something happened to, see below

vars == <<pending, current, frameOrder, currentOrder, rows, delivered, high, excused>>

RowWithoutTrigger(row, batch, up) == row \cup batch             \* mutant

(* The row data of a key after a batch: ON CONFLICT DO NOTHING keeps the   *)
(* row that is there, whatever the new batch holds.                        *)
RowAfter(row, batch, up) ==
  LET frame  == IF "car_frame" \in up /\ row \ DamageIds = {} THEN batch \ DamageIds ELSE {}
      damage == IF "car_frame_damage" \in up THEN batch \cap DamageIds ELSE {}
  IN  IF batch \cap TriggerIds = {} THEN row ELSE row \cup frame \cup damage

(* _flush_frame for each of `keys'.  `up' names the tables whose INSERT    *)
(* takes effect: a failed batch is logged and dropped, and frames before   *)
(* the race start or in a session's first second are skipped altogether.   *)
WriteRows(keys, up) ==
  rows' = [s \in Sessions |-> [f \in Frames |->
             IF <<s, f>> \in keys THEN RowAfter(rows[s][f], pending[s][f], up)
             ELSE rows[s][f]]]

NotWritten(keys, up) == IF up = Tables THEN {} ELSE keys

-----------------------------------------------------------------------------
(* A packet is late when a higher frame of its session is already known.   *)
(* Taking it, the buffer turns back to the late frame, so it may break up  *)
(* that frame and the one it was assembling.                               *)
Late(s, f) == f < high[s]

Broken(s, f) == {k \in Keys : k[1] = s /\ Late(s, f) /\ k[2] \in {f, current[s]}}

(* Losing its current frame id, an evicted session has that frame swept.   *)
Uprooted(s) == {k \in Keys : k[1] \in CurrentEvicted(s) /\ k[2] = current[k[1]]}

Deliver(s, f, p, sweep, up) ==
  /\ Add(s, f, p, sweep)
  /\ WriteRows(AddFlushes(s, f, sweep), up)
  /\ delivered' = [delivered EXCEPT ![s][f] = @ \cup {p}]
  /\ high' = [high EXCEPT ![s] = IF f > @ THEN f ELSE @]
  /\ excused' = excused \cup Broken(s, f) \cup AddDrops(s, f) \cup Uprooted(s)
                        \cup NotWritten(AddFlushes(s, f, sweep), up)

SessionEnded(s, up) ==
  /\ FlushSession(s)
  /\ WriteRows(SessionFlushes(s), up)
  /\ excused' = excused \cup SessionFlushes(s)
  /\ UNCHANGED <<delivered, high>>

(* The DELETE removes the rows past the rewind point; session times are    *)
(* not modelled here, so it may be any of the session's rows.              *)
Flashback(s, undone) ==
  /\ DiscardSession(s)
  /\ rows' = [rows EXCEPT ![s] = [f \in Frames |-> IF f \in undone THEN {} ELSE @[f]]]
  /\ excused' = excused \cup SessionFlushes(s) \cup ({s} \X undone)
  /\ UNCHANGED <<delivered, high>>

Restart ==
  /\ pending' = [s \in Sessions |-> [f \in Frames |-> {}]]
  /\ current' = [s \in Sessions |-> NoFrame]
  /\ frameOrder' = << >>
  /\ currentOrder' = << >>
  /\ excused' = excused \cup {k \in Keys : k[2] \in Held(k[1])}
  /\ UNCHANGED <<rows, delivered, high>>

-----------------------------------------------------------------------------
Init ==
  /\ BufferInit
  /\ rows = [s \in Sessions |-> [f \in Frames |-> {}]]
  /\ delivered = [s \in Sessions |-> [f \in Frames |-> {}]]
  /\ high = [s \in Sessions |-> NoFrame]
  /\ excused = {}

Next ==
  \/ \E s \in Sessions, f \in Frames, p \in PacketIds, sweep \in BOOLEAN, up \in Outcomes :
       Deliver(s, f, p, sweep, up)
  \/ \E s \in Sessions, up \in Outcomes : SessionEnded(s, up)
  \/ \E s \in Sessions, undone \in SUBSET Frames : Flashback(s, undone)
  \/ Restart

Spec == Init /\ [][Next]_vars

(* The game keeps sending, so a sweep runs again and again: any packet of  *)
(* any session carries it, and 100 ms always pass.                         *)
SomeSweep ==
  \E s \in Sessions, f \in Frames, p \in PacketIds, up \in Outcomes :
    Deliver(s, f, p, TRUE, up)

FairSpec == Spec /\ WF_vars(SomeSweep)

-----------------------------------------------------------------------------
TypeOK ==
  /\ BufferTypeOK
  /\ rows \in [Sessions -> [Frames -> SUBSET PacketIds]]
  /\ delivered \in [Sessions -> [Frames -> SUBSET PacketIds]]
  /\ high \in [Sessions -> Frames \cup {NoFrame}]
  /\ excused \subseteq Keys

(* What a whole batch leaves in the database. *)
WholeRow(packets) == IF packets \cap TriggerIds = {} THEN {} ELSE packets

(* A frame is either still being assembled, with every packet received and *)
(* no row yet, or written from every packet received for it.               *)
Whole(s, f) ==
  \/ pending[s][f] = delivered[s][f] /\ rows[s][f] = {}
  \/ pending[s][f] = {} /\ rows[s][f] = WholeRow(delivered[s][f])

(* Every frame becomes one row holding all the packets received for it,    *)
(* unless a packet came late for it or while it was being assembled, its   *)
(* session ended, was rewound or was evicted meanwhile, the process        *)
(* restarted or the write failed: nothing else splits or loses a frame,    *)
(* duplicates, sweeps and the other sessions' traffic included             *)
(* (frame_buffer.py add, check_periodic_flush, _flush_frame).              *)
RowsAreWhole ==
  \A s \in Sessions, f \in Frames : <<s, f>> \notin excused => Whole(s, f)

(* The buffer holds back only the frame being assembled: any other frame   *)
(* left in it was touched by one of those accidents, so the sweep never    *)
(* takes a frame whose packets are still arriving in order                 *)
(* (frame_buffer.py 47-50, 70-72).                                         *)
OnlyNewestPending ==
  \A s \in Sessions, f \in Frames :
    pending[s][f] # {} /\ <<s, f>> \notin excused => f = current[s] /\ f = high[s]

(* A frame whose packets have left the buffer is older than the newest     *)
(* frame of its session, so that only a late packet can still reach it and *)
(* open it a second time.                                                  *)
ClosedIsPast ==
  \A s \in Sessions, f \in Frames :
    delivered[s][f] # {} /\ pending[s][f] = {} /\ <<s, f>> \notin excused => f < high[s]

(* A frame left behind in the buffer is flushed by a later sweep, unless   *)
(* a packet makes it the current one again (frame_buffer.py 58-75).        *)
LeftBehindIsFlushed ==
  \A s \in Sessions, f \in Frames :
    (pending[s][f] # {} /\ f # current[s]) ~> (pending[s][f] = {} \/ f = current[s])

-----------------------------------------------------------------------------
(* A frame is closed once its packets have left the buffer. *)
Closed == {k \in Keys : delivered[k[1]][k[2]] # {} /\ pending[k[1]][k[2]] = {}}

Log == INSTANCE FrameLog WITH closed <- Closed

(* The buffer, its callers and its callback implement the promise of       *)
(* FrameLog: a frame is closed at most once, by a row with all its         *)
(* packets, and its row is final (frame_buffer.py 38-118, dispatcher.py    *)
(* 405-488, ON CONFLICT DO NOTHING in car_frame.py).                       *)
ImplementsFrameLog == Log!LogSpec
=============================================================================
