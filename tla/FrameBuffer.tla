---------------------------- MODULE FrameBuffer ----------------------------
(***************************************************************************)
(* listener/frame_buffer.py: the packets that describe one simulation tick *)
(* arrive as separate datagrams and are collected by (session, frame)      *)
(* until the frame is handed, whole, to the flush callback.                *)
(*                                                                         *)
(* The module holds the buffer's own state and its three operations.  What *)
(* the callback does with a batch is the business of the module that       *)
(* composes this one: it reads the keys an operation flushes from          *)
(* AddFlushes and SessionFlushes, and their packets from `pending'.        *)
(***************************************************************************)
EXTENDS Integers, Sequences, SequencesExt

CONSTANTS
  Sessions,      \* session_uid values
  Frames,        \* m_overallFrameIdentifier values
  PacketIds,     \* the packet ids buffered: 0, 2, 6, 7, 10 and 16
  MaxSessions    \* MAX_SESSIONS, the size of both BoundedDicts

ASSUME FramesAssumption      == Frames \subseteq Nat
ASSUME MaxSessionsAssumption == MaxSessions \in Nat \ {0}

VARIABLES
  pending,       \* _frames: the ids of the packets held for each key
  current,       \* _current_frame, NoFrame where the session has no entry
  frameOrder,    \* the sessions of _frames, oldest first
  currentOrder   \* the sessions of _current_frame, oldest first

bufferVars == <<pending, current, frameOrder, currentOrder>>

NoFrame == -1

Keys == Sessions \X Frames

(***************************************************************************)
(* BoundedDict.__setitem__ on the order of a dict's keys: a key already    *)
(* there moves to the end, a new key evicts the oldest one of a full dict. *)
(***************************************************************************)
Evicted(order, s) ==
  IF ~Contains(order, s) /\ Len(order) >= MaxSessions THEN {Head(order)} ELSE {}

(* The keys that stay when others are popped: SelectSeq, written as a      *)
(* recursive function to be reasoned about.                                *)
Without(order, popped) ==
  LET kept[i \in 0..Len(order)] ==
        IF i = 0 THEN << >>
        ELSE IF order[i] \in popped THEN kept[i - 1] ELSE Append(kept[i - 1], order[i])
  IN  kept[Len(order)]

SetItemUntrimmed(order, s) == Append(Without(order, {s}), s)    \* mutant

SetItem(order, s) ==
  LET room == IF Evicted(order, s) = {} THEN order ELSE Tail(order)
  IN  Append(Without(room, {s}), s)

-----------------------------------------------------------------------------
(* The frame ids of _frames[s]: a frame is there only with packets. *)
Held(s) == {f \in Frames : pending[s][f] # {}}

CompletedNever(s, f) == {}                                     \* mutant

CompletedAnySession(s, f) ==                                    \* mutant
  {k \in Keys : k[2] \in Held(k[1]) /\ k[2] = current[k[1]] /\ f > k[2]}

(* What `add' flushes first: the frame before a higher frame identifier. *)
Completed(s, f) == {s} \X {g \in Held(s) : g = current[s] /\ f > g}

(* _frames as `add' finds it after that flush, which pops an emptied dict. *)
OrderAfterFlush(s, f) ==
  IF {s} \X Held(s) \subseteq Completed(s, f) THEN Without(frameOrder, {s}) ELSE frameOrder

(* The session whose frames, and the one whose current frame, are evicted. *)
FramesEvicted(s, f) == Evicted(OrderAfterFlush(s, f), s)
CurrentEvicted(s)   == Evicted(currentOrder, s)

CurrentAfterNext(s, f) == [current EXCEPT ![s] = f + 1]         \* mutant

CurrentAfter(s, f) ==
  [t \in Sessions |-> IF t = s THEN f
                      ELSE IF t \in CurrentEvicted(s) THEN NoFrame ELSE current[t]]

StaleWithCurrent(s, f) ==                                       \* mutant
  {k \in Keys : k[1] \notin FramesEvicted(s, f) /\ k[2] \in Held(k[1])}

StaleBelowCurrent(s, f) ==                                      \* mutant
  {k \in StaleWithCurrent(s, f) : k[2] < CurrentAfter(s, f)[k[1]]}

(* check_periodic_flush: every frame but the current one of its session. *)
Stale(s, f) ==
  {k \in Keys : /\ k[1] \notin FramesEvicted(s, f)
                /\ k[2] \in Held(k[1])
                /\ k[2] # CurrentAfter(s, f)[k[1]]}

(* The keys handed to the callback when the dispatcher adds a packet.  The *)
(* sweep runs when FLUSH_INTERVAL_MS have passed, at any time in the model. *)
AddFlushes(s, f, sweep) ==
  Completed(s, f) \cup (IF sweep THEN Stale(s, f) ELSE {})

(* The packets lost with an evicted session. *)
AddDrops(s, f) == {k \in Keys : k[1] \in FramesEvicted(s, f) /\ k[2] \in Held(k[1])}

(* add, and the check_periodic_flush the dispatcher calls after every add. *)
Add(s, f, p, sweep) ==
  LET gone == AddFlushes(s, f, sweep) \cup AddDrops(s, f)
  IN
  /\ current' = CurrentAfter(s, f)
  /\ currentOrder' = SetItem(currentOrder, s)
  /\ pending' = [t \in Sessions |-> [g \in Frames |->
                   (IF <<t, g>> \in gone THEN {} ELSE pending[t][g])
                     \cup (IF t = s /\ g = f THEN {p} ELSE {})]]
  /\ frameOrder' =
       LET order == OrderAfterFlush(s, f)
           added == IF Contains(order, s) THEN order ELSE SetItem(order, s)
       IN  Without(added, {t \in Sessions : \A g \in Frames : pending'[t][g] = {}})

-----------------------------------------------------------------------------
(* What flush_session hands to the callback, in ascending frame order. *)
SessionFlushes(s) == {s} \X Held(s)

(* _frames.pop and _current_frame.pop. *)
ForgetSession(s) ==
  /\ pending' = [pending EXCEPT ![s] = [f \in Frames |-> {}]]
  /\ current' = [current EXCEPT ![s] = NoFrame]
  /\ frameOrder' = Without(frameOrder, {s})
  /\ currentOrder' = Without(currentOrder, {s})

(* flush_session returns at once, and keeps the current frame, when the    *)
(* session has no frames.                                                  *)
FlushSession(s) ==
  IF Held(s) = {} THEN UNCHANGED bufferVars ELSE ForgetSession(s)

DiscardNothing(s) == UNCHANGED bufferVars                       \* mutant

(* discard_session: the packets reach no callback. *)
DiscardSession(s) == ForgetSession(s)

-----------------------------------------------------------------------------
BufferInit ==
  /\ pending = [s \in Sessions |-> [f \in Frames |-> {}]]
  /\ current = [s \in Sessions |-> NoFrame]
  /\ frameOrder = << >>
  /\ currentOrder = << >>

BufferTypeOK ==
  /\ pending \in [Sessions -> [Frames -> SUBSET PacketIds]]
  /\ current \in [Sessions -> Frames \cup {NoFrame}]

(* The two dicts hold what their key orders say, and never more than       *)
(* MAX_SESSIONS sessions: "a session that never sends its SEND event       *)
(* cannot pin its frames in memory forever".                               *)
DictOK ==
  /\ Len(frameOrder) <= MaxSessions
  /\ Len(currentOrder) <= MaxSessions
  /\ IsInjective(frameOrder) /\ IsInjective(currentOrder)
  /\ \A s \in Sessions : /\ Contains(frameOrder, s) <=> Held(s) # {}
                         /\ Contains(currentOrder, s) <=> current[s] # NoFrame
=============================================================================
