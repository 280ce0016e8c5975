------------------------------ MODULE FrameLog ------------------------------
(***************************************************************************)
(* What the listener promises about the frames of a session, without the   *)
(* buffer: the packets of a frame are collected while the frame is open;   *)
(* it is closed once, by a row that holds all of them; and a closed frame  *)
(* is never touched again.  Frames in `excused' are promised nothing, and  *)
(* a frame never leaves that set.  FrameAssembly implements this module.   *)
(***************************************************************************)
CONSTANTS Keys, TriggerIds

VARIABLES rows, delivered, closed, excused

RowOf(packets) == IF packets \cap TriggerIds = {} THEN {} ELSE packets

LogInit ==
  /\ \A k \in Keys : rows[k[1]][k[2]] = {} /\ delivered[k[1]][k[2]] = {}
  /\ closed = {}
  /\ excused = {}

Untouched(k) ==
  /\ rows'[k[1]][k[2]] = rows[k[1]][k[2]]
  /\ delivered'[k[1]][k[2]] = delivered[k[1]][k[2]]
  /\ k \in closed' <=> k \in closed

Collects(k) ==
  /\ k \notin closed /\ k \notin closed'
  /\ delivered[k[1]][k[2]] \subseteq delivered'[k[1]][k[2]]
  /\ rows'[k[1]][k[2]] = {}

Closes(k) ==
  /\ k \notin closed /\ k \in closed'
  /\ delivered[k[1]][k[2]] # {}
  /\ delivered'[k[1]][k[2]] = delivered[k[1]][k[2]]
  /\ rows'[k[1]][k[2]] = RowOf(delivered[k[1]][k[2]])

LogNext ==
  /\ excused \subseteq excused'
  /\ \A k \in Keys \ excused' : Untouched(k) \/ Collects(k) \/ Closes(k)

LogSpec == LogInit /\ [][LogNext]_<<rows, delivered, closed, excused>>
=============================================================================
