------------------------ MODULE FrameAssemblyProofs ------------------------
(***************************************************************************)
(* Proofs about FrameAssembly for any sessions, frames, packets and        *)
(* capacity.  RowsAreWhole alone is not inductive: that a frame is closed  *)
(* with all its packets needs that no packet can come for it afterwards    *)
(* unnoticed, hence ClosedIsPast, and that no sweep takes it early, hence  *)
(* OnlyNewestPending.                                                      *)
(***************************************************************************)
EXTENDS FrameAssembly, FiniteInduction

FrameInv(s, f) ==
  <<s, f>> \notin excused =>
    /\ Whole(s, f)
    /\ pending[s][f] # {} => f = current[s] /\ f = high[s]
    /\ delivered[s][f] # {} /\ pending[s][f] = {} => f < high[s]

IInv ==
  /\ TypeOK
  /\ \A s \in Sessions, f \in Frames : FrameInv(s, f)

(* Frame ids, and the absence of one, can be compared. *)
LEMMA FrameIsInt ==
  ASSUME NEW x \in Frames \cup {NoFrame}
  PROVE  x \in Int
BY FramesAssumption DEF NoFrame

(* The row of a whole batch holds the whole batch (car_frame.py 344-354). *)
LEMMA RowOfWholeBatch ==
  ASSUME NEW batch \in SUBSET PacketIds
  PROVE  RowAfter({}, batch, Tables) = WholeRow(batch)
BY DEF RowAfter, WholeRow, Tables

(* A row holds packet ids only. *)
LEMMA RowAfterType ==
  ASSUME NEW row \in SUBSET PacketIds, NEW batch \in SUBSET PacketIds, NEW up
  PROVE  RowAfter(row, batch, up) \in SUBSET PacketIds
BY DEF RowAfter

(* A flush takes keys of the buffer, with packets in them. *)
LEMMA AddFlushesHeld ==
  ASSUME NEW s \in Sessions, NEW f \in Frames, NEW sweep \in BOOLEAN,
         NEW t \in Sessions, NEW g \in Frames, <<t, g>> \in AddFlushes(s, f, sweep)
  PROVE  pending[t][g] # {}
BY DEF AddFlushes, Completed, Stale, Held, Keys

-----------------------------------------------------------------------------
LEMMA InitTypeOK == Init => TypeOK
BY DEF Init, BufferInit, TypeOK, BufferTypeOK

LEMMA DeliverTypeOK ==
  ASSUME TypeOK, NEW s \in Sessions, NEW f \in Frames, NEW p \in PacketIds,
         NEW sweep \in BOOLEAN, NEW up \in Outcomes, Deliver(s, f, p, sweep, up)
  PROVE  TypeOK'
<1>1. pending' \in [Sessions -> [Frames -> SUBSET PacketIds]]
  BY DEF Deliver, Add, TypeOK, BufferTypeOK
<1>2. current' \in [Sessions -> Frames \cup {NoFrame}]
  BY DEF Deliver, Add, CurrentAfter, TypeOK, BufferTypeOK
<1>3. rows' \in [Sessions -> [Frames -> SUBSET PacketIds]]
  <2>1. \A t \in Sessions, g \in Frames :
          RowAfter(rows[t][g], pending[t][g], up) \in SUBSET PacketIds
    <3> SUFFICES ASSUME NEW t \in Sessions, NEW g \in Frames
                 PROVE  RowAfter(rows[t][g], pending[t][g], up) \in SUBSET PacketIds
      OBVIOUS
    <3>1. rows[t][g] \in SUBSET PacketIds /\ pending[t][g] \in SUBSET PacketIds
      BY DEF TypeOK, BufferTypeOK
    <3>2. QED
      BY <3>1, RowAfterType
  <2>2. QED
    BY <2>1 DEF Deliver, WriteRows, TypeOK
<1>4. delivered' \in [Sessions -> [Frames -> SUBSET PacketIds]]
  BY DEF Deliver, TypeOK
<1>5. high' \in [Sessions -> Frames \cup {NoFrame}]
  BY DEF Deliver, TypeOK
<1>6. excused' \subseteq Keys
  <2>1. AddFlushes(s, f, sweep) \subseteq Keys
    BY DEF AddFlushes, Completed, Stale, Held, Keys
  <2>2. QED
    BY <2>1 DEF Deliver, Broken, AddDrops, Uprooted, NotWritten, TypeOK
<1>7. QED
  BY <1>1, <1>2, <1>3, <1>4, <1>5, <1>6 DEF TypeOK, BufferTypeOK

LEMMA ForgetTypeOK ==
  ASSUME BufferTypeOK, NEW s \in Sessions, ForgetSession(s)
  PROVE  BufferTypeOK'
BY DEF ForgetSession, BufferTypeOK

LEMMA SessionEndedTypeOK ==
  ASSUME TypeOK, NEW s \in Sessions, NEW up \in Outcomes, SessionEnded(s, up)
  PROVE  TypeOK'
<1>1. BufferTypeOK'
  <2>1. CASE Held(s) = {}
    BY <2>1 DEF SessionEnded, FlushSession, bufferVars, TypeOK, BufferTypeOK
  <2>2. CASE Held(s) # {}
    BY <2>2, ForgetTypeOK DEF SessionEnded, FlushSession, TypeOK
  <2>3. QED
    BY <2>1, <2>2
<1>2. rows' \in [Sessions -> [Frames -> SUBSET PacketIds]]
  <2>1. \A t \in Sessions, g \in Frames :
          RowAfter(rows[t][g], pending[t][g], up) \in SUBSET PacketIds
    <3> SUFFICES ASSUME NEW t \in Sessions, NEW g \in Frames
                 PROVE  RowAfter(rows[t][g], pending[t][g], up) \in SUBSET PacketIds
      OBVIOUS
    <3>1. rows[t][g] \in SUBSET PacketIds /\ pending[t][g] \in SUBSET PacketIds
      BY DEF TypeOK, BufferTypeOK
    <3>2. QED
      BY <3>1, RowAfterType
  <2>2. QED
    BY <2>1 DEF SessionEnded, WriteRows, TypeOK
<1>3. excused' \subseteq Keys
  BY DEF SessionEnded, SessionFlushes, Held, Keys, TypeOK
<1>4. QED
  BY <1>1, <1>2, <1>3 DEF SessionEnded, TypeOK

LEMMA FlashbackTypeOK ==
  ASSUME TypeOK, NEW s \in Sessions, NEW undone \in SUBSET Frames, Flashback(s, undone)
  PROVE  TypeOK'
<1>1. BufferTypeOK'
  BY ForgetTypeOK DEF Flashback, DiscardSession, TypeOK
<1>2. rows' \in [Sessions -> [Frames -> SUBSET PacketIds]]
  BY DEF Flashback, TypeOK
<1>3. excused' \subseteq Keys
  BY DEF Flashback, SessionFlushes, Held, Keys, TypeOK
<1>4. QED
  BY <1>1, <1>2, <1>3 DEF Flashback, TypeOK

LEMMA RestartTypeOK ==
  ASSUME TypeOK, Restart
  PROVE  TypeOK'
BY DEF Restart, TypeOK, BufferTypeOK, Keys

LEMMA NextTypeOK == TypeOK /\ [Next]_vars => TypeOK'
<1> SUFFICES ASSUME TypeOK, [Next]_vars PROVE TypeOK'
  OBVIOUS
<1>1. CASE UNCHANGED vars
  BY <1>1 DEF vars, TypeOK, BufferTypeOK
<1>2. CASE \E s \in Sessions, f \in Frames, p \in PacketIds, sweep \in BOOLEAN, up \in Outcomes :
             Deliver(s, f, p, sweep, up)
  BY <1>2, DeliverTypeOK
<1>3. CASE \E s \in Sessions, up \in Outcomes : SessionEnded(s, up)
  BY <1>3, SessionEndedTypeOK
<1>4. CASE \E s \in Sessions, undone \in SUBSET Frames : Flashback(s, undone)
  BY <1>4, FlashbackTypeOK
<1>5. CASE Restart
  BY <1>5, RestartTypeOK
<1>6. QED
  BY <1>1, <1>2, <1>3, <1>4, <1>5 DEF Next

(* The buffer's dictionaries and the rows keep their types, for every      *)
(* capacity and every order of packets (frame_buffer.py, car_frame.py).    *)
THEOREM TypeCorrect == Spec => []TypeOK
BY InitTypeOK, NextTypeOK, PTL DEF Spec

-----------------------------------------------------------------------------
(* The three cases of a key no accident happens to when a packet is added: *)
(* it is the packet's own frame, it is flushed, or it is left alone.       *)
LEMMA DeliverOwnFrame ==
  ASSUME IInv, NEW s \in Sessions, NEW f \in Frames, NEW p \in PacketIds,
         NEW sweep \in BOOLEAN, NEW up \in Outcomes, Deliver(s, f, p, sweep, up),
         <<s, f>> \notin excused'
  PROVE  FrameInv(s, f)'
<1>1. TypeOK /\ FrameInv(s, f) /\ <<s, f>> \notin excused
  BY DEF IInv, Deliver
<1>2. ~Late(s, f)
  BY DEF Deliver, Broken, Keys
<1>3. f \in Int /\ high[s] \in Int /\ high[s] <= f /\ high'[s] = f /\ current'[s] = f
  <2>1. f \in Int /\ high[s] \in Int
    BY <1>1, FrameIsInt DEF TypeOK
  <2>2. high[s] <= f
    BY <1>2, <2>1 DEF Late
  <2>3. high'[s] = f
    BY <1>1, <2>1, <2>2 DEF Deliver, TypeOK
  <2>4. QED
    BY <2>1, <2>2, <2>3 DEF Deliver, Add, CurrentAfter
<1>4. <<s, f>> \notin AddFlushes(s, f, sweep)
  <2>1. <<s, f>> \notin Completed(s, f)
    BY <1>3 DEF Completed
  <2>2. <<s, f>> \notin Stale(s, f)
    BY DEF Stale, CurrentAfter
  <2>3. QED
    BY <2>1, <2>2 DEF AddFlushes
<1>5. <<s, f>> \notin AddDrops(s, f)
  BY DEF Deliver
<1>6. pending'[s][f] = pending[s][f] \cup {p} /\ rows'[s][f] = rows[s][f]
      /\ delivered'[s][f] = delivered[s][f] \cup {p}
  BY <1>1, <1>4, <1>5 DEF Deliver, Add, WriteRows, TypeOK, BufferTypeOK
<1>7. pending[s][f] = delivered[s][f] /\ rows[s][f] = {}
  <2>1. CASE delivered[s][f] = {}
    BY <1>1, <2>1 DEF FrameInv, Whole, WholeRow
  <2>2. CASE delivered[s][f] # {}
    <3>1. pending[s][f] # {}
      BY <1>1, <1>3, <2>2 DEF FrameInv, TypeOK
    <3>2. QED
      BY <1>1, <3>1 DEF FrameInv, Whole
  <2>3. QED
    BY <2>1, <2>2
<1>8. QED
  BY <1>3, <1>6, <1>7 DEF FrameInv, Whole

LEMMA DeliverFlushed ==
  ASSUME IInv, NEW s \in Sessions, NEW f \in Frames, NEW p \in PacketIds,
         NEW sweep \in BOOLEAN, NEW up \in Outcomes, Deliver(s, f, p, sweep, up),
         NEW t \in Sessions, NEW g \in Frames, <<t, g>> # <<s, f>>,
         <<t, g>> \in AddFlushes(s, f, sweep), <<t, g>> \notin excused'
  PROVE  /\ FrameInv(t, g)'
         /\ delivered[t][g] # {}
         /\ delivered'[t][g] = delivered[t][g]
         /\ pending[t][g] # {} /\ pending'[t][g] = {}
         /\ rows'[t][g] = WholeRow(delivered[t][g])
<1>1. TypeOK /\ FrameInv(t, g) /\ <<t, g>> \notin excused
  BY DEF IInv, Deliver
<1>2. up = Tables
  BY DEF Deliver, NotWritten
<1>3. pending[t][g] # {}
  BY AddFlushesHeld
<1>4. pending[t][g] = delivered[t][g] /\ rows[t][g] = {} /\ g = current[t] /\ g = high[t]
  BY <1>1, <1>3 DEF FrameInv, Whole
<1>5. pending'[t][g] = {}
  BY DEF Deliver, Add
<1>6. rows'[t][g] = WholeRow(delivered[t][g])
  <2>1. rows'[t][g] = RowAfter({}, delivered[t][g], Tables)
    BY <1>2, <1>4 DEF Deliver, WriteRows
  <2>2. QED
    BY <1>1, <2>1, RowOfWholeBatch DEF TypeOK
<1>7. delivered'[t][g] = delivered[t][g]
  BY <1>1 DEF Deliver, TypeOK
<1>8. t = s
  <2> SUFFICES ASSUME t # s PROVE FALSE
    OBVIOUS
  <2>1. <<t, g>> \in Stale(s, f)
    BY DEF AddFlushes, Completed
  <2>2. t \in CurrentEvicted(s)
    BY <1>4, <2>1 DEF Stale, CurrentAfter
  <2>3. <<t, g>> \in Uprooted(s)
    BY <1>4, <2>2 DEF Uprooted, Keys
  <2>4. QED
    BY <2>3 DEF Deliver
<1>9. g < high'[t]
  <2>1. ~Late(s, f)
    BY <1>4, <1>8 DEF Deliver, Broken, Keys
  <2>2. f > g
    <3>1. f \in Int /\ g \in Int
      BY FrameIsInt
    <3>2. f >= g /\ f # g
      BY <1>4, <1>8, <2>1, <3>1 DEF Late
    <3>3. QED
      BY <3>1, <3>2
  <2>3. high'[s] = f
    BY <1>1, <1>4, <1>8, <2>2 DEF Deliver, TypeOK
  <2>4. QED
    BY <1>8, <2>2, <2>3
<1>10. QED
  BY <1>3, <1>4, <1>5, <1>6, <1>7, <1>9 DEF FrameInv, Whole

LEMMA DeliverUntouched ==
  ASSUME IInv, NEW s \in Sessions, NEW f \in Frames, NEW p \in PacketIds,
         NEW sweep \in BOOLEAN, NEW up \in Outcomes, Deliver(s, f, p, sweep, up),
         NEW t \in Sessions, NEW g \in Frames, <<t, g>> # <<s, f>>,
         <<t, g>> \notin AddFlushes(s, f, sweep), <<t, g>> \notin excused'
  PROVE  /\ FrameInv(t, g)'
         /\ delivered'[t][g] = delivered[t][g]
         /\ pending'[t][g] = pending[t][g]
         /\ rows'[t][g] = rows[t][g]
<1>1. TypeOK /\ FrameInv(t, g) /\ <<t, g>> \notin excused
  BY DEF IInv, Deliver
<1>2. pending'[t][g] = pending[t][g]
  <2>1. <<t, g>> \notin AddDrops(s, f) /\ ~(t = s /\ g = f)
    BY DEF Deliver
  <2>2. QED
    BY <1>1, <2>1 DEF Deliver, Add, TypeOK, BufferTypeOK
<1>3. delivered'[t][g] = delivered[t][g] /\ rows'[t][g] = rows[t][g]
  BY <1>1 DEF Deliver, WriteRows, TypeOK
<1>4. /\ high[t] \in Int /\ high'[t] \in Int
      /\ high[t] <= high'[t]
      /\ t # s => high'[t] = high[t]
  <2>1. high \in [Sessions -> Frames \cup {NoFrame}] /\ f \in Int
    BY <1>1, FrameIsInt DEF TypeOK
  <2>2. high' = [high EXCEPT ![s] = IF f > high[s] THEN f ELSE high[s]]
    BY DEF Deliver
  <2>3. high[t] \in Int /\ high[s] \in Int
    BY <2>1, FrameIsInt
  <2>4. CASE t = s
    BY <2>1, <2>2, <2>3, <2>4
  <2>5. CASE t # s
    BY <2>1, <2>2, <2>3, <2>5
  <2>6. QED
    BY <2>3, <2>4, <2>5
<1>5. ASSUME pending[t][g] # {}
      PROVE  g = current'[t] /\ g = high'[t]
  <2>1. g = current[t] /\ g = high[t]
    BY <1>1, <1>5 DEF FrameInv
  <2>2. t # s
    <3> SUFFICES ASSUME t = s PROVE FALSE
      OBVIOUS
    <3>1. ~Late(s, f)
      BY <2>1 DEF Deliver, Broken, Keys
    <3>2. f > g
      <4>1. f \in Int /\ g \in Int
        BY FrameIsInt
      <4>2. f >= g /\ f # g
        BY <2>1, <3>1, <4>1 DEF Late
      <4>3. QED
        BY <4>1, <4>2
    <3>3. <<t, g>> \in Completed(s, f)
      BY <1>5, <2>1, <3>2 DEF Completed, Held
    <3>4. QED
      BY <3>3 DEF AddFlushes
  <2>3. t \notin CurrentEvicted(s)
    BY <2>1 DEF Deliver, Uprooted, Keys
  <2>4. QED
    BY <1>4, <2>1, <2>2, <2>3 DEF Deliver, Add, CurrentAfter
<1>6. ASSUME delivered[t][g] # {}, pending[t][g] = {}
      PROVE  g < high'[t]
  <2>1. g < high[t]
    BY <1>1, <1>6 DEF FrameInv
  <2>2. g \in Int
    BY FrameIsInt
  <2>3. QED
    BY <1>4, <2>1, <2>2
<1>7. Whole(t, g)'
  BY <1>1, <1>2, <1>3 DEF FrameInv, Whole
<1>8. QED
  BY <1>2, <1>3, <1>5, <1>6, <1>7 DEF FrameInv

LEMMA DeliverIInv ==
  ASSUME IInv, NEW s \in Sessions, NEW f \in Frames, NEW p \in PacketIds,
         NEW sweep \in BOOLEAN, NEW up \in Outcomes, Deliver(s, f, p, sweep, up)
  PROVE  IInv'
<1>1. TypeOK'
  BY DeliverTypeOK DEF IInv
<1>2. ASSUME NEW t \in Sessions, NEW g \in Frames, <<t, g>> \notin excused'
      PROVE  FrameInv(t, g)'
  <2>1. CASE <<t, g>> = <<s, f>>
    BY <1>2, <2>1, DeliverOwnFrame
  <2>2. CASE <<t, g>> # <<s, f>> /\ <<t, g>> \in AddFlushes(s, f, sweep)
    BY <1>2, <2>2, DeliverFlushed
  <2>3. CASE <<t, g>> # <<s, f>> /\ <<t, g>> \notin AddFlushes(s, f, sweep)
    BY <1>2, <2>3, DeliverUntouched
  <2>4. QED
    BY <2>1, <2>2, <2>3
<1>3. QED
  BY <1>1, <1>2 DEF IInv, FrameInv

(* The other operations touch only keys they put into excused. *)
LEMMA ForgetFrame ==
  ASSUME TypeOK, NEW s \in Sessions, ForgetSession(s),
         NEW t \in Sessions, NEW g \in Frames, <<t, g>> \notin SessionFlushes(s)
  PROVE  /\ pending'[t][g] = pending[t][g]
         /\ pending[t][g] # {} => current'[t] = current[t]
<1>1. t = s => pending[t][g] = {}
  BY DEF SessionFlushes, Held
<1>2. QED
  BY <1>1 DEF ForgetSession, TypeOK, BufferTypeOK

LEMMA SessionEndedFrame ==
  ASSUME IInv, NEW s \in Sessions, NEW up \in Outcomes, SessionEnded(s, up),
         NEW t \in Sessions, NEW g \in Frames, <<t, g>> \notin excused'
  PROVE  /\ FrameInv(t, g)'
         /\ delivered'[t][g] = delivered[t][g]
         /\ pending'[t][g] = pending[t][g]
         /\ rows'[t][g] = rows[t][g]
<1>1. TypeOK /\ FrameInv(t, g) /\ <<t, g>> \notin excused /\ <<t, g>> \notin SessionFlushes(s)
  BY DEF IInv, SessionEnded
<1>2. /\ pending'[t][g] = pending[t][g]
      /\ pending[t][g] # {} => current'[t] = current[t]
  <2>1. CASE Held(s) = {}
    BY <2>1 DEF SessionEnded, FlushSession, bufferVars
  <2>2. CASE Held(s) # {}
    BY <1>1, <2>2, ForgetFrame DEF SessionEnded, FlushSession
  <2>3. QED
    BY <2>1, <2>2
<1>3. delivered' = delivered /\ high' = high /\ rows'[t][g] = rows[t][g]
  BY <1>1 DEF SessionEnded, WriteRows
<1>4. QED
  BY <1>1, <1>2, <1>3 DEF FrameInv, Whole

LEMMA FlashbackFrame ==
  ASSUME IInv, NEW s \in Sessions, NEW undone \in SUBSET Frames, Flashback(s, undone),
         NEW t \in Sessions, NEW g \in Frames, <<t, g>> \notin excused'
  PROVE  /\ FrameInv(t, g)'
         /\ delivered'[t][g] = delivered[t][g]
         /\ pending'[t][g] = pending[t][g]
         /\ rows'[t][g] = rows[t][g]
<1>1. /\ TypeOK /\ FrameInv(t, g) /\ <<t, g>> \notin excused
      /\ <<t, g>> \notin SessionFlushes(s)
      /\ <<t, g>> \notin {s} \X undone
  BY DEF IInv, Flashback
<1>2. /\ pending'[t][g] = pending[t][g]
      /\ pending[t][g] # {} => current'[t] = current[t]
  BY <1>1, ForgetFrame DEF Flashback, DiscardSession
<1>3. delivered' = delivered /\ high' = high /\ rows'[t][g] = rows[t][g]
  BY <1>1 DEF Flashback, TypeOK
<1>4. QED
  BY <1>1, <1>2, <1>3 DEF FrameInv, Whole

LEMMA RestartFrame ==
  ASSUME IInv, Restart, NEW t \in Sessions, NEW g \in Frames, <<t, g>> \notin excused'
  PROVE  /\ FrameInv(t, g)'
         /\ delivered'[t][g] = delivered[t][g]
         /\ pending'[t][g] = pending[t][g]
         /\ rows'[t][g] = rows[t][g]
<1>1. FrameInv(t, g) /\ <<t, g>> \notin excused /\ pending[t][g] = {}
  BY DEF IInv, Restart, Held, Keys
<1>2. QED
  BY <1>1 DEF Restart, FrameInv, Whole

LEMMA InitIInv == Init => IInv
BY InitTypeOK DEF Init, BufferInit, IInv, FrameInv, Whole

LEMMA NextIInv == IInv /\ [Next]_vars => IInv'
<1> SUFFICES ASSUME IInv, [Next]_vars PROVE IInv'
  OBVIOUS
<1>1. TypeOK'
  BY NextTypeOK DEF IInv
<1>2. CASE UNCHANGED vars
  BY <1>1, <1>2 DEF vars, IInv, FrameInv, Whole
<1>3. CASE \E s \in Sessions, f \in Frames, p \in PacketIds, sweep \in BOOLEAN, up \in Outcomes :
             Deliver(s, f, p, sweep, up)
  BY <1>3, DeliverIInv
<1>4. CASE \E s \in Sessions, up \in Outcomes : SessionEnded(s, up)
  <2>1. \A t \in Sessions, g \in Frames : <<t, g>> \notin excused' => FrameInv(t, g)'
    BY <1>4, SessionEndedFrame
  <2>2. QED
    BY <1>1, <2>1 DEF IInv, FrameInv
<1>5. CASE \E s \in Sessions, undone \in SUBSET Frames : Flashback(s, undone)
  <2>1. \A t \in Sessions, g \in Frames : <<t, g>> \notin excused' => FrameInv(t, g)'
    BY <1>5, FlashbackFrame
  <2>2. QED
    BY <1>1, <2>1 DEF IInv, FrameInv
<1>6. CASE Restart
  <2>1. \A t \in Sessions, g \in Frames : <<t, g>> \notin excused' => FrameInv(t, g)'
    BY <1>6, RestartFrame
  <2>2. QED
    BY <1>1, <2>1 DEF IInv, FrameInv
<1>7. QED
  BY <1>2, <1>3, <1>4, <1>5, <1>6 DEF Next

LEMMA InductiveInvariant == Spec => []IInv
BY InitIInv, NextIInv, PTL DEF Spec

(* Every frame no accident happened to is recorded whole, for any number   *)
(* of sessions, frames and packet kinds (frame_buffer.py 38-118).          *)
THEOREM FramesRecordedWhole == Spec => []RowsAreWhole
<1>1. IInv => RowsAreWhole
  BY DEF IInv, FrameInv, RowsAreWhole
<1>2. QED
  BY <1>1, InductiveInvariant, PTL

(* What the buffer holds back is the newest frame of a session, so no      *)
(* sweep takes a frame that is still being assembled in order.             *)
THEOREM BufferHoldsNewest == Spec => []OnlyNewestPending
<1>1. IInv => OnlyNewestPending
  BY DEF IInv, FrameInv, OnlyNewestPending
<1>2. QED
  BY <1>1, InductiveInvariant, PTL

(* A frame once written is older than its session's newest, so that only a *)
(* late packet can reopen it.                                              *)
THEOREM ClosedFramesArePast == Spec => []ClosedIsPast
<1>1. IInv => ClosedIsPast
  BY DEF IInv, FrameInv, ClosedIsPast
<1>2. QED
  BY <1>1, InductiveInvariant, PTL

-----------------------------------------------------------------------------
(* Refinement: every step of the buffer is, for every key still promised,  *)
(* a step of FrameLog or no step at all.                                   *)
LogStep(k) == Log!Untouched(k) \/ Log!Collects(k) \/ Log!Closes(k)

LEMMA SameFrameIsUntouched ==
  ASSUME NEW t \in Sessions, NEW g \in Frames,
         delivered'[t][g] = delivered[t][g],
         pending'[t][g] = pending[t][g],
         rows'[t][g] = rows[t][g]
  PROVE  LogStep(<<t, g>>)
BY DEF LogStep, Log!Untouched, Closed, Keys

LEMMA DeliverRefines ==
  ASSUME IInv, NEW s \in Sessions, NEW f \in Frames, NEW p \in PacketIds,
         NEW sweep \in BOOLEAN, NEW up \in Outcomes, Deliver(s, f, p, sweep, up),
         NEW t \in Sessions, NEW g \in Frames, <<t, g>> \notin excused'
  PROVE  LogStep(<<t, g>>)
<1>1. CASE <<t, g>> = <<s, f>>
  <2>1. FrameInv(s, f) /\ FrameInv(s, f)' /\ <<s, f>> \notin excused
    BY <1>1, DeliverOwnFrame DEF IInv, Deliver
  <2>2. /\ delivered'[s][f] = delivered[s][f] \cup {p}
        /\ p \in pending'[s][f]
    BY DEF Deliver, Add, IInv, TypeOK
  <2>3. f = high'[s]
    BY <1>1, <2>1, <2>2 DEF FrameInv
  <2>4. ~(delivered[s][f] # {} /\ pending[s][f] = {})
    <3>1. high[s] <= high'[s] /\ f \in Int /\ high[s] \in Int
      <4>1. f \in Int /\ high[s] \in Int
        BY FrameIsInt DEF IInv, TypeOK
      <4>2. QED
        BY <4>1 DEF Deliver, IInv, TypeOK
    <3>2. QED
      BY <2>1, <2>3, <3>1 DEF FrameInv
  <2>5. rows'[s][f] = {}
    BY <1>1, <2>1, <2>2 DEF FrameInv, Whole
  <2>6. Log!Collects(<<s, f>>)
    BY <2>2, <2>4, <2>5 DEF Log!Collects, Closed, Keys
  <2>7. QED
    BY <1>1, <2>6 DEF LogStep
<1>2. CASE <<t, g>> # <<s, f>> /\ <<t, g>> \in AddFlushes(s, f, sweep)
  <2>1. /\ delivered[t][g] # {}
        /\ delivered'[t][g] = delivered[t][g]
        /\ pending[t][g] # {} /\ pending'[t][g] = {}
        /\ rows'[t][g] = WholeRow(delivered[t][g])
    BY <1>2, DeliverFlushed
  <2>2. Log!Closes(<<t, g>>)
    BY <2>1 DEF Log!Closes, Log!RowOf, WholeRow, Closed, Keys
  <2>3. QED
    BY <2>2 DEF LogStep
<1>3. CASE <<t, g>> # <<s, f>> /\ <<t, g>> \notin AddFlushes(s, f, sweep)
  BY <1>3, DeliverUntouched, SameFrameIsUntouched
<1>4. QED
  BY <1>1, <1>2, <1>3

LEMMA NextExcused == TypeOK /\ Next => excused \subseteq excused'
BY DEF Next, Deliver, SessionEnded, Flashback, Restart

LEMMA NextRefines == IInv /\ Next => Log!LogNext
<1> SUFFICES ASSUME IInv, Next PROVE Log!LogNext
  OBVIOUS
<1>1. ASSUME NEW t \in Sessions, NEW g \in Frames, <<t, g>> \notin excused'
      PROVE  LogStep(<<t, g>>)
  <2>1. CASE \E s \in Sessions, f \in Frames, p \in PacketIds, sweep \in BOOLEAN, up \in Outcomes :
               Deliver(s, f, p, sweep, up)
    BY <1>1, <2>1, DeliverRefines
  <2>2. CASE \E s \in Sessions, up \in Outcomes : SessionEnded(s, up)
    BY <1>1, <2>2, SessionEndedFrame, SameFrameIsUntouched
  <2>3. CASE \E s \in Sessions, undone \in SUBSET Frames : Flashback(s, undone)
    BY <1>1, <2>3, FlashbackFrame, SameFrameIsUntouched
  <2>4. CASE Restart
    BY <1>1, <2>4, RestartFrame, SameFrameIsUntouched
  <2>5. QED
    BY <2>1, <2>2, <2>3, <2>4 DEF Next
<1>2. ASSUME NEW k \in Keys \ excused'
      PROVE  LogStep(k)
  <2>1. PICK t \in Sessions, g \in Frames : k = <<t, g>>
    BY DEF Keys
  <2>2. QED
    BY <1>1, <2>1
<1>3. QED
  BY <1>2, NextExcused DEF IInv, Log!LogNext, LogStep

(* The frame buffer with its callers implements FrameLog: a frame is       *)
(* closed at most once, by a row with all its packets, and that row is     *)
(* final (frame_buffer.py 38-118, dispatcher.py 405-488).                  *)
THEOREM RefinesFrameLog == Spec => ImplementsFrameLog
<1>1. Init => Log!LogInit
  BY DEF Init, Log!LogInit, Closed, Keys
<1>2. IInv /\ [Next]_vars => [Log!LogNext]_<<rows, delivered, Closed, excused>>
  <2>1. UNCHANGED vars => UNCHANGED <<rows, delivered, Closed, excused>>
    BY DEF vars, Closed, Keys
  <2>2. QED
    BY <2>1, NextRefines
<1>3. QED
  BY <1>1, <1>2, InductiveInvariant, PTL DEF Spec, ImplementsFrameLog, Log!LogSpec

(* What the promise gives a reader of the tables: once the packets of a    *)
(* frame have left the buffer, no later packet, sweep, end of a session or *)
(* restart opens it again or changes its row, unless something happened to *)
(* it (car_frame.sql:8-11, base.py 132-169).                               *)
RowsFinal ==
  \A k \in Keys \ excused' :
    k \in Closed => k \in Closed' /\ rows'[k[1]][k[2]] = rows[k[1]][k[2]]

THEOREM ClosedFramesFinal == Spec => [][RowsFinal]_vars
<1>1. IInv /\ [Next]_vars => [RowsFinal]_vars
  <2> SUFFICES ASSUME IInv, Next PROVE RowsFinal
    OBVIOUS
  <2>1. Log!LogNext
    BY NextRefines
  <2>2. QED
    BY <2>1 DEF RowsFinal, Log!LogNext, Log!Untouched, Log!Collects, Log!Closes
<1>2. QED
  BY <1>1, InductiveInvariant, PTL DEF Spec

-----------------------------------------------------------------------------
(* The order of the keys of a BoundedDict that holds just those of S. *)
OrderOf(order, S) ==
  /\ order \in Seq(Sessions)
  /\ Len(order) <= MaxSessions
  /\ \A i, j \in 1..Len(order) : order[i] = order[j] => i = j
  /\ \A s \in Sessions : (\E i \in 1..Len(order) : order[i] = s) <=> s \in S

LEMMA EmptyOrder == OrderOf(<< >>, {})
BY MaxSessionsAssumption DEF OrderOf

(* Popping keys from a dict. *)
LEMMA WithoutOrder ==
  ASSUME NEW S, NEW order, OrderOf(order, S), NEW popped
  PROVE  /\ OrderOf(Without(order, popped), S \ popped)
         /\ \A s \in Sessions : s \in S \cap popped => Len(Without(order, popped)) < Len(order)
<1>0. PICK r : r = Filtered(order, popped)
  OBVIOUS
<1>1. Without(order, popped) = r
  BY <1>0 DEF Without, Filtered
<1>2. order \in Seq(Sessions)
  BY DEF OrderOf
<1>3. r \in Seq(Sessions) /\ Keeps(r, order, popped)
  BY <1>0, <1>2, FilteredKeeps
<1>4. Len(r) <= MaxSessions
  BY <1>2, <1>3, MaxSessionsAssumption DEF OrderOf, Keeps
<1>5. \A s \in Sessions : (\E i \in 1..Len(r) : r[i] = s) <=> s \in S \ popped
  BY <1>3 DEF OrderOf, Keeps
<1>6. OrderOf(r, S \ popped)
  BY <1>3, <1>4, <1>5 DEF OrderOf, Keeps
<1>7. \A s \in Sessions : s \in S \cap popped => Len(r) < Len(order)
  BY <1>3 DEF OrderOf, Keeps
<1>8. QED
  BY <1>1, <1>6, <1>7

LEMMA WithoutShorter ==
  ASSUME NEW S, NEW order, OrderOf(order, S), NEW popped
  PROVE  Len(Without(order, popped)) <= Len(order)
<1>1. order \in Seq(Sessions)
  BY DEF OrderOf
<1>2. Len(Filtered(order, popped)) <= Len(order)
  BY <1>1, FilteredKeeps DEF Keeps
<1>3. QED
  BY <1>2 DEF Without, Filtered

(* A new key at the end of a dict with room for it. *)
LEMMA AppendOrder ==
  ASSUME NEW S, NEW order, OrderOf(order, S), Len(order) < MaxSessions,
         NEW s \in Sessions, s \notin S
  PROVE  OrderOf(Append(order, s), S \cup {s})
<1> DEFINE r == Append(order, s)
<1>1. /\ order \in Seq(Sessions) /\ r \in Seq(Sessions)
      /\ Len(order) \in Nat /\ Len(r) = Len(order) + 1 /\ r[Len(order) + 1] = s
      /\ \A i \in 1..Len(order) : r[i] = order[i]
  BY DEF OrderOf
<1> HIDE DEF r
<1>2. \A i : i \in 1..Len(r) <=> i \in 1..Len(order) \/ i = Len(order) + 1
  BY <1>1
<1>3. \A i \in 1..Len(order) : order[i] # s
  BY DEF OrderOf
<1>4. Len(r) <= MaxSessions
  BY <1>1, MaxSessionsAssumption
<1>5. \A i, j \in 1..Len(r) : r[i] = r[j] => i = j
  BY <1>1, <1>2, <1>3 DEF OrderOf
<1>6. \A t \in Sessions : (\E i \in 1..Len(r) : r[i] = t) <=> t \in S \cup {s}
  BY <1>1, <1>2 DEF OrderOf
<1>7. QED
  BY <1>1, <1>4, <1>5, <1>6 DEF OrderOf, r

(* Popping the oldest key. *)
LEMMA TailOrder ==
  ASSUME NEW S, NEW order, OrderOf(order, S), Len(order) > 0
  PROVE  /\ OrderOf(Tail(order), S \ {Head(order)})
         /\ Len(Tail(order)) < MaxSessions
<1> DEFINE r == Tail(order)
<1>1. /\ order \in Seq(Sessions) /\ r \in Seq(Sessions) /\ order # << >>
      /\ Len(order) \in Nat /\ Len(r) = Len(order) - 1 /\ Head(order) = order[1]
      /\ \A i \in 1..Len(r) : r[i] = order[i + 1]
  BY DEF OrderOf
<1> HIDE DEF r
<1>2. Len(r) < MaxSessions
  BY <1>1, MaxSessionsAssumption DEF OrderOf
<1>3. \A i, j \in 1..Len(r) : r[i] = r[j] => i = j
  <2> SUFFICES ASSUME NEW i \in 1..Len(r), NEW j \in 1..Len(r), r[i] = r[j] PROVE i = j
    OBVIOUS
  <2>1. i + 1 \in 1..Len(order) /\ j + 1 \in 1..Len(order) /\ order[i + 1] = order[j + 1]
    BY <1>1
  <2>2. QED
    BY <1>1, <2>1 DEF OrderOf
<1>4. ASSUME NEW t \in Sessions
      PROVE  (\E i \in 1..Len(r) : r[i] = t) <=> t \in S \ {Head(order)}
  <2>1. ASSUME NEW i \in 1..Len(r), r[i] = t
        PROVE  t \in S /\ t # order[1]
    <3>1. i + 1 \in 1..Len(order) /\ 1 \in 1..Len(order) /\ i + 1 # 1 /\ order[i + 1] = t
      BY <1>1, <2>1
    <3>2. QED
      BY <3>1 DEF OrderOf
  <2>2. ASSUME t \in S, t # order[1]
        PROVE  \E i \in 1..Len(r) : r[i] = t
    <3>1. PICK i \in 1..Len(order) : order[i] = t
      BY <2>2 DEF OrderOf
    <3>2. i - 1 \in 1..Len(r) /\ i - 1 + 1 = i
      BY <1>1, <2>2, <3>1
    <3>3. r[i - 1] = t
      BY <1>1, <3>1, <3>2
    <3>4. QED
      BY <3>2, <3>3
  <2>3. QED
    BY <1>1, <2>1, <2>2
<1>5. Len(r) <= MaxSessions
  BY <1>1, <1>2, MaxSessionsAssumption
<1>6. OrderOf(r, S \ {Head(order)})
  BY <1>1, <1>3, <1>4, <1>5 DEF OrderOf
<1>7. QED
  BY <1>2, <1>6 DEF r

(* BoundedDict.__setitem__ (bounded_dict.py 23-30). *)
LEMMA SetItemOrder ==
  ASSUME NEW S, NEW order, OrderOf(order, S), NEW s \in Sessions
  PROVE  OrderOf(SetItem(order, s), (S \ Evicted(order, s)) \cup {s})
<1>1. Contains(order, s) <=> s \in S
  BY DEF Contains, OrderOf
<1>2. Len(order) \in Nat /\ Len(order) <= MaxSessions
  BY DEF OrderOf
<1> DEFINE room == IF Evicted(order, s) = {} THEN order ELSE Tail(order)
           R == S \ Evicted(order, s)
<1>3. OrderOf(room, R) /\ (s \notin S => Len(room) < MaxSessions)
  <2>1. CASE ~Contains(order, s) /\ Len(order) >= MaxSessions
    <3>1. Evicted(order, s) = {Head(order)} /\ Len(order) > 0
      BY <1>2, <2>1, MaxSessionsAssumption DEF Evicted
    <3>2. QED
      BY <3>1, TailOrder
  <2>2. CASE ~(~Contains(order, s) /\ Len(order) >= MaxSessions)
    <3>1. Evicted(order, s) = {} /\ S \ {} = S
      BY <2>2 DEF Evicted
    <3>2. s \notin S => Len(order) < MaxSessions
      BY <1>1, <1>2, <2>2, MaxSessionsAssumption
    <3>3. room = order /\ R = S
      BY <3>1
    <3>4. QED
      BY <3>2, <3>3
  <2>3. QED
    BY <2>1, <2>2
<1>4. s \in S => R = S
  BY <1>1 DEF Evicted
<1> DEFINE w == Without(room, {s})
<1>5. SetItem(order, s) = Append(w, s)
  BY DEF SetItem
<1> HIDE DEF room, R
<1>6. /\ OrderOf(w, R \ {s})
      /\ s \in R => Len(w) < Len(room)
  BY <1>3, WithoutOrder
<1> HIDE DEF w
<1>7. Len(w) < MaxSessions
  <2>1. Len(w) \in Nat /\ Len(room) \in Nat /\ Len(room) <= MaxSessions
    BY <1>3, <1>6 DEF OrderOf
  <2>2. CASE s \in S
    BY <1>4, <1>6, <2>1, <2>2, MaxSessionsAssumption
  <2>3. CASE s \notin S
    <3>1. R \ {s} = R /\ Len(room) < MaxSessions
      BY <1>3, <2>3 DEF R
    <3>2. Len(w) <= Len(room)
      BY <1>3, WithoutShorter DEF w
    <3>3. QED
      BY <2>1, <3>1, <3>2, MaxSessionsAssumption
  <2>4. QED
    BY <2>2, <2>3
<1>8. OrderOf(Append(w, s), (R \ {s}) \cup {s})
  BY <1>6, <1>7, AppendOrder
<1>9. (R \ {s}) \cup {s} = (S \ Evicted(order, s)) \cup {s}
  BY DEF R
<1>10. QED
  BY <1>5, <1>8, <1>9

-----------------------------------------------------------------------------
(* The two dicts of the buffer and what their keys stand for. *)
Filled == {s \in Sessions : Held(s) # {}}
Timed  == {s \in Sessions : current[s] # NoFrame}

DictInv == TypeOK /\ OrderOf(frameOrder, Filled) /\ OrderOf(currentOrder, Timed)

LEMMA InitDict == Init => DictInv
<1> SUFFICES ASSUME Init PROVE DictInv
  OBVIOUS
<1>1. Filled = {} /\ Timed = {}
  BY DEF Init, BufferInit, Filled, Timed, Held
<1>2. QED
  BY <1>1, InitTypeOK, EmptyOrder DEF Init, BufferInit, DictInv

(* _frames.pop and _current_frame.pop (frame_buffer.py 86-87, 97-98). *)
LEMMA ForgetDict ==
  ASSUME DictInv, NEW s \in Sessions, ForgetSession(s)
  PROVE  OrderOf(frameOrder, Filled)' /\ OrderOf(currentOrder, Timed)'
<1>1. Filled' = Filled \ {s}
  BY DEF ForgetSession, Filled, Held, DictInv, TypeOK, BufferTypeOK
<1>2. Timed' = Timed \ {s}
  BY DEF ForgetSession, Timed, DictInv, TypeOK, BufferTypeOK
<1>3. OrderOf(Without(frameOrder, {s}), Filled \ {s})
  BY WithoutOrder DEF DictInv
<1>4. OrderOf(Without(currentOrder, {s}), Timed \ {s})
  BY WithoutOrder DEF DictInv
<1>5. OrderOf(frameOrder', Filled') /\ OrderOf(currentOrder', Timed')
  BY <1>1, <1>2, <1>3, <1>4 DEF ForgetSession
<1>6. QED
  BY <1>5 DEF OrderOf

(* add and the sweep (frame_buffer.py 38-75). *)
LEMMA AddCurrentOrder ==
  ASSUME DictInv, NEW s \in Sessions, NEW f \in Frames, NEW p \in PacketIds,
         NEW sweep \in BOOLEAN, Add(s, f, p, sweep)
  PROVE  OrderOf(currentOrder', Timed')
<1>1. OrderOf(SetItem(currentOrder, s), (Timed \ Evicted(currentOrder, s)) \cup {s})
  BY SetItemOrder DEF DictInv
<1>2. f # NoFrame
  BY FramesAssumption DEF NoFrame
<1>3. Timed' = (Timed \ Evicted(currentOrder, s)) \cup {s}
  BY <1>2 DEF Add, CurrentAfter, CurrentEvicted, Timed
<1>4. QED
  BY <1>1, <1>3 DEF Add

LEMMA AddFrameOrder ==
  ASSUME DictInv, NEW s \in Sessions, NEW f \in Frames, NEW p \in PacketIds,
         NEW sweep \in BOOLEAN, Add(s, f, p, sweep)
  PROVE  OrderOf(frameOrder', Filled')
<1> DEFINE order == OrderAfterFlush(s, f)
           left == IF {s} \X Held(s) \subseteq Completed(s, f) THEN Filled \ {s} ELSE Filled
           added == IF Contains(order, s) THEN order ELSE SetItem(order, s)
           empty == {t \in Sessions : \A g \in Frames : pending'[t][g] = {}}
           full == (left \ FramesEvicted(s, f)) \cup {s}
<1>1. OrderOf(order, left)
  <2>1. OrderOf(Without(frameOrder, {s}), Filled \ {s})
    BY WithoutOrder DEF DictInv
  <2>2. QED
    BY <2>1 DEF DictInv, OrderAfterFlush
<1>2. FramesEvicted(s, f) = Evicted(order, s)
  BY DEF FramesEvicted
<1> HIDE DEF order, left
<1>3. OrderOf(added, full)
  <2>1. Contains(order, s) <=> s \in left
    BY <1>1 DEF Contains, OrderOf
  <2>2. CASE Contains(order, s)
    <3>1. Evicted(order, s) = {}
      BY <2>2 DEF Evicted
    <3>2. full = left /\ added = order
      BY <1>2, <2>1, <2>2, <3>1
    <3>3. QED
      BY <1>1, <3>2
  <2>3. CASE ~Contains(order, s)
    BY <1>1, <1>2, <2>3, SetItemOrder
  <2>4. QED
    BY <2>2, <2>3
<1>4. frameOrder' = Without(added, empty)
  BY DEF Add, order
<1> HIDE DEF added
<1>5. OrderOf(frameOrder', full \ empty)
  BY <1>3, <1>4, WithoutOrder
<1>6. ASSUME NEW t \in Sessions, t \notin empty
      PROVE  t \in full
  <2>1. PICK g \in Frames : pending'[t][g] # {}
    BY <1>6
  <2>2. CASE t = s
    BY <2>2
  <2>3. CASE t # s
    <3>1. pending[t][g] # {} /\ <<t, g>> \notin AddDrops(s, f)
      BY <2>1, <2>3 DEF Add
    <3>2. g \in Held(t)
      BY <3>1 DEF Held
    <3>3. t \notin FramesEvicted(s, f)
      BY <3>1, <3>2 DEF AddDrops, Keys
    <3>4. t \in left
      BY <2>3, <3>2 DEF left, Filled
    <3>5. QED
      BY <3>3, <3>4
  <2>4. QED
    BY <2>2, <2>3
<1>7. Filled' = Sessions \ empty
  BY DEF Filled, Held
<1>8. full \subseteq Sessions
  BY DEF left, Filled
<1>9. Filled' = full \ empty
  BY <1>6, <1>7, <1>8
<1>10. QED
  BY <1>5, <1>9

LEMMA DeliverDict ==
  ASSUME DictInv, NEW s \in Sessions, NEW f \in Frames, NEW p \in PacketIds,
         NEW sweep \in BOOLEAN, NEW up \in Outcomes, Deliver(s, f, p, sweep, up)
  PROVE  OrderOf(frameOrder, Filled)' /\ OrderOf(currentOrder, Timed)'
<1>1. OrderOf(frameOrder', Filled') /\ OrderOf(currentOrder', Timed')
  BY AddFrameOrder, AddCurrentOrder DEF Deliver
<1>2. QED
  BY <1>1 DEF OrderOf

LEMMA StepDict == DictInv /\ [Next]_vars => DictInv'
<1> SUFFICES ASSUME DictInv, [Next]_vars PROVE DictInv'
  OBVIOUS
<1>1. TypeOK'
  BY NextTypeOK DEF DictInv
<1> SUFFICES OrderOf(frameOrder, Filled)' /\ OrderOf(currentOrder, Timed)'
  BY <1>1 DEF DictInv
<1>2. ASSUME UNCHANGED bufferVars
      PROVE  OrderOf(frameOrder, Filled)' /\ OrderOf(currentOrder, Timed)'
  BY <1>2 DEF bufferVars, DictInv, OrderOf, Filled, Timed, Held
<1>3. CASE UNCHANGED vars
  BY <1>2, <1>3 DEF vars, bufferVars
<1>4. CASE \E s \in Sessions, f \in Frames, p \in PacketIds, sweep \in BOOLEAN, up \in Outcomes :
             Deliver(s, f, p, sweep, up)
  BY <1>4, DeliverDict
<1>5. CASE \E s \in Sessions, up \in Outcomes : SessionEnded(s, up)
  BY <1>2, <1>5, ForgetDict DEF SessionEnded, FlushSession
<1>6. CASE \E s \in Sessions, undone \in SUBSET Frames : Flashback(s, undone)
  BY <1>6, ForgetDict DEF Flashback, DiscardSession
<1>7. CASE Restart
  <2>1. Filled' = {} /\ Timed' = {} /\ frameOrder' = << >> /\ currentOrder' = << >>
    BY <1>7 DEF Restart, Filled, Timed, Held
  <2>2. OrderOf(frameOrder', Filled') /\ OrderOf(currentOrder', Timed')
    BY <2>1, EmptyOrder
  <2>3. QED
    BY <2>2 DEF OrderOf
<1>8. QED
  BY <1>3, <1>4, <1>5, <1>6, <1>7 DEF Next

(* The buffer's two dicts never hold more than MAX_SESSIONS sessions, a    *)
(* session once, and just those with packets or a current frame, for any   *)
(* capacity and whatever is evicted (frame_buffer.py 21-36, 111-112,       *)
(* bounded_dict.py).                                                       *)
THEOREM DictsBounded == Spec => []DictOK
<1>1. DictInv => DictOK
  BY DEF DictInv, OrderOf, DictOK, Filled, Timed, IsInjective, Contains
<1>2. QED
  BY <1>1, InitDict, StepDict, PTL DEF Spec
=============================================================================
