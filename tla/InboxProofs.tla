---------------------------- MODULE InboxProofs -----------------------------
(* What follows from the promise alone. *)
EXTENDS Inbox, TLAPS

(* Whoever keeps the promise hands datagrams on in the order they came,    *)
(* and none twice: what waits is ascending and newer than what was begun.  *)
THEOREM InboxOrdered == InboxSpec => []Ordered
  <1>1. InboxInit => Ordered
    BY DEF InboxInit, Ordered
  <1>2. Ordered /\ [InboxNext]_inboxVars => Ordered'
    <2> SUFFICES ASSUME Ordered, [InboxNext]_inboxVars PROVE Ordered'
      OBVIOUS
    <2>1. CASE Accept
      <3> DEFINE n == waiting'[Len(waiting')]
      <3>1. n \in Nat /\ n > Newest /\ waiting' = Append(waiting, n) /\ begun' = begun
        BY <2>1 DEF Accept
      <3>2. \A i \in 1..Len(waiting) : waiting[i] <= Newest
        BY DEF Ordered, Newest
      <3>3. begun <= Newest
        BY DEF Ordered, Newest
      <3>4. \A i \in 1..Len(waiting') : waiting'[i] = IF i = Len(waiting) + 1 THEN n ELSE waiting[i]
        BY <3>1 DEF Ordered
      <3>5. waiting' \in Seq(Nat) /\ Len(waiting') = Len(waiting) + 1
        BY <3>1 DEF Ordered
      <3>6. Newest \in Nat
        BY DEF Ordered, Newest
      <3> HIDE DEF n
      <3> QED BY <3>1, <3>2, <3>3, <3>4, <3>5, <3>6 DEF Ordered
    <2>2. CASE Begin
      BY <2>2 DEF Begin, Ordered
    <2>3. CASE Stop
      BY <2>3 DEF Stop, Ordered
    <2>4. CASE UNCHANGED inboxVars
      BY <2>4 DEF inboxVars, Ordered
    <2> QED BY <2>1, <2>2, <2>3, <2>4 DEF InboxNext
  <1> QED BY <1>1, <1>2, PTL DEF InboxSpec
=============================================================================
