------------------------------- MODULE Inbox --------------------------------
(***************************************************************************)
(* What the UDP server promises the packet handler: the datagrams it took  *)
(* from the socket, one at a time and in the order they came in.  Newcomers*)
(* may be refused, and a stop loses whatever is waiting; nothing else is   *)
(* lost, repeated or overtaken.                                            *)
(***************************************************************************)
EXTENDS Integers, Sequences

VARIABLES
  waiting,    \* numbers of the datagrams accepted and not yet begun
  begun       \* number of the datagram handled last

inboxVars == <<waiting, begun>>

(* Datagrams are numbered as they arrive. *)
Newest == IF waiting = <<>> THEN begun ELSE waiting[Len(waiting)]

Accept ==
  /\ waiting' # <<>>
  /\ LET n == waiting'[Len(waiting')] IN
       n \in Nat /\ n > Newest /\ waiting' = Append(waiting, n)
  /\ UNCHANGED begun

Begin ==
  /\ waiting # <<>>
  /\ begun' = Head(waiting)
  /\ waiting' = Tail(waiting)

Stop ==
  /\ waiting' = <<>>
  /\ UNCHANGED begun

InboxInit == waiting = <<>> /\ begun = 0

InboxNext == Accept \/ Begin \/ Stop

InboxSpec == InboxInit /\ [][InboxNext]_inboxVars

(* The waiting datagrams are in order, and newer than what was begun. *)
Ordered ==
  /\ begun \in Nat
  /\ waiting \in Seq(Nat)
  /\ \A i \in 1..Len(waiting) : waiting[i] > begun
  /\ \A i, j \in 1..Len(waiting) : i < j => waiting[i] < waiting[j]
=============================================================================
