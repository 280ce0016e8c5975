------------------------------ MODULE UdpServer -----------------------------
(***************************************************************************)
(* The two threads of the listener (server.py) and their end (main.py).    *)
(* The main thread moves datagrams from the socket to a bounded queue; the *)
(* worker, a daemon thread, takes them one by one and runs the handler,    *)
(* whose exceptions it logs.  A signal closes the connection pool and      *)
(* raises SystemExit in the main thread; on the way out the sentinel is    *)
(* queued if there is room, and the process ends whatever the worker does. *)
(*                                                                         *)
(* Handling a datagram is two steps or more: it is taken, something is     *)
(* done (by the module that extends this one), and the worker is idle.     *)
(***************************************************************************)
EXTENDS Integers, Sequences

CONSTANTS
  QueueSize,      \* maxsize of the queue
  MaxSent,        \* datagrams the game sends
  MaxStarts       \* starts of the process

ASSUME ServerAssumption ==
  QueueSize \in Nat \ {0} /\ MaxSent \in Nat /\ MaxStarts \in Nat \ {0}

VARIABLES
  proc,           \* "down", "starting", "up", "stopping" or "leaving"
  queue,          \* datagrams
  sentinel,       \* the sentinel is behind them: nothing is received after it
  worker,         \* "idle", "busy", "failed", "writing" or "done"
  hand,           \* the datagram the worker has taken last
  pool,           \* the connection pool: "open", "closed" or "disabled"
  sent,           \* datagrams sent so far
  starts

serverVars == <<proc, queue, sentinel, worker, hand, pool, sent, starts>>

Nothing == [n |-> 0, kind |-> "none", of |-> {}]

(* The worker holds a datagram it has not finished. *)
Handling == worker \in {"busy", "failed", "writing"}

Running == proc \in {"up", "stopping", "leaving"}

-----------------------------------------------------------------------------
Unbounded(q, d) == Append(q, d)                                  \* mutant

Overwrites(q, d) == IF Len(q) < QueueSize THEN Append(q, d)      \* mutant
                    ELSE Append(Tail(q), d)

(* put_nowait: the newest datagram is dropped when the queue is full. *)
PutNowait(q, d) == IF Len(q) < QueueSize THEN Append(q, d) ELSE q

(* The game sends a datagram: to the receive loop, or to nobody. *)
Receive(d) ==
  /\ sent < MaxSent
  /\ sent' = sent + 1
  /\ d.n = sent'
  /\ queue' = IF proc = "up" THEN PutNowait(queue, d) ELSE queue
  /\ UNCHANGED <<proc, sentinel, worker, hand, pool, starts>>

(* _process_packets *)
Take ==
  /\ Running /\ worker = "idle"
  /\ queue # <<>>
  /\ queue' = Tail(queue)
  /\ hand' = Head(queue)
  /\ worker' = "busy"
  /\ UNCHANGED <<proc, sentinel, pool, sent, starts>>

TakeSentinel ==
  /\ Running /\ worker = "idle"
  /\ queue = <<>> /\ sentinel
  /\ worker' = "done"
  /\ UNCHANGED <<proc, queue, sentinel, hand, pool, sent, starts>>

StuckAfterError(ok) == IF ok THEN "idle" ELSE "done"             \* mutant

(* After the handler has returned, or has raised. *)
WorkerAfter(ok) == "idle"

Finish(ok) ==
  /\ Running /\ Handling
  /\ worker' = WorkerAfter(ok)
  /\ UNCHANGED <<proc, queue, sentinel, hand, pool, sent, starts>>

-----------------------------------------------------------------------------
(* signal_handler: postgres_client.close(), then sys.exit(0). *)
Signal ==
  /\ proc = "up"
  /\ proc' = "stopping"
  /\ pool' = IF pool = "open" THEN "closed" ELSE pool
  /\ UNCHANGED <<queue, sentinel, worker, hand, sent, starts>>

(* The finally clause of start_udp_server. *)
Leave ==
  /\ proc = "stopping"
  /\ proc' = "leaving"
  /\ sentinel' = (Len(queue) < QueueSize)
  /\ UNCHANGED <<queue, worker, hand, pool, sent, starts>>

(* The process ends: after the finally clause, or killed at any moment. *)
End ==
  /\ proc # "down"
  /\ proc' = "down"
  /\ queue' = <<>>
  /\ worker' = "idle"
  /\ sentinel' = FALSE
  /\ UNCHANGED <<hand, pool, sent, starts>>

(* PostgresClient.__init__: without a database at the start the pool stays *)
(* disabled for the life of the process.                                   *)
Start ==
  /\ proc = "down"
  /\ starts < MaxStarts
  /\ starts' = starts + 1
  /\ proc' = "starting"
  /\ pool' \in {"open", "disabled"}
  /\ UNCHANGED <<queue, sentinel, worker, hand, sent>>

(* main, once the dead letters are replayed. *)
Listen ==
  /\ proc = "starting"
  /\ proc' = "up"
  /\ UNCHANGED <<queue, sentinel, worker, hand, pool, sent, starts>>

ServerInit ==
  /\ proc = "down"
  /\ queue = <<>> /\ sentinel = FALSE
  /\ worker = "idle"
  /\ hand = Nothing
  /\ pool = "closed"
  /\ sent = 0
  /\ starts = 0

-----------------------------------------------------------------------------
(* The numbers that wait. *)
Waiting == [i \in 1..Len(queue) |-> queue[i].n]

(* The handler is given the datagrams the loop took, in the order of their *)
(* arrival (server.py:72-86, test_server.py:39): none twice, none passed   *)
(* over but those a full queue refused, all lost only by a stop.           *)
Promised == INSTANCE Inbox WITH waiting <- Waiting, begun <- hand.n
ImplementsInbox == Promised!InboxSpec
=============================================================================
