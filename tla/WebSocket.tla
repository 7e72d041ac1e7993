------------------------------ MODULE WebSocket ------------------------------
(***************************************************************************)
(* One WebSocket connection (src/src/ws.rs) under its JavaScript object    *)
(* (src/src/js/websocket.rs): a reader thread and the page's thread share  *)
(* the socket behind one mutex, and a bounded queue of what arrived.       *)
(*                                                                         *)
(* Everything the page may hear of is a position in the stream: 0 is the   *)
(* Open notice, then come the server's frames, and the last position is    *)
(* the end (a Close frame or an error) once the stream has ended.  Frame   *)
(* contents are left out, and so is the atomic ready_state, which nothing  *)
(* reads: scripts see the property of the JavaScript object.               *)
(***************************************************************************)
EXTENDS Integers, SequencesExt

CONSTANTS
  INBOUND_QUEUE_CAP,
  MaxFrames         \* bound: positions of the stream

\* What the constants must be.
Bounds ==
  INBOUND_QUEUE_CAP \in Nat \ {0} /\ MaxFrames \in Nat \ {0}

Open == 0
Position == Open..MaxFrames

VARIABLES
  tls,              \* wss: no read timeout is set on the stream
  sent,             \* last position the server has sent
  ended,            \* what the position sent is: "no" end, "close" or "error"
  socket,           \* holder of the mutex
  reader,           \* where the reader thread is
  read,             \* last position it has read
  inbound,          \* the queue
  closed,           \* tells the reader to stop
  page,             \* what the page's thread does with the connection
  batch,            \* drained from the queue, not yet dispatched
  readyState,       \* of the JavaScript object
  seen              \* history: positions dispatched to handlers

world == <<tls, sent, ended>>
vars == <<world, socket, reader, read, inbound, closed, page, batch, readyState, seen>>

IsEnd(n) == ended # "no" /\ n = sent

\* Mutant of push_bounded: a full queue refuses the new message.
PushRefused(q, n) == IF Len(q) >= INBOUND_QUEUE_CAP THEN q ELSE Append(q, n)

\* Mutant of push_bounded: nothing is dropped.
PushUncapped(q, n) == Append(q, n)

push_bounded(q, n) ==
  Append(IF Len(q) >= INBOUND_QUEUE_CAP THEN Tail(q) ELSE q, n)

\* connect has returned: the handshake is done and the reader is spawned.
Init ==
  /\ tls \in BOOLEAN
  /\ sent = Open /\ ended = "no" /\ socket = "free"
  /\ reader = "check" /\ read = Open /\ inbound = push_bounded(<<>>, Open)
  /\ closed = FALSE /\ page = "run" /\ batch = <<>> /\ readyState = 1 /\ seen = <<>>

----------------------------------------------------------------------------
(* The reader thread. *)

\* Mutant of ReaderCheck: nobody looks at the flag.
ReaderNeverChecks ==
  /\ reader = "check"
  /\ reader' = "lock"
  /\ UNCHANGED <<world, socket, read, inbound, closed, page, batch, readyState, seen>>

ReaderCheck ==
  /\ reader = "check"
  /\ reader' = IF closed THEN "done" ELSE "lock"
  /\ UNCHANGED <<world, socket, read, inbound, closed, page, batch, readyState, seen>>

ReaderLock ==
  /\ reader = "lock" /\ socket = "free"
  /\ socket' = "reader"
  /\ reader' = "read"
  /\ UNCHANGED <<world, read, inbound, closed, page, batch, readyState, seen>>

\* Mutant of ReaderRead: the guard outlives the read.
ReaderReadKeepsLock ==
  /\ reader = "read" /\ read < sent
  /\ read' = read + 1
  /\ reader' = "push"
  /\ UNCHANGED <<world, socket, inbound, closed, page, batch, readyState, seen>>

\* A frame, a Close or an error: the guard is dropped with it in hand.
ReaderRead ==
  /\ reader = "read" /\ read < sent
  /\ read' = read + 1
  /\ socket' = "free"
  /\ reader' = "push"
  /\ UNCHANGED <<world, inbound, closed, page, batch, readyState, seen>>

\* A ping, a pong or a partial frame is none of the page's business.
ReaderPing ==
  /\ reader = "read" /\ read = sent
  /\ socket' = "free"
  /\ reader' = "check"
  /\ UNCHANGED <<world, read, inbound, closed, page, batch, readyState, seen>>

\* Only a plain stream has a read timeout.
ReaderTimeout ==
  /\ reader = "read" /\ read = sent /\ ~tls
  /\ socket' = "free"
  /\ reader' = "sleep"
  /\ UNCHANGED <<world, read, inbound, closed, page, batch, readyState, seen>>

ReaderWake ==
  /\ reader = "sleep"
  /\ reader' = "check"
  /\ UNCHANGED <<world, socket, read, inbound, closed, page, batch, readyState, seen>>

\* Queue what was read; the end of the stream is the end of the thread.
ReaderPush ==
  /\ reader = "push"
  /\ inbound' = push_bounded(inbound, read)
  /\ reader' = IF IsEnd(read) THEN "done" ELSE "check"
  /\ UNCHANGED <<world, socket, read, closed, page, batch, readyState, seen>>

----------------------------------------------------------------------------
(* The page's thread. *)

\* send() waits for the socket ...
CallSend ==
  /\ page = "run"
  /\ page' = "send"
  /\ UNCHANGED <<world, socket, reader, read, inbound, closed, batch, readyState, seen>>

\* ... and so does close(), once it has told the reader to stop.
CallClose ==
  /\ page = "run"
  /\ closed' = TRUE
  /\ page' = "close"
  /\ UNCHANGED <<world, socket, reader, read, inbound, batch, readyState, seen>>

\* The page is dropped, and its connection with it: Drop closes.
Leave ==
  /\ page = "run"
  /\ closed' = TRUE
  /\ page' = "leave"
  /\ UNCHANGED <<world, socket, reader, read, inbound, batch, readyState, seen>>

\* The call takes the socket, writes, and lets go of it.
CallReturns ==
  /\ page \in {"send", "close", "leave"} /\ socket = "free"
  /\ page' = IF page = "leave" THEN "gone" ELSE "run"
  /\ UNCHANGED <<world, socket, reader, read, inbound, closed, batch, readyState, seen>>

\* drain_ws_inbound takes the whole queue ...
Drain ==
  /\ page = "run" /\ batch = <<>> /\ inbound # <<>>
  /\ batch' = inbound
  /\ inbound' = <<>>
  /\ UNCHANGED <<world, socket, reader, read, closed, page, readyState, seen>>

\* ... and calls a handler for each message; a handler is a script like another.
Dispatch ==
  /\ page = "run" /\ batch # <<>>
  /\ batch' = Tail(batch)
  /\ seen' = Append(seen, Head(batch))
  /\ readyState' = IF IsEnd(Head(batch)) /\ ended = "close" THEN 3 ELSE readyState
  /\ UNCHANGED <<world, socket, reader, read, inbound, closed, page>>

----------------------------------------------------------------------------
(* The server and the network. *)

ServerSends ==
  /\ ended = "no" /\ sent < MaxFrames
  /\ sent' = sent + 1
  /\ ended' \in {"no", "close", "error"}
  /\ UNCHANGED <<tls, socket, reader, read, inbound, closed, page, batch, readyState, seen>>

----------------------------------------------------------------------------
Reader == ReaderCheck \/ ReaderLock \/ ReaderRead \/ ReaderTimeout \/ ReaderWake
          \/ ReaderPush

Next ==
  \/ Reader \/ ReaderPing
  \/ CallSend \/ CallClose \/ Leave \/ CallReturns \/ Drain \/ Dispatch
  \/ ServerSends

Spec == Init /\ [][Next]_vars

\* Where the reader leaves the mutex alone for long: 30 ms after a timeout, or
\* for good.
Idle == reader \in {"sleep", "done"}

\* The reader thread runs, and a waiting call gets the mutex in some of the
\* reader's sleeps.  Between two frames it may not: the reader locks again at
\* once, and a std mutex is not fair.  Neither the server nor the page's scripts
\* owe anything.
Fairness == WF_vars(Reader) /\ SF_vars(Idle /\ CallReturns)
FairSpec == Spec /\ Fairness

----------------------------------------------------------------------------
(* Properties. *)

TypeOK ==
  /\ tls \in BOOLEAN /\ sent \in Position /\ ended \in {"no", "close", "error"}
  /\ socket \in {"free", "reader"}
  /\ reader \in {"check", "lock", "read", "push", "sleep", "done"}
  /\ read \in Open..sent
  /\ inbound \in Seq(Position) /\ Len(inbound) <= INBOUND_QUEUE_CAP
  /\ closed \in BOOLEAN /\ page \in {"run", "send", "close", "leave", "gone"}
  /\ batch \in Seq(Position) /\ seen \in Seq(Position)
  /\ readyState \in {1, 3}

\* Handlers hear of the stream in its order, nothing twice, Open first if at all
\* and the end last; and a message is missing only when INBOUND_QUEUE_CAP newer
\* ones have been read since, so never the newest; an object that says CLOSED
\* calls no handler any more (push_bounded, dispatch).
HeardInOrder ==
  LET all == seen \o batch \o inbound
      pushed == IF reader = "push" THEN read - 1 ELSE read
  IN /\ \A i, j \in DOMAIN all : i < j => all[i] < all[j]
     /\ \A n \in Open..pushed : n \notin ToSet(all) => pushed - n >= INBOUND_QUEUE_CAP
     /\ readyState = 3 => IsEnd(Last(seen))

\* On a plain stream close() and the drop of a page return however busy the
\* server keeps the reader, which ends at its next look at the flag; send()
\* returns unless the server from some time on never lets a read time out.
CallsReturn ==
  /\ (~tls /\ page \in {"close", "leave"}) ~> page \in {"run", "gone"}
  /\ []<>Idle => ((~tls /\ page = "send") ~> page # "send")

\* ws.rs: the socket is held briefly so that a concurrent send() from JS is not
\* blocked; here of a reader that does not take it away again and again.
SendNotBlocked == <>[](reader # "lock") => (page = "send" ~> page # "send")

==============================================================================
