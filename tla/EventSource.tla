----------------------------- MODULE EventSource -----------------------------
(***************************************************************************)
(* One EventSource (src/src/sse.rs) under its JavaScript object            *)
(* (src/src/js/sse.rs): a thread that connects, reads the stream line by   *)
(* line, queues events for the page, and reconnects where it left off.     *)
(*                                                                         *)
(* The server numbers its events and gives each its number as id; some     *)
(* have no data, which the parser never dispatches.  A reconnecting client *)
(* names the last id it dispatched and is sent the events after it.  Event *)
(* names, payloads and the length of pauses are left out, and so is the    *)
(* atomic ready_state, which nothing reads.                                *)
(***************************************************************************)
EXTENDS Integers, Sequences

CONSTANTS
  INBOUND_QUEUE_CAP,
  MaxEvents,        \* bound: events the server ever has
  Silent,           \* events without data
  MaxConnects       \* bound: connections ever tried

\* What the constants must be.
Bounds ==
  /\ INBOUND_QUEUE_CAP \in Nat \ {0} /\ MaxEvents \in Nat /\ MaxConnects \in Nat
  /\ Silent \subseteq 1..MaxEvents

None == 0
Event == 1..MaxEvents
Notice == [kind : {"open", "error", "closed"}, event : {None}]
Message == [kind : {"message"}, event : Event]
Note(kind) == [kind |-> kind, event |-> None]

VARIABLES
  reader,           \* where the thread is
  connects,         \* connections tried
  next,             \* event whose lines the server sends next on this connection
  line,             \* ... and the next of its lines
  last_id_in_event, \* id read and not committed
  data_buf,         \* data read and not dispatched: its event
  last_event_id,    \* id to resume after
  inbound,          \* the queue
  dropped,          \* history: messages the full queue let go of
  closed,           \* tells the reader to stop
  page,             \* the page holds the object, or is gone
  batch,            \* drained from the queue, not yet dispatched
  readyState,       \* of the JavaScript object: 0 connecting, 1 open, 2 closed
  seen              \* history: events dispatched to handlers

parser == <<next, line, last_id_in_event, data_buf>>
script == <<closed, page, batch, readyState, seen>>
vars == <<reader, connects, parser, last_event_id, inbound, dropped, script>>

Init ==
  /\ reader = "top" /\ connects = 0
  /\ next = 1 /\ line = "id" /\ last_id_in_event = None /\ data_buf = None
  /\ last_event_id = None /\ inbound = <<>> /\ dropped = {}
  /\ closed = FALSE /\ page = "run" /\ batch = <<>> /\ readyState = 0 /\ seen = <<>>

\* push: the oldest message goes when the queue is full.
Push(item) ==
  LET full == Len(inbound) >= INBOUND_QUEUE_CAP IN
  /\ inbound' = Append(IF full THEN Tail(inbound) ELSE inbound, item)
  /\ dropped' = IF full THEN dropped \cup ({Head(inbound).event} \ {None}) ELSE dropped

----------------------------------------------------------------------------
(* The reader thread. *)

\* Mutant of Top: the flag is not looked at between two attempts.
TopForgets ==
  /\ reader = "top"
  /\ reader' = "connect"
  /\ UNCHANGED <<connects, parser, last_event_id, inbound, dropped, script>>

Top ==
  /\ reader = "top"
  /\ reader' = IF closed THEN "end" ELSE "connect"
  /\ UNCHANGED <<connects, parser, last_event_id, inbound, dropped, script>>

\* No address, no connection, a failed write, or a status that is not 2xx.
ConnectFails ==
  /\ reader = "connect"
  /\ Push(Note("error"))
  /\ reader' = "sleep"
  /\ UNCHANGED <<connects, parser, last_event_id, script>>

\* Mutant of Connect: the id is not sent, so the server starts over.
ConnectAfresh ==
  /\ reader = "connect" /\ connects < MaxConnects
  /\ connects' = connects + 1
  /\ Push(Note("open"))
  /\ reader' = "check"
  /\ next' = 1 /\ line' = "id" /\ last_id_in_event' = None /\ data_buf' = None
  /\ UNCHANGED <<last_event_id, script>>

\* The request carries Last-Event-ID; the parser's buffers are new.
Connect ==
  /\ reader = "connect" /\ connects < MaxConnects
  /\ connects' = connects + 1
  /\ Push(Note("open"))
  /\ reader' = "check"
  /\ next' = last_event_id + 1 /\ line' = "id"
  /\ last_id_in_event' = None /\ data_buf' = None
  /\ UNCHANGED <<last_event_id, script>>

\* Before each line the flag is looked at.
Check ==
  /\ reader = "check"
  /\ reader' = IF closed THEN "end" ELSE "read"
  /\ UNCHANGED <<connects, parser, last_event_id, inbound, dropped, script>>

Incoming == reader = "read" /\ next <= MaxEvents

\* Mutant of ReadId: the id is committed before its event is complete.
ReadIdCommits ==
  /\ Incoming /\ line = "id"
  /\ last_id_in_event' = next
  /\ last_event_id' = next
  /\ line' = IF next \in Silent THEN "blank" ELSE "data"
  /\ reader' = "check"
  /\ UNCHANGED <<connects, next, data_buf, inbound, dropped, script>>

ReadId ==
  /\ Incoming /\ line = "id"
  /\ last_id_in_event' = next
  /\ line' = IF next \in Silent THEN "blank" ELSE "data"
  /\ reader' = "check"
  /\ UNCHANGED <<connects, next, data_buf, last_event_id, inbound, dropped, script>>

ReadData ==
  /\ Incoming /\ line = "data"
  /\ data_buf' = next
  /\ line' = "blank"
  /\ reader' = "check"
  /\ UNCHANGED <<connects, next, last_id_in_event, last_event_id, inbound, dropped, script>>

\* The blank line dispatches the event, if it has data, and commits its id.
ReadBlank ==
  /\ Incoming /\ line = "blank"
  /\ IF data_buf # None
     THEN /\ Push([kind |-> "message", event |-> data_buf])
          /\ last_event_id' = last_id_in_event
          /\ last_id_in_event' = None
     ELSE UNCHANGED <<inbound, dropped, last_event_id, last_id_in_event>>
  /\ data_buf' = None
  /\ next' = next + 1 /\ line' = "id"
  /\ reader' = "check"
  /\ UNCHANGED <<connects, script>>

\* A comment line.
ReadComment ==
  /\ reader = "read"
  /\ reader' = "check"
  /\ UNCHANGED <<connects, parser, last_event_id, inbound, dropped, script>>

\* End of file, an error, or the minute's read timeout.
Lose ==
  /\ reader = "read"
  /\ reader' = IF closed THEN "end" ELSE "sleep"
  /\ UNCHANGED <<connects, parser, last_event_id, inbound, dropped, script>>

Wake ==
  /\ reader = "sleep"
  /\ reader' = "top"
  /\ UNCHANGED <<connects, parser, last_event_id, inbound, dropped, script>>

\* Mutant of End: the thread ends without a word.
EndQuietly ==
  /\ reader = "end"
  /\ reader' = "done"
  /\ UNCHANGED <<connects, parser, last_event_id, inbound, dropped, script>>

End ==
  /\ reader = "end"
  /\ Push(Note("closed"))
  /\ reader' = "done"
  /\ UNCHANGED <<connects, parser, last_event_id, script>>

----------------------------------------------------------------------------
(* The page's thread. *)

Close ==
  /\ page = "run"
  /\ closed' = TRUE
  /\ readyState' = 2
  /\ UNCHANGED <<reader, connects, parser, last_event_id, inbound, dropped, page,
                 batch, seen>>

\* The page is dropped, and Drop closes.
Leave ==
  /\ page = "run"
  /\ closed' = TRUE
  /\ page' = "gone"
  /\ UNCHANGED <<reader, connects, parser, last_event_id, inbound, dropped,
                 batch, readyState, seen>>

\* drain_sse_events takes the whole queue ...
Drain ==
  /\ page = "run" /\ batch = <<>> /\ inbound # <<>>
  /\ batch' = inbound
  /\ inbound' = <<>>
  /\ UNCHANGED <<reader, connects, parser, last_event_id, dropped, closed, page,
                 readyState, seen>>

\* ... and dispatches; handlers are scripts like others.
Dispatch ==
  /\ page = "run" /\ batch # <<>>
  /\ batch' = Tail(batch)
  /\ LET item == Head(batch) IN
       /\ seen' = IF item.kind = "message" THEN Append(seen, item.event) ELSE seen
       /\ readyState' = CASE item.kind = "open" -> 1
                          [] item.kind = "closed" -> 2
                          [] OTHER -> readyState
  /\ UNCHANGED <<reader, connects, parser, last_event_id, inbound, dropped, closed, page>>

----------------------------------------------------------------------------
Reader ==
  \/ Top \/ ConnectFails \/ Connect \/ Check
  \/ ReadId \/ ReadData \/ ReadBlank \/ Lose \/ Wake \/ End

Next == Reader \/ ReadComment \/ Close \/ Leave \/ Drain \/ Dispatch

Spec == Init /\ [][Next]_vars

\* The thread runs: every call it blocks in has a timeout.
Fairness == WF_vars(Reader)
FairSpec == Spec /\ Fairness

----------------------------------------------------------------------------
(* Properties. *)

TypeOK ==
  /\ reader \in {"top", "connect", "check", "read", "sleep", "end", "done"}
  /\ connects \in 0..MaxConnects
  /\ next \in 1..(MaxEvents + 1) /\ line \in {"id", "data", "blank"}
  /\ {last_id_in_event, data_buf, last_event_id} \subseteq Event \cup {None}
  /\ inbound \in Seq(Notice \cup Message) /\ Len(inbound) <= INBOUND_QUEUE_CAP
  /\ dropped \subseteq Event
  /\ closed \in BOOLEAN /\ page \in {"run", "gone"}
  /\ batch \in Seq(Notice \cup Message) /\ readyState \in 0..2
  /\ seen \in Seq(Event)

\* What handlers heard, what they are about to hear, and what waits behind that.
Told == [i \in DOMAIN seen |-> [kind |-> "message", event |-> seen[i]]] \o batch \o inbound
Messages(items) == {i \in DOMAIN items : items[i].kind = "message"}
EventsOf(items) == {items[i].event : i \in Messages(items)}

\* However often the connection is lost, in the middle of an event too, the page
\* hears of every event in order, of none twice, and of each up to the one to
\* resume after, unless the full queue dropped it (the reader's bookkeeping of
\* last_event_id and last_id_in_event).
ResumesExactly ==
  /\ \A i, j \in Messages(Told) : i < j => Told[i].event < Told[j].event
  /\ EventsOf(Told) \cup dropped = 1..last_event_id \ Silent

\* Once everything a closed connection has queued is dispatched, the object says
\* CLOSED, also when an Open notice was still on its way when close() was called.
SettlesClosed ==
  reader = "done" /\ inbound = <<>> /\ batch = <<>> /\ page = "run" => readyState = 2

==============================================================================
