----------------------------- MODULE PageChannels -----------------------------
(***************************************************************************)
(* The background channels of a page: connections and workers, each with a *)
(* thread of its own that queues what the page's thread drains.  They      *)
(* share nothing but the page's thread, so a page with one of them, of any *)
(* kind, shows each in every interleaving with scripts and the pump.  The  *)
(* modules name alike what is alike, the queue, the batch drained from it, *)
(* the flag that ends the thread, and keep it in the same variable.        *)
(***************************************************************************)
EXTENDS Integers, Sequences

CONSTANTS WS_QUEUE_CAP, MaxFrames,
          SSE_QUEUE_CAP, MaxEvents, Silent, MaxConnects,
          MaxPosts, MaxReplies,
          MaxPorts, SharedPosts, SharedReplies

VARIABLES
  kind,                                                       \* of the channel
  inbound, closed, page, batch, readyState, seen,             \* of any
  reader,                                                     \* of a connection
  tls, sent, ended, socket, read,                             \* of a WebSocket
  connects, next, line, last_id_in_event, data_buf, last_event_id, dropped,
                                                              \* of an EventSource
  worker, onmessage, posted, received, replies, late,         \* of a Worker
  shared                                                      \* of a SharedWorker

WS == INSTANCE WebSocket WITH INBOUND_QUEUE_CAP <- WS_QUEUE_CAP
ES == INSTANCE EventSource WITH INBOUND_QUEUE_CAP <- SSE_QUEUE_CAP
WK == INSTANCE Worker
SW == INSTANCE SharedWorker WITH MaxPosts <- SharedPosts, MaxReplies <- SharedReplies

ASSUME BoundsAssumption == WS!Bounds /\ ES!Bounds /\ WK!Bounds /\ SW!Bounds

ofSocket == <<tls, sent, ended, socket, read>>
ofSource == <<connects, next, line, last_id_in_event, data_buf, last_event_id, dropped>>
ofWorker == <<worker, onmessage, posted, received, replies, late>>
vars == <<kind, inbound, closed, page, batch, readyState, seen, reader,
          ofSocket, ofSource, ofWorker, shared>>

\* What a channel of another kind holds.
NoSocket ==
  tls = FALSE /\ sent = 0 /\ ended = "no" /\ socket = "free" /\ read = 0
NoSource ==
  connects = 0 /\ next = 1 /\ line = "id" /\ last_id_in_event = 0 /\ data_buf = 0
  /\ last_event_id = 0 /\ dropped = {}
NoWorker ==
  worker = "none" /\ onmessage = FALSE /\ posted = 0 /\ received = 0
  /\ replies = <<>> /\ late = 0
NoShared == shared = SW!Fresh
NoThread == inbound = <<>> /\ closed = FALSE /\ page = "run" /\ batch = <<>> /\ seen = <<>>

Init ==
  \/ kind = "WebSocket" /\ WS!Init /\ NoSource /\ NoWorker /\ NoShared
  \/ kind = "EventSource" /\ ES!Init /\ NoSocket /\ NoWorker /\ NoShared
  \/ kind = "Worker" /\ WK!Init /\ NoSocket /\ NoSource /\ NoShared
     /\ reader = "none" /\ readyState = 0
  \/ kind = "SharedWorker" /\ SW!Init /\ NoThread /\ NoSocket /\ NoSource /\ NoWorker
     /\ reader = "none" /\ readyState = 0

SocketNext ==
  kind = "WebSocket" /\ WS!Next /\ UNCHANGED <<kind, ofSource, ofWorker, shared>>
SourceNext ==
  kind = "EventSource" /\ ES!Next /\ UNCHANGED <<kind, ofSocket, ofWorker, shared>>
WorkerNext ==
  kind = "Worker" /\ WK!Next /\ UNCHANGED <<kind, ofSocket, ofSource, reader, readyState, shared>>
SharedNext ==
  /\ kind = "SharedWorker" /\ SW!Next
  /\ UNCHANGED <<kind, inbound, closed, page, batch, readyState, seen, reader,
                 ofSocket, ofSource, ofWorker>>

Next == SocketNext \/ SourceNext \/ WorkerNext \/ SharedNext

Spec == Init /\ [][Next]_vars

\* Each kind's own fairness.
Fairness ==
  /\ WF_vars(kind = "WebSocket" /\ WS!Reader /\ UNCHANGED <<kind, ofSource, ofWorker, shared>>)
  /\ SF_vars(kind = "WebSocket" /\ WS!Idle /\ WS!CallReturns
             /\ UNCHANGED <<kind, ofSource, ofWorker, shared>>)
  /\ WF_vars(kind = "EventSource" /\ ES!Reader /\ UNCHANGED <<kind, ofSocket, ofWorker, shared>>)
  /\ WF_vars(kind = "Worker" /\ (WK!Pump \/ WK!ScriptEnds)
             /\ UNCHANGED <<kind, ofSocket, ofSource, reader, readyState, shared>>)
FairSpec == Spec /\ Fairness

----------------------------------------------------------------------------
(* Each module's properties, of the channels of its kind. *)

\* Every channel keeps to its types.
TypeOK ==
  /\ kind \in {"WebSocket", "EventSource", "Worker", "SharedWorker"}
  /\ kind = "WebSocket" => WS!TypeOK
  /\ kind = "EventSource" => ES!TypeOK
  /\ kind = "Worker" => WK!TypeOK
  /\ kind = "SharedWorker" => SW!TypeOK

\* A WebSocket's handlers hear of the stream in its order, and what is missing is
\* older than a full queue (ws.rs, push_bounded); a Worker's replies arrive in order,
\* none lost; a SharedWorker hears in the order of all its ports, nothing from a port
\* that was closed before, and its replies arrive like a Worker's.
HeardInOrder ==
  /\ kind = "WebSocket" => WS!HeardInOrder
  /\ kind = "Worker" => WK!RepliesInOrder
  /\ kind = "SharedWorker" => SW!HeardInOrder /\ SW!RepliesInOrder

\* On a plain WebSocket close() returns, and so does send() while the server leaves
\* the reader idle again and again.
CallsReturn == WS!CallsReturn

\* ws.rs: the reader holds the socket briefly, so that a concurrent send() from JS
\* is not blocked.
SendNotBlocked == WS!SendNotBlocked

\* An EventSource resumes where it was, whenever the connection is lost (sse.rs,
\* last_event_id).
ResumesExactly == kind = "EventSource" => ES!ResumesExactly

\* A closed EventSource says CLOSED in the end, also after a late Open notice.
SettlesClosed == kind = "EventSource" => ES!SettlesClosed

\* A Worker that is asked to stop handles at most one more message.
StopsSoon == kind = "Worker" => WK!StopsSoon

\* A thread that is asked to end does, except the reader of a TLS WebSocket, which
\* may be in a read that nothing interrupts.
ThreadsEnd == closed /\ ~tls ~> "done" \in {reader, worker}

==============================================================================
