-------------------------------- MODULE Worker --------------------------------
(***************************************************************************)
(* One dedicated Worker (src/src/js/worker.rs): a thread with a script of  *)
(* its own, an mpsc channel of messages towards it, a queue of replies     *)
(* back, and a flag that asks it to stop.                                  *)
(*                                                                         *)
(* Messages to the worker are numbered as the page posts them.  A reply is *)
(* the number of the message being handled when it was posted, None for    *)
(* the top-level script.  The fetch of the script, which comes before the  *)
(* thread and can only fail the constructor, is left out.                  *)
(***************************************************************************)
EXTENDS Integers, SequencesExt

CONSTANTS
  MaxPosts,         \* bound: messages the page ever posts
  MaxReplies        \* bound: replies the worker ever posts

\* What the constants must be.
Bounds == MaxPosts \in Nat /\ MaxReplies \in Nat

None == 0
Reply == None..MaxPosts

VARIABLES
  worker,           \* where the thread is
  onmessage,        \* the property of self holds a handler
  posted,           \* messages sent down the channel
  received,         \* ... and taken from it
  replies,          \* history: replies posted
  inbound,          \* the queue of replies
  closed,           \* asks the worker to stop
  late,             \* history: messages handled since then
  page,             \* the page holds the object, or is gone
  batch,            \* replies drained, not yet dispatched
  seen              \* history: replies dispatched

vars == <<worker, onmessage, posted, received, replies, inbound, closed, late, page, batch, seen>>

Init ==
  /\ worker = "script" /\ onmessage = FALSE
  /\ posted = 0 /\ received = 0 /\ replies = <<>> /\ inbound = <<>>
  /\ closed = FALSE /\ late = 0 /\ page = "run" /\ batch = <<>> /\ seen = <<>>

----------------------------------------------------------------------------
(* The worker's thread. *)

\* A script of the worker runs: its top-level one, or a handler.
Running == worker \in {"script", "handler"}

WorkerPosts ==
  /\ Running /\ Len(replies) < MaxReplies
  /\ LET reply == IF worker = "handler" THEN received ELSE None IN
       /\ inbound' = Append(inbound, reply)
       /\ replies' = Append(replies, reply)
  /\ UNCHANGED <<worker, onmessage, posted, received, closed, late, page, batch, seen>>

WorkerListens ==
  /\ Running
  /\ onmessage' \in BOOLEAN
  /\ UNCHANGED <<worker, posted, received, replies, inbound, closed, late, page, batch, seen>>

\* self.close() asks its own thread to stop.
WorkerCloses ==
  /\ Running
  /\ closed' = TRUE
  /\ UNCHANGED <<worker, onmessage, posted, received, replies, inbound, late, page, batch, seen>>

\* The script returns, or throws.
ScriptEnds ==
  /\ Running
  /\ worker' = "check"
  /\ UNCHANGED <<onmessage, posted, received, replies, inbound, closed, late, page, batch, seen>>

\* Mutant of Check: the flag is looked at when the channel is empty only.
CheckIdle ==
  /\ worker = "check"
  /\ worker' = IF closed /\ received = posted THEN "done" ELSE "receive"
  /\ UNCHANGED <<onmessage, posted, received, replies, inbound, closed, late, page, batch, seen>>

Check ==
  /\ worker = "check"
  /\ worker' = IF closed THEN "done" ELSE "receive"
  /\ UNCHANGED <<onmessage, posted, received, replies, inbound, closed, late, page, batch, seen>>

\* A message is handled, or lost when nobody listens.
Receive ==
  /\ worker = "receive" /\ received < posted
  /\ received' = received + 1
  /\ worker' = IF onmessage THEN "handler" ELSE "check"
  /\ late' = IF closed THEN late + 1 ELSE late
  /\ UNCHANGED <<onmessage, posted, replies, inbound, closed, page, batch, seen>>

\* Nothing for 100 ms; or at once, when the page is gone and took the sender along.
ReceiveNothing ==
  /\ worker = "receive" /\ received = posted
  /\ worker' = "check"
  /\ UNCHANGED <<onmessage, posted, received, replies, inbound, closed, late, page, batch, seen>>

----------------------------------------------------------------------------
(* The page's thread. *)

Post ==
  /\ page = "run" /\ worker # "done" /\ posted < MaxPosts
  /\ posted' = posted + 1
  /\ UNCHANGED <<worker, onmessage, received, replies, inbound, closed, late, page, batch, seen>>

Terminate ==
  /\ page = "run"
  /\ closed' = TRUE
  /\ UNCHANGED <<worker, onmessage, posted, received, replies, inbound, late, page, batch, seen>>

\* The page is dropped with its registry of workers; nothing sets the flag.
Leave ==
  /\ page = "run"
  /\ page' = "gone"
  /\ UNCHANGED <<worker, onmessage, posted, received, replies, inbound, closed, late, batch, seen>>

\* drain_worker_messages takes the whole queue ...
Drain ==
  /\ page = "run" /\ batch = <<>> /\ inbound # <<>>
  /\ batch' = inbound
  /\ inbound' = <<>>
  /\ UNCHANGED <<worker, onmessage, posted, received, replies, closed, late, page, seen>>

\* ... and dispatches, after terminate() too; handlers are scripts like others.
Dispatch ==
  /\ page = "run" /\ batch # <<>>
  /\ batch' = Tail(batch)
  /\ seen' = Append(seen, Head(batch))
  /\ UNCHANGED <<worker, onmessage, posted, received, replies, inbound, closed, late, page>>

----------------------------------------------------------------------------
Pump == Check \/ Receive \/ ReceiveNothing

Next ==
  \/ Pump \/ WorkerPosts \/ WorkerListens \/ WorkerCloses \/ ScriptEnds
  \/ Post \/ Terminate \/ Leave \/ Drain \/ Dispatch

Spec == Init /\ [][Next]_vars

\* The thread runs, and the worker's scripts return: terminate() does not
\* interrupt one that does not.
Fairness == WF_vars(Pump \/ ScriptEnds)
FairSpec == Spec /\ Fairness

----------------------------------------------------------------------------
(* Properties. *)

TypeOK ==
  /\ worker \in {"script", "check", "receive", "handler", "done"}
  /\ onmessage \in BOOLEAN
  /\ posted \in 0..MaxPosts /\ received \in 0..posted /\ late \in 0..MaxPosts
  /\ {replies, inbound, batch, seen} \subseteq Seq(Reply)
  /\ closed \in BOOLEAN /\ page \in {"run", "gone"}

\* Replies reach the page's handler in the order they were posted, none lost,
\* also across terminate(), and none before the message it answers was posted.
RepliesInOrder ==
  /\ seen \o batch \o inbound = replies
  /\ \A i \in DOMAIN replies : replies[i] <= received
  /\ \A i, j \in DOMAIN replies : i < j => replies[i] <= replies[j]

\* However many messages wait in the channel, a worker that is asked to stop
\* handles at most one of them: the one it may be about to receive (worker_pump).
StopsSoon == late <= 1

==============================================================================
