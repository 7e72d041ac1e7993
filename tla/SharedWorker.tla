----------------------------- MODULE SharedWorker -----------------------------
(***************************************************************************)
(* One shared worker of a page (src/src/js/shared_worker.rs): a thread with*)
(* a script, one mpsc channel towards it for all ports (connects, messages *)
(* and closes alike), one queue of replies back, each tagged with its port.*)
(*                                                                         *)
(* Messages are numbered as the page posts them; a reply is the port it    *)
(* went down and the number of the message being handled, 0 when there is  *)
(* none.  Handlers of the page may be called at any step of its thread.    *)
(***************************************************************************)
EXTENDS Integers, SequencesExt

CONSTANTS MaxPorts, MaxPosts, MaxReplies   \* bounds

Bounds == {MaxPorts, MaxPosts, MaxReplies} \subseteq Nat

Port == 1..MaxPorts
None == 0
Mail == [do : {"connect", "message", "close"}, port : Port, n : 0..MaxPosts]
Heard == Port \X (0..MaxPosts)

VARIABLE shared
(* shared.opened, .posted, .channel: what the page did and what waits for the thread;
   shared.thread: where it is; shared.at: the mail in hand;
   shared.onconnect, .ports, .onmessage: self's handler, the ports the thread knows and
   those of them a handler listens on;
   shared.closed: the flag self.close() sets; shared.queue, .batch: replies on their way.
   History: shared.replies and .seen, posted and dispatched; .heard, messages handled;
   .last, per port the messages posted when the page closed it. *)

Open == MaxPosts + 1
NoMail == [do |-> "connect", port |-> 0, n |-> 0]

Fresh ==
  [opened |-> 0, posted |-> 0, channel |-> <<>>, thread |-> "script", at |-> NoMail,
   onconnect |-> FALSE, ports |-> {}, onmessage |-> {}, closed |-> FALSE,
   queue |-> <<>>, batch |-> <<>>, replies |-> <<>>, seen |-> <<>>, heard |-> <<>>,
   last |-> [p \in Port |-> Open]]

\* The first constructor makes the thread, which runs its script at once.
Init == shared = Fresh

----------------------------------------------------------------------------
(* The page.  It is not told whether the thread still runs. *)

Send(s, do, p, n) == [s EXCEPT !.channel = Append(@, [do |-> do, port |-> p, n |-> n])]

\* new SharedWorker of the same address and name: one more port.
Connect ==
  /\ shared.opened < MaxPorts
  /\ shared' = Send([shared EXCEPT !.opened = @ + 1], "connect", shared.opened + 1, 0)

Post(p) ==
  /\ p <= shared.opened /\ shared.posted < MaxPosts
  /\ shared' = Send([shared EXCEPT !.posted = @ + 1], "message", p, shared.posted + 1)

\* The port of the page stays: it may still post, and hears what is under way.
ClosePort(p) ==
  /\ p <= shared.opened /\ shared.last[p] = Open
  /\ shared' = Send([shared EXCEPT !.last[p] = shared.posted], "close", p, 0)

\* drain_shared_worker_messages takes the queue ...
Drain ==
  /\ shared.batch = <<>> /\ shared.queue # <<>>
  /\ shared' = [shared EXCEPT !.batch = shared.queue, !.queue = <<>>]

\* ... and hands each reply to the handler of the port it is tagged with.
Dispatch ==
  /\ shared.batch # <<>>
  /\ shared' = [shared EXCEPT !.batch = Tail(@), !.seen = Append(@, Head(shared.batch))]

----------------------------------------------------------------------------
(* The thread: its script, and the handlers it runs for one piece of mail. *)

Running == shared.thread \in {"script", "handler"}

Listens ==
  /\ Running
  /\ \/ shared' = [shared EXCEPT !.onconnect = TRUE]
     \/ \E p \in shared.ports : shared' = [shared EXCEPT !.onmessage = @ \cup {p}]

\* postMessage on a port the script has seen, also one that is closed by now.
Replies ==
  /\ shared.thread = "handler" /\ Len(shared.replies) < MaxReplies
  /\ LET r == <<shared.at.port, shared.at.n>> IN
     shared' = [shared EXCEPT !.queue = Append(@, r), !.replies = Append(@, r)]

\* close() of the worker's side of a port.
DropsPort == Running /\ \E p \in shared.ports : shared' = [shared EXCEPT !.ports = @ \ {p}]

ClosesItself == Running /\ shared' = [shared EXCEPT !.closed = TRUE]

\* The pump looks at the flag before it waits for mail; nobody else sets it.
ScriptEnds ==
  /\ Running
  /\ shared' = [shared EXCEPT !.thread = IF shared.closed THEN "done" ELSE "receive", !.at = NoMail]

\* handle_connect, handle_message, or the port forgotten; what nobody listens for is lost.
Receive ==
  /\ shared.thread = "receive" /\ shared.channel # <<>>
  /\ LET mail == Head(shared.channel)
         runs == CASE mail.do = "connect" -> shared.onconnect
                   [] mail.do = "message" -> mail.port \in shared.ports \cap shared.onmessage
                   [] OTHER -> FALSE
     IN shared' = [shared EXCEPT
          !.channel = Tail(@), !.at = IF runs THEN mail ELSE NoMail,
          !.thread = IF runs THEN "handler" ELSE "receive",
          !.heard = IF runs /\ mail.do = "message" THEN Append(@, <<mail.port, mail.n>>) ELSE @,
          !.ports = CASE mail.do = "connect" -> @ \cup {mail.port}
                      [] mail.do = "close" -> @ \ {mail.port}
                      [] OTHER -> @]

----------------------------------------------------------------------------
Next ==
  \/ Receive \/ Listens \/ Replies \/ DropsPort \/ ClosesItself \/ ScriptEnds
  \/ Connect \/ Drain \/ Dispatch
  \/ \E p \in Port : Post(p) \/ ClosePort(p)

Spec == Init /\ [][Next]_shared

----------------------------------------------------------------------------
(* Properties. *)

TypeOK ==
  /\ shared.thread \in {"script", "receive", "handler", "done"}
  /\ shared.channel \in Seq(Mail) /\ shared.heard \in Seq(Heard)
  /\ shared.onmessage \cup shared.ports \subseteq 1..shared.opened
  /\ {shared.queue, shared.batch, shared.seen} \subseteq Seq(Heard)

\* Replies reach the page in the order they were posted, none lost and each with its
\* own port, however the ports' traffic is mixed.
RepliesInOrder == shared.seen \o shared.batch \o shared.queue = shared.replies

\* The worker hears messages in the order they were posted, over all ports, and on a
\* port none that the page posted after closing it.
HeardInOrder ==
  /\ \A i, j \in DOMAIN shared.heard : i < j => shared.heard[i][2] < shared.heard[j][2]
  /\ \A i \in DOMAIN shared.heard : shared.heard[i][2] <= shared.last[shared.heard[i][1]]

==============================================================================
