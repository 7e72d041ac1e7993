----------------------------- MODULE HttpTransport -----------------------------
(***************************************************************************)
(* How the client of src/src/net/mod.rs gets one request to a server: over *)
(* HTTP/3, else HTTP/2, else HTTP/1.1, with a blacklist for each of the    *)
(* upper two, a pool of HTTP/2 senders (h_pool.rs) and one of HTTP/1.1     *)
(* connections.  Every rung may fail before the request was written, or    *)
(* after, when the server may have acted on it.                            *)
(***************************************************************************)
EXTENDS Integers, FiniteSets, SequencesExt

CONSTANTS
  Host,
  POOL_CAP          \* idle HTTP/1.1 connections kept per host and scheme

Bounds == POOL_CAP \in Nat \ {0} /\ Host # {}

Rungs == {"h3", "h2_pooled", "h2", "h1_pooled", "h1"}

\* How far down the ladder a rung is.
Depth ==
  [r \in Rungs |-> CASE r = "h3" -> 1 [] r = "h2_pooled" -> 2 [] r = "h2" -> 3
                     [] r = "h1_pooled" -> 4 [] r = "h1" -> 5]

VARIABLE net
(* net.pooled: the pool of HTTP/2 senders could be set up;
   net.h3_blacklist, net.h2_blacklist: hosts; net.h2_senders: hosts with a
   cached sender; net.pool: idle connections per host and scheme.
   net.at: the rung being tried; net.host, net.tls: of the request.
   History: net.tried, the rungs that were tried; net.sent, how often the
   request was written; net.answered, whether it was. *)

Init ==
  \E pooled \in BOOLEAN :
    net = [pooled |-> pooled, h3_blacklist |-> {}, h2_blacklist |-> {}, h2_senders |-> {},
           pool |-> [k \in Host \X BOOLEAN |-> 0],
           at |-> "idle", host |-> CHOOSE h \in Host : TRUE, tls |-> FALSE,
           tried |-> <<>>, sent |-> 0, answered |-> FALSE]

----------------------------------------------------------------------------
\* What a rung comes to: "answer", or a failure, "early" or once "written".
Outcome == {"answer", "early", "written"}

\* The state after the rung has come to o and the request goes on to rung next.
Tried(o, next) ==
  [net EXCEPT !.at = IF o = "answer" THEN "idle" ELSE next,
              !.tried = Append(@, net.at),
              !.sent = IF o = "early" THEN @ ELSE @ + 1,
              !.answered = o = "answer"]

\* The first rung of a request without HTTP/3: HTTP/2 for https hosts that are
\* not on its blacklist, through the pool if it holds a sender.
H2OrH1(h, tls) ==
  IF tls /\ h \notin net.h2_blacklist
    THEN IF h \in net.h2_senders THEN "h2_pooled" ELSE "h2"
    ELSE "h1_pooled"

\* do_request has a request to send.
Request(h, tls) ==
  /\ net.at = "idle"
  /\ net' = [net EXCEPT !.host = h, !.tls = tls, !.tried = <<>>, !.sent = 0, !.answered = FALSE,
                        !.at = IF tls /\ h \notin net.h3_blacklist THEN "h3" ELSE H2OrH1(h, tls)]

\* HTTP/3: any failure puts the host on the blacklist for good.
TryH3 ==
  /\ net.at = "h3"
  /\ \E o \in Outcome :
       net' = [Tried(o, H2OrH1(net.host, TRUE)) EXCEPT
                 !.h3_blacklist = IF o = "answer" THEN @ ELSE @ \cup {net.host}]

\* Mutant of TryH2Pooled: a sender that is gone stays in the pool, and the
\* request goes down the ladder without a mark on the blacklist.
TryH2PooledUnmarked ==
  /\ net.at = "h2_pooled"
  /\ \E o \in Outcome : net' = Tried(o, "h1_pooled")

\* The cached sender: a connection that is gone leaves the pool and a new one is
\* made; another failure (a timeout, a body too large) gives HTTP/2 up.
TryH2Pooled ==
  /\ net.at = "h2_pooled"
  /\ \/ net' = Tried("answer", "idle")
     \/ \E o \in {"early", "written"} :
          net' = [Tried(o, "h2") EXCEPT !.h2_senders = @ \ {net.host}]
     \/ \E o \in {"early", "written"} :
          net' = [Tried(o, "h1_pooled") EXCEPT !.h2_blacklist = @ \cup {net.host}]

\* A new HTTP/2 connection: its sender is cached before it is used.  It leaves the
\* cache again when the connection is gone, and stays after any other failure.
TryH2 ==
  /\ net.at = "h2" /\ net.pooled
  /\ \/ net' = [Tried("answer", "idle") EXCEPT !.h2_senders = @ \cup {net.host}]
     \/ \E o \in {"early", "written"}, cached \in BOOLEAN :
          net' = [Tried(o, "h1_pooled") EXCEPT
                    !.h2_blacklist = @ \cup {net.host},
                    !.h2_senders = IF cached THEN @ \cup {net.host} ELSE @ \ {net.host}]

\* Without the pool each request makes a connection of its own (h2c.rs).
TryH2Unpooled ==
  /\ net.at = "h2" /\ ~net.pooled
  /\ \E o \in Outcome :
       net' = [Tried(o, "h1_pooled") EXCEPT
                 !.h2_blacklist = IF o = "answer" THEN @ ELSE @ \cup {net.host}]

\* A connection goes back to its pool if the answer lets it and there is room.
return_to_pool(pool, key, keep) ==
  [pool EXCEPT ![key] = IF keep /\ @ < POOL_CAP THEN @ + 1 ELSE @]

Key == <<net.host, net.tls>>

\* An idle HTTP/1.1 connection, if there is one; it is used up by any failure.
TryH1Pooled ==
  /\ net.at = "h1_pooled"
  /\ IF net.pool[Key] = 0
       THEN net' = [net EXCEPT !.at = "h1"]
       ELSE LET taken == [net.pool EXCEPT ![Key] = @ - 1] IN
            \/ \E keep \in BOOLEAN :
                 net' = [Tried("answer", "idle") EXCEPT !.pool = return_to_pool(taken, Key, keep)]
            \/ \E o \in {"early", "written"} :
                 net' = [Tried(o, "h1") EXCEPT !.pool = taken]

\* A new HTTP/1.1 connection is the last resort.
TryH1 ==
  /\ net.at = "h1"
  /\ \/ \E keep \in BOOLEAN :
          net' = [Tried("answer", "idle") EXCEPT !.pool = return_to_pool(@, Key, keep)]
     \/ \E o \in {"early", "written"} : net' = Tried(o, "idle")

----------------------------------------------------------------------------
Step == TryH3 \/ TryH2Pooled \/ TryH2 \/ TryH2Unpooled \/ TryH1Pooled \/ TryH1
Next == Step \/ \E h \in Host, tls \in BOOLEAN : Request(h, tls)

Spec == Init /\ [][Next]_net

----------------------------------------------------------------------------
(* Properties. *)

TypeOK ==
  /\ net.pooled \in BOOLEAN /\ net.h3_blacklist \subseteq Host /\ net.h2_blacklist \subseteq Host
  /\ net.h2_senders \subseteq Host
  /\ net.pool \in [Host \X BOOLEAN -> 0..POOL_CAP]
  /\ net.at \in {"idle"} \cup Rungs
  /\ net.host \in Host /\ net.tls \in BOOLEAN
  /\ net.tried \in Seq(Rungs) /\ net.sent \in Nat /\ net.answered \in BOOLEAN

\* A request goes down the ladder and never up, so that it is written at most once
\* per rung; one for https that got past HTTP/3 leaves its host marked, and so with
\* HTTP/2; and none ends in failure before the last rung was tried (do_request).
LadderDescends ==
  /\ \A i, j \in DOMAIN net.tried : i < j => Depth[net.tried[i]] < Depth[net.tried[j]]
  /\ net.sent <= Len(net.tried)
  /\ net.tls /\ net.tried # <<>> =>
       /\ Last(net.tried) # "h3" => net.host \in net.h3_blacklist
       /\ Last(net.tried) \in {"h1_pooled", "h1"} => net.host \in net.h2_blacklist
  /\ net.at = "idle" /\ ~net.answered /\ net.tried # <<>> => Last(net.tried) = "h1"

==============================================================================
