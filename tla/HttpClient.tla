------------------------------ MODULE HttpClient ------------------------------
(***************************************************************************)
(* What the client of src/src/net/mod.rs decides about a request, hop by   *)
(* hop of its redirects: the upgrade to https, mixed content, cookies,     *)
(* CORS and the cache.  Getting a hop's request to its server is one step  *)
(* here; HttpTransport has its inside, HttpCache the cache's files.  A URL *)
(* is its scheme and host, a site is a host.                               *)
(***************************************************************************)
EXTENDS Integers, FiniteSets

CONSTANTS
  Host,
  Preloaded,        \* hosts on the bundled HSTS list
  Blocked,          \* hosts on the blocklist
  Pages,            \* URLs of pages that make requests
  Cacheable,        \* URLs whose answers may be cached
  max_redirects

URL == [tls : BOOLEAN, host : Host]

Bounds ==
  /\ Host # {} /\ Preloaded \subseteq Host /\ Blocked \subseteq Host
  /\ Pages \subseteq URL /\ Cacheable \subseteq URL
  /\ max_redirects \in Nat \ {0}

VARIABLE client
(* client.hsts: hosts; client.jar: hosts with cookies; client.cache: what a
   script of another origin may read of each entry, "open" or "private".
   client.at: where the request is; client.url, .post, .depth: of its hop;
   client.initiator (at most one URL), .cors, .top: its context.
   client.cookie: the hop carries cookies; client.body: what was delivered. *)

Context(initiator, cors, top) == [initiator |-> initiator, cors |-> cors, top |-> top]

Init ==
  client = [hsts |-> {}, jar |-> {}, cache |-> [u \in Cacheable |-> "none"],
            at |-> "idle", url |-> CHOOSE u \in URL : TRUE, post |-> FALSE, depth |-> 0,
            context |-> Context({}, FALSE, FALSE), cookie |-> FALSE, body |-> "none"]

----------------------------------------------------------------------------
is_third_party_subresource(u, c) == ~c.top /\ \E i \in c.initiator : i.host # u.host

cors_allows(allow, u, c) == \/ allow = "open" \/ ~c.cors \/ \A i \in c.initiator : i = u

\* get_with and post_with, with the context of the caller.
Request ==
  /\ client.at = "idle"
  /\ \E u \in URL, post \in BOOLEAN, i \in {{}} \cup {{p} : p \in Pages}, cors, top \in BOOLEAN :
       client' = [client EXCEPT !.at = "admit", !.url = u, !.post = post, !.depth = 0,
                                !.context = Context(i, cors, top), !.cookie = FALSE, !.body = "none"]

\* Mutant of Upgraded: a redirect is not upgraded.
UpgradedOnce(u) ==
  IF client.depth = 0 /\ u.host \in client.hsts \cup Preloaded THEN [u EXCEPT !.tls = TRUE] ELSE u

Upgraded(u) == IF u.host \in client.hsts \cup Preloaded THEN [u EXCEPT !.tls = TRUE] ELSE u

\* Every error ends the request.
Refuse == client' = [client EXCEPT !.at = "idle"]

\* Mutant of Exhausted: one hop more.
ExhaustedLate(depth) == depth > max_redirects

Exhausted(depth) == depth >= max_redirects

\* do_request, up to the cache: redirects, HSTS, mixed content, blocklist.
Admit ==
  /\ client.at = "admit"
  /\ LET u == Upgraded(client.url) IN
     IF \/ Exhausted(client.depth)
        \/ ~u.tls /\ \E i \in client.context.initiator : i.tls
        \/ u.host \in Blocked
       THEN Refuse
       ELSE client' = [client EXCEPT !.url = u, !.at = "lookup"]

\* A fresh entry is served, if CORS allows it for this reader too; whether it is
\* fresh, and readable, is the clock's and the disk's affair.
ServeCached ==
  /\ client.at = "lookup" /\ ~client.post
  /\ client.url \in Cacheable /\ client.cache[client.url] # "none"
  /\ IF cors_allows(client.cache[client.url], client.url, client.context)
       THEN client' = [client EXCEPT !.at = "idle", !.body = client.cache[client.url]]
       ELSE Refuse

\* Otherwise the request is written, with cookies unless it is a third party's.
Send ==
  /\ client.at = "lookup"
  /\ client' = [client EXCEPT !.at = "wait",
                  !.cookie = /\ ~is_third_party_subresource(client.url, client.context)
                             /\ client.url.host \in client.jar]

\* No rung of the ladder brought an answer.
Unanswered ==
  /\ client.at = "wait"
  /\ Refuse

\* The state once an answer's cookies and its HSTS header are taken in.
Ingested(cookies, sts) ==
  LET third == is_third_party_subresource(client.url, client.context) IN
  [client EXCEPT !.jar = IF cookies /\ ~third THEN @ \cup {client.url.host} ELSE @,
                 !.hsts = IF sts /\ client.url.tls THEN @ \cup {client.url.host} ELSE @]

\* The cache takes the answer to a GET, if it may be kept; a redirect too, which a
\* later hit hands to the caller as it is.
Stored(c, allow, store) ==
  IF store /\ ~client.post /\ client.url \in Cacheable
    THEN [c EXCEPT !.cache[client.url] = allow] ELSE c

\* An answer: cookies and HSTS, then CORS, then the cache, then the caller.
Answer ==
  /\ client.at = "wait"
  /\ \E cookies, sts, store \in BOOLEAN, allow \in {"open", "private"} :
       LET in == Ingested(cookies, sts) IN
       client' = IF cors_allows(allow, client.url, client.context)
                   THEN [Stored(in, allow, store) EXCEPT !.at = "idle", !.body = allow]
                   ELSE [in EXCEPT !.at = "idle"]

\* 304: the cached body goes out under the new answer's headers.
NotModified ==
  /\ client.at = "wait" /\ ~client.post
  /\ client.url \in Cacheable /\ client.cache[client.url] # "none"
  /\ \E cookies, sts \in BOOLEAN, allow \in {"open", "private"} :
       LET in == Ingested(cookies, sts) IN
       client' = IF cors_allows(allow, client.url, client.context)
                   THEN [in EXCEPT !.at = "idle", !.body = allow]
                   ELSE [in EXCEPT !.at = "idle"]

\* Mutant of Redirected: hops are not counted.
RedirectedUncounted(c, u, post) == [c EXCEPT !.at = "admit", !.url = u, !.post = post]

Redirected(c, u, post) ==
  [c EXCEPT !.at = "admit", !.url = u, !.post = post, !.depth = @ + 1]

\* A redirect is followed in the context of the first request; 303, and 301 and
\* 302 of a POST, turn it into a GET.  A Location that is no URL is an error, when
\* the answer has been taken in and stored; with none, the answer is the caller's.
Redirect ==
  /\ client.at = "wait"
  /\ \E cookies, sts, store, keeps \in BOOLEAN, allow \in {"open", "private"}, u \in URL :
       LET in == Ingested(cookies, sts)
           kept == Stored(in, allow, store) IN
       IF cors_allows(allow, client.url, client.context)
         THEN \/ client' = Redirected(kept, u, client.post /\ keeps)
              \/ client' = [kept EXCEPT !.at = "idle"]
         ELSE client' = [in EXCEPT !.at = "idle"]

\* The clock and the cap take entries away (HttpCache).
Evict ==
  /\ client.at = "idle"
  /\ \E u \in Cacheable : client' = [client EXCEPT !.cache[u] = "none"]

----------------------------------------------------------------------------
Step == Admit \/ ServeCached \/ Send \/ Unanswered \/ Answer \/ NotModified \/ Redirect
Next == Request \/ Step \/ Evict

Spec == Init /\ [][Next]_client

\* The calls of do_request return: each has a timeout.
Fairness == WF_client(Step)
FairSpec == Spec /\ Fairness

----------------------------------------------------------------------------
(* Properties. *)

TypeOK ==
  /\ client.hsts \subseteq Host /\ client.jar \subseteq Host
  /\ client.cache \in [Cacheable -> {"none", "open", "private"}]
  /\ client.at \in {"idle", "admit", "lookup", "wait"}
  /\ client.url \in URL /\ client.post \in BOOLEAN /\ client.depth \in 0..max_redirects
  /\ client.context \in [initiator : SUBSET URL, cors : BOOLEAN, top : BOOLEAN]
  /\ client.cookie \in BOOLEAN /\ client.body \in {"none", "open", "private"}

\* On the wire, at every hop of every chain: no request to a blocked host, no plain
\* one to a host that is preloaded or asked for https before, or for a page that came
\* over https, and no cookies with another site's subresource (do_request).
WireKeepsPolicy ==
  client.at = "wait" =>
    /\ client.url.host \notin Blocked
    /\ client.url.host \in client.hsts \cup Preloaded => client.url.tls
    /\ (\E i \in client.context.initiator : i.tls) => client.url.tls
    /\ client.cookie => ~is_third_party_subresource(client.url, client.context)

\* A script is handed no body of another origin that the body's answer does not
\* open to it, whoever had it cached (cors_allows and the recheck on a hit).
ReadersAllowed ==
  client.body = "private" /\ client.context.cors =>
    \A i \in client.context.initiator : i = client.url

\* Every request ends, a circle of redirects too.
RequestsEnd == client.at # "idle" ~> client.at = "idle"

==============================================================================
