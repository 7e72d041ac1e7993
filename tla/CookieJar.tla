------------------------------- MODULE CookieJar -------------------------------
(***************************************************************************)
(* The cookie jar of src/src/net/cookies.rs: what it takes in, what it     *)
(* sends, and the file that keeps it over a restart.  A domain is its      *)
(* labels from the right and a path its segments, so that both matchings   *)
(* are prefixes.  A cookie's name and value are left out: two cookies of   *)
(* one domain and path are one cookie in two versions.  A partition is the *)
(* host of the outermost page, or none.  The program's own calls name no   *)
(* outermost page, so its cookies have no partition; the tests' calls do.  *)
(***************************************************************************)
EXTENDS Integers, FiniteSets, SequencesExt

CONSTANTS
  Label,            \* of hosts and of paths
  Cookies,          \* what servers set
  Requests,         \* [host, path, tls, cross, top, get, outer]: the requests made
  MaxTime           \* bound on the clock

\* A cookie's expiry is a time, or Session.
Session == 0
Parts == Seq(Label)
Bounds ==
  /\ MaxTime \in Nat \ {0}
  /\ \A c \in Cookies : c.expires \in Nat /\ {c.domain, c.path} \subseteq Parts
  /\ \A r \in Requests : {r.host, r.path} \subseteq Parts

VARIABLE jar
(* jar.cookies: in order; jar.disk, jar.tmp: the file and its successor;
   jar.at: "idle", or the step of persist that is next; jar.now: the clock.
   History: jar.stale, the last persist failed; jar.header, what the last request
   carried, and jar.request. *)

Init ==
  jar = [cookies |-> <<>>, disk |-> <<>>, tmp |-> <<>>, at |-> "idle", now |-> 1,
         stale |-> FALSE, request |-> <<>>, header |-> <<>>]

----------------------------------------------------------------------------

SameCookie(c, d) == c.domain = d.domain /\ c.path = d.path

\* parse_set_cookie refuses SameSite=None without Secure, and Partitioned without both.
Parses(c) == /\ c.same_site = "none" => c.secure
             /\ c.partition # {} => c.same_site = "none"

\* The cookies of cs that are in S, in their order.
Retained(cs, S) ==
  LET kept[n \in 0..Len(cs)] ==
        IF n = 0 THEN <<>>
        ELSE IF cs[n] \in S THEN Append(kept[n - 1], cs[n]) ELSE kept[n - 1]
  IN kept[Len(cs)]

\* insert: an expired cookie deletes, a known one is replaced where it is.
Inserted(cs, c) ==
  IF c.expires # Session /\ c.expires <= jar.now
    THEN Retained(cs, {d \in Cookies : ~SameCookie(c, d)})
    ELSE IF \E i \in DOMAIN cs : SameCookie(c, cs[i])
           THEN LET i == CHOOSE i \in DOMAIN cs :
                           SameCookie(c, cs[i]) /\ \A j \in 1..(i - 1) : ~SameCookie(c, cs[j])
                IN [cs EXCEPT ![i] = c]
           ELSE Append(cs, c)

\* A response's Set-Cookie header, or document.cookie = ...
Insert ==
  /\ jar.at = "idle"
  /\ \E c \in {c \in Cookies : Parses(c)} :
       jar' = [jar EXCEPT !.cookies = Inserted(@, c), !.at = "write",
                          !.request = <<>>, !.header = <<>>]

\* A file operation that fails leaves the old file, and nobody hears of it.
Fails == jar' = [jar EXCEPT !.at = "idle", !.stale = TRUE]

Persistent(cs) == Retained(cs, {c \in Cookies : c.expires # Session})

\* persist encodes the cookies that have an expiry into a new file ...
WriteFile ==
  /\ jar.at = "write"
  /\ \/ jar' = [jar EXCEPT !.tmp = Persistent(jar.cookies), !.at = "rename"]
     \/ Fails

\* ... and renames it over the old one.
RenameFile ==
  /\ jar.at = "rename"
  /\ \/ jar' = [jar EXCEPT !.disk = jar.tmp, !.at = "idle", !.stale = FALSE]
     \/ Fails

----------------------------------------------------------------------------

\* A host is the sequence of its labels from the right, a path that of its segments.
domain_matches(c, r) == IsPrefix(c.domain, r.host)
path_matches(c, r) == IsPrefix(c.path, r.path)

\* header_for_with_top: the transport, the host, the path, the partition and
\* SameSite let the cookie go.
Applies(c, r) ==
  /\ c.secure => r.tls
  /\ domain_matches(c, r) /\ path_matches(c, r)
  /\ c.partition # {} => c.partition = r.outer
  /\ r.cross => \/ c.same_site = "lax" /\ r.top /\ r.get
                \/ c.same_site = "none" /\ c.secure

\* A cookie goes behind those whose path is as long or longer.
Placed(hits, c) ==
  LET n == CHOOSE n \in 0..Len(hits) :
             /\ \A i \in 1..n : Len(hits[i].path) >= Len(c.path)
             /\ n < Len(hits) => Len(hits[n + 1].path) < Len(c.path)
  IN InsertAt(hits, n + 1, c)

\* The longest path first; cookies of one length in the order of the jar.
ByPath(cs) ==
  LET sorted[n \in 0..Len(cs)] == IF n = 0 THEN <<>> ELSE Placed(sorted[n - 1], cs[n])
  IN sorted[Len(cs)]

Send ==
  /\ jar.at = "idle"
  /\ \E r \in Requests :
       jar' = [jar EXCEPT !.request = <<r>>,
                          !.header = ByPath(Retained(jar.cookies, {c \in Cookies : Applies(c, r)}))]

----------------------------------------------------------------------------
Tick ==
  /\ jar.at = "idle" /\ jar.now < MaxTime
  /\ jar' = [jar EXCEPT !.now = @ + 1]

\* load_from_disk: the cookies of cs that have an expiry and not come to it.
Alive(cs) == Retained(cs, {c \in Cookies : c.expires > jar.now})

\* The process ends between two steps, and the next one loads the file.
Restart ==
  jar' = [jar EXCEPT !.cookies = Alive(jar.disk),
                     !.at = "idle", !.stale = FALSE, !.request = <<>>, !.header = <<>>]

Next == Insert \/ WriteFile \/ RenameFile \/ Send \/ Tick \/ Restart

Spec == Init /\ [][Next]_jar

----------------------------------------------------------------------------
(* Properties. *)

TypeOK ==
  /\ ToSet(jar.cookies) \cup ToSet(jar.disk) \cup ToSet(jar.tmp) \subseteq Cookies
  /\ ToSet(jar.header) \subseteq ToSet(jar.cookies) /\ ToSet(jar.request) \subseteq Requests
  /\ jar.at \in {"idle", "write", "rename"} /\ jar.now \in 1..MaxTime

\* What a restart would find is what the jar holds, except what a restart may
\* forget: sessions, and expired cookies, which stay in the jar until then; and a
\* process that ends while it writes finds the jar of before (persist).
FileIsJar ==
  /\ \A c \in ToSet(jar.disk) : c.expires # Session
  /\ jar.at = "idle" /\ ~jar.stale => Alive(jar.disk) = Alive(jar.cookies)

\* Cookies go to their own host or to one below it, under their own path, over
\* TLS if they are secure, and within their partition; across sites a strict one
\* never goes, a lax one with a GET to the top level only, and no other without
\* TLS; one version of a cookie at most is held, and so sent; and what is sent is
\* in the order of RFC 6265 5.4 (insert, parse_set_cookie, header_for_with_top).
Below(part, whole) ==
  Len(part) <= Len(whole) /\ \A n \in DOMAIN part : part[n] = whole[n]
HeaderSound ==
  /\ \A i, j \in DOMAIN jar.cookies : i # j => ~SameCookie(jar.cookies[i], jar.cookies[j])
  /\ \A i \in DOMAIN jar.header : \A r \in ToSet(jar.request) :
       LET c == jar.header[i] IN
       /\ \A j \in DOMAIN jar.header : i < j => Len(c.path) >= Len(jar.header[j].path)
       /\ Below(c.domain, r.host) /\ Below(c.path, r.path)
       /\ c.secure => r.tls
       /\ c.partition \subseteq r.outer
       /\ r.cross => /\ c.same_site # "strict"
                     /\ c.same_site = "lax" => r.top /\ r.get
                     /\ c.same_site = "none" => r.tls

==============================================================================
