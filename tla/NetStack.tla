------------------------------- MODULE NetStack -------------------------------
(***************************************************************************)
(* The parts of the network and storage layer that one thread at a time    *)
(* works: each keeps its own state and takes what the part above it passes *)
(* down as input, so a run shows one of them, of any kind, in every        *)
(* sequence of its calls.  object is the state of that part.               *)
(***************************************************************************)
EXTENDS Integers

CONSTANTS
  Host, POOL_CAP,                                              \* transport
  Site, Preloaded, Blocked, Pages, Cacheable, max_redirects,   \* client
  THRESHOLD, max_bytes, MaxLayers,                             \* body
  Label, Cookies, Requests, MaxTime,                           \* jar
  Database, DatabaseDir, database_dir, Root, ItemKey, Value, MaxCrashes,
                                                               \* origin storage
  Item, size, SESSION_STORAGE_BYTE_CAP,                        \* session storage
  FileName, MaxWriters, MaxWrites, MaxInodes,                  \* private files
  Tab, Origin, CacheName, CacheDir, cache_dir, Url, Response,  \* caches
  WorkerHost, Hostless, Script, Source                         \* service workers

VARIABLES kind, object

TR == INSTANCE HttpTransport WITH net <- object
CL == INSTANCE HttpClient WITH client <- object, Host <- Site
RB == INSTANCE ResponseBody WITH body <- object
CJ == INSTANCE CookieJar WITH jar <- object
OS == INSTANCE OriginStorage
        WITH store <- object, Key <- ItemKey, Name <- Database, Dir <- DatabaseDir, sanitise <- database_dir,
             size <- [v \in Value |-> 1], SESSION_STORAGE_BYTE_CAP <- 0
SS == INSTANCE OriginStorage
        WITH store <- object, Key <- ItemKey, Value <- Item, Name <- {}, Dir <- {}, sanitise <- <<>>,
             MaxCrashes <- 0
PF == INSTANCE PrivateFiles WITH fs <- object
CS == INSTANCE CacheStorage
        WITH sw <- object, Page <- Tab, Name <- CacheName, Dir <- CacheDir, sanitise <- cache_dir
SF == INSTANCE ServiceWorker
        WITH sw <- object, Host <- {Hostless}, Script <- {"u"}, Source <- {"s"},
             MaxHandlers <- 2, MaxFetches <- 3, MaxDepth <- 2, MaxCrashes <- 0
SR == INSTANCE ServiceWorker
        WITH sw <- object, Host <- WorkerHost, MaxHandlers <- 3, MaxFetches <- 0, MaxDepth <- 1

ASSUME BoundsAssumption ==
  /\ TR!Bounds /\ CL!Bounds /\ RB!Bounds /\ CJ!Bounds
  /\ OS!Bounds /\ SS!Bounds /\ PF!Bounds /\ CS!Bounds /\ SF!Bounds /\ SR!Bounds

vars == <<kind, object>>

Init ==
  \/ kind = "transport" /\ TR!Init
  \/ kind = "client" /\ CL!Init
  \/ kind = "body" /\ RB!Init
  \/ kind = "jar" /\ CJ!Init
  \/ kind = "storage" /\ OS!Init
  \/ kind = "session" /\ SS!Init
  \/ kind = "files" /\ PF!Init
  \/ kind = "caches" /\ CS!Init
  \/ kind = "fetches" /\ SF!Init
  \/ kind = "registrations" /\ SR!Init

TransportNext == kind = "transport" /\ TR!Next /\ UNCHANGED kind
ClientNext == kind = "client" /\ CL!Next /\ UNCHANGED kind
BodyNext == kind = "body" /\ RB!Next /\ UNCHANGED kind
JarNext == kind = "jar" /\ CJ!Next /\ UNCHANGED kind
StorageNext == kind = "storage" /\ OS!Next /\ UNCHANGED kind
SessionNext == kind = "session" /\ SS!SessionStep /\ UNCHANGED kind
FilesNext == kind = "files" /\ PF!Next /\ UNCHANGED kind
CachesNext == kind = "caches" /\ CS!Next /\ UNCHANGED kind
FetchesNext == kind = "fetches" /\ SF!Next /\ UNCHANGED kind
RegistrationsNext == kind = "registrations" /\ SR!Next /\ UNCHANGED kind

Next ==
  \/ TransportNext \/ ClientNext \/ BodyNext \/ JarNext
  \/ StorageNext \/ SessionNext \/ FilesNext \/ CachesNext
  \/ FetchesNext \/ RegistrationsNext

Spec == Init /\ [][Next]_vars

\* The client's steps follow each other in one call: nothing keeps the next one
\* from being taken.
Fairness == WF_vars(kind = "client" /\ CL!Step /\ UNCHANGED kind)
FairSpec == Spec /\ Fairness

----------------------------------------------------------------------------
(* Each module's properties, of the part of its kind. *)

\* Every part keeps to its types.
TypeOK ==
  /\ kind = "transport" => TR!TypeOK
  /\ kind = "client" => CL!TypeOK
  /\ kind = "body" => RB!TypeOK
  /\ kind = "jar" => CJ!TypeOK
  /\ kind = "storage" => OS!TypeOK
  /\ kind = "session" => SS!TypeOK
  /\ kind = "files" => PF!TypeOK
  /\ kind = "caches" => CS!TypeOK
  /\ kind = "fetches" => SF!TypeOK
  /\ kind = "registrations" => SR!TypeOK

\* net/http.rs, h_pool.rs: a request goes down the protocols one by one and is
\* written at most once on each rung, a rung that fails for good leaves its mark
\* on the host, and no request ends in failure before the last resort was tried.
LadderDescends == kind = "transport" => TR!LadderDescends

\* What goes over the wire keeps the policies on every hop of the redirects (the
\* upgrade to https, mixed content, no cookies in a third party's subresource), a
\* script is handed no body another origin keeps from it, cached or not; and what a
\* cookie header holds may go there by its domain, path, scheme, partition and
\* SameSite, the longest path first.
PolicyHolds ==
  /\ kind = "client" => CL!WireKeepsPolicy /\ CL!ReadersAllowed
  /\ kind = "jar" => CJ!HeaderSound

\* What is kept is whole: a body that is delivered is the one that was sent (the file of
\* one that failed may stay, http.rs 84-87); the cookie file is a jar the process had; an
\* item is a value that was written even if the process dies in between; a private file
\* has the content of one writer; a page that read its origin's caches, and after which no
\* write of its own failed and nobody else wrote, sees them as they are on disk; a fetch
\* with no other in it and no late answer on its way gets what its own worker said; a
\* host's file of registrations has the last of each script, and a process that read the
\* file of the pages without a host, the one it reads (sw.rs 23-26 has it read all), has
\* their handlers; and session storage keeps under its cap.
KeptWhole ==
  /\ kind = "body" => RB!BodyWhole
  /\ kind = "jar" => CJ!FileIsJar
  /\ kind = "storage" => OS!ValuesWhole
  /\ kind = "session" => SS!UnderCap
  /\ kind = "files" => PF!FilesWhole
  /\ kind = "caches" => CS!PageHasFiles
  /\ kind = "fetches" => SF!AnswersOwn
  /\ kind = "registrations" => SR!RegistrationsKept

\* A request comes to its end, redirects and retries included (net/mod.rs,
\* max_redirects).
RequestsEnd ==
  kind = "client" /\ object.at # "idle" ~> kind = "client" /\ object.at = "idle"

----------------------------------------------------------------------------
(* The constants of the run. *)

MCPages == {[tls |-> TRUE, host |-> "a"], [tls |-> FALSE, host |-> "a"]}
MCCacheable == {[tls |-> TRUE, host |-> "b"]}

Cookie(domain, path, expires, secure, same_site, partition) ==
  [domain |-> domain, path |-> path, expires |-> expires, secure |-> secure,
   same_site |-> same_site, partition |-> partition]

MCCookies ==
  { Cookie(<<"e">>, <<>>, 0, FALSE, "lax", {}), Cookie(<<"e">>, <<>>, 1, FALSE, "lax", {}),
    Cookie(<<"e">>, <<>>, 3, TRUE, "none", {}), Cookie(<<"e">>, <<"a">>, 2, FALSE, "strict", {}),
    Cookie(<<"e", "w">>, <<"a">>, 3, TRUE, "none", {"n"}),
    Cookie(<<"e", "w">>, <<"a">>, 3, FALSE, "none", {}) }

\* Every context of a request for the deepest place, and one each that falls short
\* of a path or of a host, or is under another outermost page.
Ask(host, path, tls, cross, top, get, outer) ==
  [host |-> host, path |-> path, tls |-> tls, cross |-> cross, top |-> top, get |-> get,
   outer |-> outer]
MCRequests ==
  { Ask(<<"e", "w">>, <<"a">>, tls, cross, top, get, {"n"}) :
      tls, cross, top, get \in BOOLEAN }
  \cup { Ask(<<"e", "w">>, <<>>, TRUE, FALSE, TRUE, TRUE, {"n"}),
         Ask(<<"e">>, <<"a">>, TRUE, FALSE, TRUE, TRUE, {"n"}),
         Ask(<<"e", "w">>, <<"a">>, TRUE, FALSE, FALSE, TRUE, {}),
         Ask(<<"e", "w">>, <<"a">>, TRUE, TRUE, FALSE, TRUE, {"m"}) }

\* A name without letters names the root of the origin's databases.
MCdatabase_dir == [n \in Database |-> IF n = "..." THEN "/" ELSE "d"]
MCcache_dir == [n \in CacheName |-> "n"]
MCsize == [v \in Item |-> IF v = "long" THEN 3 ELSE 1]

==============================================================================
