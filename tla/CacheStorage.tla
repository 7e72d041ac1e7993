----------------------------- MODULE CacheStorage -----------------------------
(***************************************************************************)
(* The Cache API (src/src/js/sw.rs): caches that live in the memory of     *)
(* each page's engine and, one file per entry, on disk.                    *)
(*                                                                         *)
(* Pages of all tabs share one thread, and with it the record of the origin*)
(* whose caches were read last.                                            *)
(***************************************************************************)
EXTENDS FiniteSets

CONSTANTS
  Page, Origin,
  Name,             \* of caches; those in Dir name their own directory
  Dir, sanitise,    \* [Name -> Dir]
  Url, Response

\* No entry, no page, no origin.
None == "none"

Bounds ==
  /\ sanitise \in [Name -> Dir] /\ Dir \subseteq Name /\ \A d \in Dir : sanitise[d] = d
  /\ None \notin Page /\ "closed" \notin Response

Files == [Dir \X Url -> Response \cup {None}]
NoFiles == [f \in Dir \X Url |-> None]
Cache == [Url -> Response \cup {None}]
Empty == [u \in Url |-> None]
Closed == [u \in Url |-> "closed"]   \* a name the page has no cache of

VARIABLE sw
(* sw.page: each page's origin and the caches its engine holds;
   sw.loaded: the origin read last, CACHES_LOADED_ORIGIN;
   sw.disk: the files of each origin.  History: sw.since, per page, who wrote to its
   origin's files since it read them, with None when a write failed or before it read. *)

NoPage == [origin |-> None, caches |-> [n \in Name |-> Closed]]

Init ==
  sw = [page |-> [p \in Page |-> NoPage], loaded |-> None,
        disk |-> [o \in Origin |-> NoFiles],
        since |-> [p \in Page |-> {None}]]

Origin_(p) == sw.page[p].origin
caches(p) == sw.page[p].caches
Live(p) == Origin_(p) # None

----------------------------------------------------------------------------
(* Pages. *)

\* A page is loaded, with an engine of its own.
Navigate(p, o) ==
  sw' = [sw EXCEPT !.page[p] = [origin |-> o, caches |-> [n \in Name |-> Closed]],
                   !.since[p] = {None}]

\* The browser ends and starts again: files stay.
Restart ==
  sw' = [sw EXCEPT !.page = [p \in Page |-> NoPage], !.loaded = None,
                   !.since = [p \in Page |-> {None}]]

----------------------------------------------------------------------------
(* Caches.  Every call but those on one cache first reads what the disk holds, unless
   the origin is the one read last, be it for another page. *)

OnDisk(o, d) == \E u \in Url : sw.disk[o][d, u] # None

\* ensure_caches_loaded: what is read replaces the cache of the directory's name.
Loaded(p) ==
  IF sw.loaded = Origin_(p) THEN sw
  ELSE [sw EXCEPT
         !.loaded = Origin_(p),
         !.since[p] = {},
         !.page[p].caches = [n \in Name |->
           IF n \in Dir /\ OnDisk(Origin_(p), n) THEN [u \in Url |-> sw.disk[Origin_(p)][n, u]]
           ELSE caches(p)[n]]]

\* Who else has read the files of an origin hears nothing of a write.
Told(s, o, by) == [q \in Page |-> IF s.page[q].origin = o THEN s.since[q] \cup {by} ELSE s.since[q]]

\* caches.has, keys, match only read.
Query(p) == Live(p) /\ sw' = Loaded(p)

Open(p, n) ==
  /\ Live(p)
  /\ LET s == Loaded(p) IN
     sw' = [s EXCEPT !.page[p].caches[n] = IF @ = Closed THEN Empty ELSE @]

\* put, add and addAll: first memory, then a file beside, renamed; the script's promise
\* resolves even when that fails.
Put(p, n, u, r, written) ==
  /\ Live(p)
  /\ sw' = [sw EXCEPT
       !.page[p].caches[n] = [IF @ = Closed THEN Empty ELSE @ EXCEPT ![u] = r],
       !.disk[Origin_(p)][<<sanitise[n], u>>] = IF written THEN r ELSE @,
       !.since = Told(sw, Origin_(p), IF written THEN p ELSE None)]

Delete(p, n, u) ==
  /\ Live(p)
  /\ sw' = [sw EXCEPT
       !.page[p].caches[n] = IF @ = Closed THEN @ ELSE [@ EXCEPT ![u] = None],
       !.disk[Origin_(p)][<<sanitise[n], u>>] = None,
       !.since = Told(sw, Origin_(p), p)]

\* remove_dir_all of a cache's directory.
EmptiedDir(s, o, d) == [f \in Dir \X Url |-> IF f[1] = d THEN None ELSE s.disk[o][f]]

DeleteCache(p, n) ==
  /\ Live(p)
  /\ LET s == Loaded(p) IN
     sw' = [s EXCEPT !.page[p].caches[n] = Closed,
                     !.disk[Origin_(p)] = EmptiedDir(s, Origin_(p), sanitise[n]),
                     !.since = Told(s, Origin_(p), p)]

----------------------------------------------------------------------------
Next ==
  \/ Restart
  \/ \E p \in Page :
       \/ Query(p)
       \/ \E o \in Origin : Navigate(p, o)
       \/ \E n \in Name :
            \/ Open(p, n) \/ DeleteCache(p, n)
            \/ \E u \in Url :
                 Delete(p, n, u) \/ \E r \in Response, written \in BOOLEAN : Put(p, n, u, r, written)

Spec == Init /\ [][Next]_sw

----------------------------------------------------------------------------
(* Properties. *)

TypeOK ==
  /\ sw.page \in [Page -> [origin : Origin \cup {None}, caches : [Name -> Cache \cup {Closed}]]]
  /\ sw.loaded \in Origin \cup {None}
  /\ sw.disk \in [Origin -> Files]

\* A page that read its origin's files, while nobody else wrote to them and no write of
\* its own failed, holds each of them: it is as ready offline as the disk is
\* (sw.rs: PWAs survive restarts and stay offline-ready).
PageHasFiles ==
  \A p \in Page : sw.since[p] \subseteq {p} /\ Live(p) =>
    \A d \in Dir, u \in Url :
      LET r == sw.disk[Origin_(p)][d, u] IN
      r # None => \E n \in Name : sanitise[n] = d /\ caches(p)[n][u] = r

==============================================================================
