----------------------------- MODULE BrowserTabs -----------------------------
(***************************************************************************)
(* The browser shell (src/src/main.rs Browser): the active tab's state     *)
(* lives in the Browser's own fields and is swapped with the list of       *)
(* inactive tabs; each tab has a back list and a cursor into it; one       *)
(* back-forward cache keeps whole pages for all tabs; scripts ask for      *)
(* navigations through a queue that the shell serves after a frame.        *)
(*                                                                         *)
(* A page is an instance (the load that made it) with its URL.  A load is  *)
(* one step: the code fetches, runs scripts and paints before it returns.  *)
(* A load may fail at any point before the page is replaced (bad URL, no   *)
(* response, no memory to paint).  The URL bar's text is left out, and so  *)
(* is pending_url of an inactive tab, which the code never sets.           *)
(***************************************************************************)
EXTENDS Integers, SequencesExt, TLC

CONSTANTS
  Url,
  BFCACHE_CAP,
  MaxTabs,        \* bound: tabs ever opened
  MaxLoads,       \* bound: pages ever loaded
  MaxActs,        \* bound: tabs opened and pages loaded, together
  MaxRequests     \* bound: navigation requests queued at once, over all pages

ASSUME BoundsAssumption ==
  /\ BFCACHE_CAP \in Nat /\ MaxTabs \in Nat \ {0}
  /\ {MaxLoads, MaxActs, MaxRequests} \subseteq Nat

None == -1
NoPage == [load |-> 0, url |-> None]
Page == [load : 1..MaxLoads, url : Url]
Scroll == {"top", "down"}
Request == [kind : {"assign"}, url : Url] \cup [kind : {"reload", "go"}]

VARIABLES
  live,           \* the active tab's fields
  tabs,           \* the inactive tabs, in order
  active_tab,     \* position of the active tab among all, from 0
  bfcache,        \* pages left, oldest first, with their scroll positions
  requests,       \* each load's queue of navigation requests
  work,           \* requests taken out of a page's queue, still to be served
  loads,          \* pages loaded so far
  opened,         \* tabs opened so far
  scrolled        \* history: where each load's page was last scrolled to

vars == <<live, tabs, active_tab, bfcache, requests, work, loads, opened, scrolled>>

\* A tab's fields; id and tip are history: the tab's name, and the URL that the
\* last navigation which went on record led to.
BlankTab(id) == [page |-> NoPage, history |-> <<>>, history_cursor |-> None,
                 scroll_y |-> "top", id |-> id, tip |-> None]

tab_count == Len(tabs) + 1

Init ==
  /\ live = BlankTab(1) /\ tabs = <<>> /\ active_tab = 0 /\ opened = 1
  /\ bfcache = <<>> /\ work = <<>> /\ loads = 0
  /\ requests = [l \in 1..MaxLoads |-> <<>>]
  /\ scrolled = [l \in 1..MaxLoads |-> "top"]

----------------------------------------------------------------------------
(* The back-forward cache. *)

\* The entries of every other URL, in their order.
Drop(cache, url) ==
  LET kept[n \in 0..Len(cache)] ==
        IF n = 0 THEN <<>>
        ELSE IF cache[n].page.url = url THEN kept[n - 1] ELSE Append(kept[n - 1], cache[n])
  IN kept[Len(cache)]

\* Mutant of bfcache_push: an older page of the same URL is kept.
PushAnother(cache, page, scroll) ==
  IF page = NoPage THEN cache ELSE
  LET pushed == Append(cache, [page |-> page, scroll_y |-> scroll])
  IN IF Len(pushed) > BFCACHE_CAP THEN Tail(pushed) ELSE pushed

\* The newer page of a URL wins, and the oldest entry goes when there are too many.
bfcache_push(cache, page, scroll) ==
  IF page = NoPage THEN cache ELSE
  LET pushed == Append(Drop(cache, page.url), [page |-> page, scroll_y |-> scroll])
  IN IF Len(pushed) > BFCACHE_CAP THEN Tail(pushed) ELSE pushed

\* navigate(url, record_history), the live tab being t and the cache that given:
\* a page in the cache is put back when the navigation goes off the record; else
\* a page is loaded.
Restore(cache, t, url) ==
  \E i \in DOMAIN cache :
    /\ cache[i].page.url = url
    /\ live' = [t EXCEPT !.page = cache[i].page, !.scroll_y = cache[i].scroll_y]
    /\ bfcache' = bfcache_push(RemoveAt(cache, i), t.page, t.scroll_y)
    /\ UNCHANGED <<loads, scrolled>>

MayLoad == loads < MaxLoads /\ opened + loads < MaxActs

Fail(cache, t) == live' = t /\ bfcache' = cache /\ UNCHANGED <<loads, scrolled>>

\* Mutant of Load: the scroll position of the page that was shown stays.
LoadScrolled(cache, t, url, record) ==
  /\ MayLoad
  /\ loads' = loads + 1
  /\ live' = [t EXCEPT !.page = [load |-> loads + 1, url |-> url]]
  /\ bfcache' = cache
  /\ UNCHANGED scrolled

Load(cache, t, url, record) ==
  LET shown == record /\ t.page # NoPage IN
  /\ MayLoad
  /\ loads' = loads + 1
  /\ live' = [t EXCEPT
       !.page = [load |-> loads + 1, url |-> url],
       !.scroll_y = "top",
       !.history = IF shown THEN Append(@, t.page.url) ELSE @,
       !.history_cursor = IF shown THEN None ELSE @,
       !.tip = IF record THEN url ELSE @]
  /\ bfcache' = IF shown THEN bfcache_push(cache, t.page, t.scroll_y) ELSE cache
  /\ UNCHANGED scrolled

navigate(cache, t, url, record) ==
  IF ~record /\ \E e \in ToSet(cache) : e.page.url = url
  THEN Restore(cache, t, url)
  ELSE Fail(cache, t) \/ Load(cache, t, url, record)

\* Mutant of reload: the cache keeps its page of the URL.
ReloadCached ==
  IF live.page = NoPage THEN Fail(bfcache, live)
  ELSE navigate(bfcache, live, live.page.url, FALSE)

\* The cache forgets the URL; then the page is navigated to, off the record.
reload ==
  IF live.page = NoPage THEN Fail(bfcache, live)
  ELSE navigate(Drop(bfcache, live.page.url), live, live.page.url, FALSE)

history_back ==
  LET len == Len(live.history)
      cursor == live.history_cursor
      target == IF cursor = None THEN len - 1 ELSE cursor - 1
  IN IF len = 0 \/ cursor = 0 THEN Fail(bfcache, live)
     ELSE navigate(bfcache, [live EXCEPT !.history_cursor = target],
                   live.history[target + 1], FALSE)

history_forward ==
  LET cursor == live.history_cursor IN
  IF cursor = None THEN Fail(bfcache, live)
  ELSE IF cursor + 1 >= Len(live.history)
       THEN Fail(bfcache, [live EXCEPT !.history_cursor = None])
       ELSE navigate(bfcache, [live EXCEPT !.history_cursor = cursor + 1],
                     live.history[cursor + 2], FALSE)

----------------------------------------------------------------------------
(* What the user does, between frames. *)

Idle == work = <<>>
Elsewhere == UNCHANGED <<tabs, active_tab, requests, work, opened>>

\* The URL bar, a link, a form.
Visit(url) == Idle /\ navigate(bfcache, live, url, TRUE) /\ Elsewhere
Reload == Idle /\ reload /\ Elsewhere
Back == Idle /\ history_back /\ Elsewhere
Forward == Idle /\ history_forward /\ Elsewhere

\* The wheel, or a script's scrollIntoView.
ScrollTo(y) ==
  /\ Idle /\ live.page # NoPage
  /\ live' = [live EXCEPT !.scroll_y = y]
  /\ scrolled' = [scrolled EXCEPT ![live.page.load] = y]
  /\ UNCHANGED <<tabs, active_tab, bfcache, requests, work, loads, opened>>

\* Where the tab at a display position other than the active one is in the list.
Slot(index) == IF index < active_tab THEN index + 1 ELSE index

SwitchToTab(index) ==
  /\ Idle /\ index \in 0..(tab_count - 1) \ {active_tab}
  /\ live' = tabs[Slot(index)]
  /\ tabs' = [tabs EXCEPT ![Slot(index)] = live]
  /\ active_tab' = index
  /\ UNCHANGED <<bfcache, requests, work, loads, opened, scrolled>>

OpenNewTab ==
  /\ Idle /\ opened < MaxTabs /\ opened + loads < MaxActs
  /\ opened' = opened + 1
  /\ tabs' = InsertAt(tabs, active_tab + 1, live)
  /\ live' = BlankTab(opened + 1)
  /\ active_tab' = active_tab + 1
  /\ UNCHANGED <<bfcache, requests, work, loads, scrolled>>

\* Mutant of CloseLastTab: the cursor is forgotten.
CloseKeepsCursor ==
  /\ Idle /\ tabs = <<>>
  /\ live' = [BlankTab(live.id) EXCEPT !.history_cursor = live.history_cursor]
  /\ UNCHANGED <<tabs, active_tab, bfcache, requests, work, loads, opened, scrolled>>

\* The last tab is blanked.
CloseLastTab ==
  /\ Idle /\ tabs = <<>>
  /\ live' = BlankTab(live.id)
  /\ UNCHANGED <<tabs, active_tab, bfcache, requests, work, loads, opened, scrolled>>

\* Mutant of CloseTab: the next tab is shown at the previous one's position.
CloseShowsNext(index) ==
  /\ Idle /\ tabs # <<>>
  /\ IF index = active_tab
     THEN LET take == IF active_tab < Len(tabs) THEN active_tab + 1 ELSE active_tab
          IN live' = tabs[take] /\ tabs' = RemoveAt(tabs, take)
     ELSE UNCHANGED live /\ tabs' = RemoveAt(tabs, Slot(index))
  /\ active_tab' = IF index <= active_tab /\ active_tab > 0
                   THEN active_tab - 1 ELSE active_tab
  /\ UNCHANGED <<bfcache, requests, work, loads, opened, scrolled>>

\* With the active tab closed the previous one becomes active, or the next one.
CloseTab(index) ==
  /\ Idle /\ tabs # <<>>
  /\ IF index = active_tab
     THEN LET take == IF active_tab > 0 THEN active_tab ELSE 1
          IN live' = tabs[take] /\ tabs' = RemoveAt(tabs, take)
     ELSE UNCHANGED live /\ tabs' = RemoveAt(tabs, Slot(index))
  /\ active_tab' = IF index <= active_tab /\ active_tab > 0
                   THEN active_tab - 1 ELSE active_tab
  /\ UNCHANGED <<bfcache, requests, work, loads, opened, scrolled>>

----------------------------------------------------------------------------
(* What scripts do. *)

\* location.assign, replace and reload, history.back, forward and go by any n, a
\* form's submit(): a handler of the page shown queues a request.
Enqueue(request) ==
  /\ Idle /\ live.page # NoPage
  /\ MapThenSumSet(LAMBDA l : Len(requests[l]), DOMAIN requests) < MaxRequests
  /\ requests' = [requests EXCEPT ![live.page.load] = Append(@, request)]
  /\ UNCHANGED <<live, tabs, active_tab, bfcache, work, loads, opened, scrolled>>

\* process_js_nav_requests takes the queue of the page shown ...
TakeRequests ==
  /\ Idle /\ live.page # NoPage
  /\ work' = requests[live.page.load]
  /\ requests' = [requests EXCEPT ![live.page.load] = <<>>]
  /\ UNCHANGED <<live, tabs, active_tab, bfcache, loads, opened, scrolled>>

\* ... and serves it to the end, whatever page the requests lead to.
ServeRequest ==
  /\ work # <<>>
  /\ LET r == Head(work) IN
     CASE r.kind = "assign" -> navigate(bfcache, live, r.url, TRUE)
       [] r.kind = "reload" -> reload
       [] r.kind = "go" -> history_back
  /\ work' = Tail(work)
  /\ UNCHANGED <<tabs, active_tab, requests, opened>>

Next ==
  \/ \E url \in Url : Visit(url)
  \/ Reload \/ Back \/ Forward
  \/ \E y \in Scroll : ScrollTo(y)
  \/ \E index \in 0..(tab_count - 1) : SwitchToTab(index) \/ CloseTab(index)
  \/ OpenNewTab \/ CloseLastTab
  \/ \E request \in Request : Enqueue(request)
  \/ TakeRequests \/ ServeRequest

Spec == Init /\ [][Next]_vars

----------------------------------------------------------------------------
(* Properties. *)

Tab == [page : Page \cup {NoPage}, history : Seq(Url),
        history_cursor : Int, scroll_y : Scroll,
        id : 1..MaxTabs, tip : Url \cup {None}]
Tabs == {live} \cup ToSet(tabs)

\* The fields keep their types, and the indices the shell uses without a check
\* (history[target_idx], tabs[index]) are in range.
TypeOK ==
  /\ \A t \in Tabs : /\ t \in Tab
                     /\ t.history_cursor \in -1..(Len(t.history) - 1)
  /\ active_tab \in 0..Len(tabs)
  /\ Len(bfcache) <= BFCACHE_CAP
  /\ \A e \in ToSet(bfcache) : e.page \in Page /\ e.scroll_y \in Scroll
  /\ loads \in 0..MaxLoads /\ opened \in 1..MaxTabs
  /\ \A l \in 1..MaxLoads : ToSet(requests[l]) \subseteq Request

\* A page shown, left in another tab or cached keeps its own scroll position
\* (scroll_y is one field of the Browser, saved and restored by hand in
\* navigate, snapshot_active_tab and restore_into_active).
ScrollFollowsPage ==
  /\ \A t \in Tabs : t.page # NoPage => t.scroll_y = scrolled[t.page.load]
  /\ \A e \in ToSet(bfcache) : e.scroll_y = scrolled[e.page.load]

\* The cache holds at most one page of a URL, and never a page that a tab shows:
\* what Back restores is not another tab's page (bfcache_push, bfcache_take).
CacheUnambiguous ==
  /\ \A i, j \in DOMAIN bfcache : bfcache[i].page.url = bfcache[j].page.url => i = j
  /\ \A e \in ToSet(bfcache), t \in Tabs : t.page # e.page

\* The tabs as the strip displays them.
Strip == InsertAt(tabs, active_tab + 1, live)

\* Closing a tab takes exactly that tab out of the strip and leaves every other
\* one where it is, with its page, history and scroll position, whichever tab
\* is active; switching shows the tab asked for and loses or doubles none
\* (close_tab, switch_to_tab).
StripKept ==
  [][\A index \in 0..(tab_count - 1) :
       /\ CloseTab(index) => Strip' = RemoveAt(Strip, index + 1)
       /\ SwitchToTab(index) => /\ live' = Strip[index + 1]
                                /\ ToSet(Strip') = ToSet(Strip)]_vars

\* Reload, by key or by script, never puts a page back that was loaded before,
\* though navigate would look for one in the cache: it leaves the page in place or
\* shows a new load of its URL, the history stays as it was, and no older page of
\* the URL is left for a later Back (reload's comment: it bypasses the cache for
\* that URL).
ReloadFetches ==
  [][(Reload \/ (ServeRequest /\ Head(work).kind = "reload"))
       => /\ live'.page = live.page \/ live'.page.load > loads
          /\ live'.page.url = live.page.url
          /\ live'.history = live.history /\ live'.history_cursor = live.history_cursor
          /\ live.page # NoPage =>
               \A e \in ToSet(bfcache') : e.page.url # live.page.url]_vars

\* What the code's comments say of it: without a cursor the page shown is the
\* live tip (main.rs 361).
NoneMeansTip ==
  live.history_cursor = None /\ live.page # NoPage => live.page.url = live.tip

\* URLs are alike to all of this: TLC may take one for another.
UrlSymmetry == Permutations(Url)

============================================================================
