# TLA+ models of daboss-browser

daboss-browser is a web browser in Rust: one window, one page thread, a JavaScript
engine (boa), its own network stack, HTML parser, cascade, layout and painter. This
directory has TLA+ modules of the parts whose state lives long enough to go wrong and of
the algorithms whose result many parts rely on, the TLC runs that check them on small
instances, and proofs that TLAPS checks. Paths below are relative to the repository's
`src/`; so `main.rs` is `src/src/main.rs` as `PROJECT.json` names it.

`PROJECT.json` ties the two together: `map` gives for each definition the lines it
stands for, `runs` what TLC checks, `mutants` a changed definition for each property
that makes it fail, `theorems` what is proved, `hazards` what in this code is hard to
test, `findings` where the code and its own comments or tests disagree.

## 1. The system

Everything a page can observe happens on the **page thread**, inside winit's event loop:
window events are dispatched into the page, and when there are no more, `about_to_wait`
fires due timers, repaints, runs animation frames and decides how long to sleep. Other
threads exist for I/O and for workers only. They never touch the page: each one pushes
into a queue under a mutex, and the page thread drains the queues at the end of a turn.
What makes the page thread hard is re-entry: nearly every binding may call a script
before it returns, and the script may call the same binding again.

| Component | State | Operations | Talks to |
|---|---|---|---|
| Arena DOM (`dom/mod.rs`, `js/dom.rs`) | one vector of nodes with five links each | alloc, append_child, insert_before, detach, set_text_content, clone, adopt, under the bindings | every script through `with_dom_mut`; parser, cascade, layout read it |
| Page scheduler (`js/engine.rs`, `about_to_wait` in `main.rs`) | timer queue, frame queue, batches taken out of both | setTimeout, setInterval, clear*, requestAnimationFrame, pumps, drains, event dispatch | all queues below; the event loop's ControlFlow |
| Browser shell (`main.rs`) | active tab's fields, inactive tabs, back list and cursor, back-forward cache, script navigations; focus, hover, input method | navigate, back, forward, switch, open, close; pointer, keys, composition, paint | the network for loads, the engine for script requests and events |
| HTTP cache (`net/cache.rs`) | two files per key, hot index, sizes, eviction order, byte total | lookup, hit, 304, store, evict, rebuild at start | `net/mod.rs` do_request; the file system |
| WebSocket (`ws.rs`, `js/websocket.rs`) | socket behind a mutex, bounded queue, closed flag | reader loop, send, close, drop, drain | server, page |
| EventSource (`sse.rs`, `js/sse.rs`) | parser state, last event id, bounded queue, closed flag | connect, read, reconnect, close, drain | server, page |
| Dedicated worker (`js/worker.rs`) | mpsc channel in, queue out, stop flag | pump, postMessage both ways, terminate, close | its own engine, page |
| Shared worker (`js/shared_worker.rs`) | registry by (URL, name), one inbox, ports | constructor, postMessage, close, pump | page |
| HTTP client (`net/mod.rs`, `http.rs`, `h2c`, `h3c`, `h_pool`) | connection pools, h2 and h3 blacklists, HSTS set | the h3, h2, h1 ladder, redirects, upgrade, reading and decoding bodies | cache, cookies, policies |
| Request policies (`net/adblock`, `csp`, `sri`, ...) | parsed lists | decisions per hop | client |
| Cookies (`net/cookies.rs`) | jar, file | replace, delete, expire, match, save, load | client, `document.cookie` |
| HTML parser (`html/`) | tokenizer state, stack of open elements, insertion mode | character by character, token by token | arena DOM |
| CSS (`css/`) | parsed sheets | cascade node by node | layout |
| Layout (`layout/`) | the box tree of one pass | block, inline, flex, grid, table, anchors, hit test | paint, input |
| Paint and GPU (`paint/`, `gpu*.rs`) | tiles | one pass per render | window |
| Observers (`js/observers.rs`) | observers, watches, records | observe, disconnect, drain, tick | DOM bindings, layout |
| Service workers, Cache API (`js/sw.rs`) | registrations, handlers, caches and their files | register, install, activate, fetch, respondWith | fetch helper, file system |
| Streams, abort (`js/streams.rs`, `abort.rs`) | queues, pending reads, signals and followers | enqueue, read, tee, pipe, cancel, abort, any | scripts |
| Origin storage (`js/storage.rs`, `idb.rs`, `opfs.rs`) | files per origin, handles | put, get, delete, clear, writers | file system |
| Animations, view transitions (`js/animations.rs`, `view_transitions.rs`) | play state, clock, promises | play, pause, reverse, finish, tick | scheduler's drains |
| XMLHttpRequest (`js/xhr.rs`) | ready state, answer, handlers | open, send, abort | client |
| Media (`js/mse.rs`, `webcodecs.rs`) | source buffers, codecs and their registries | append, endOfStream, configure, encode, decode, flush, close | ffmpeg, video |
| Graphics bindings (`js/webgl.rs`, `webgpu.rs`, `canvas.rs`, `offscreen.rs`) | tables of handles, passes, programs, surface pools | create, bind, draw, end, finish, submit, evict | gpu, paint |
| Other bindings (`js/forms.rs`, `dialog.rs`, ...) | messages of validity, open popovers, held elements | check, submit, show, close, toggle | DOM, shell |
| WebRTC, developer tools | handles; views of others' state | forward; format | libraries; all |

### What makes each part correct, and what makes it hard

* **Arena DOM.** Links agree in both directions, iteration yields all children, no cycle.
  Five fields are patched by hand in every operation; a stale one shows only many calls later.
* **Scheduler.** No timer or frame is lost or doubled, a cleared timer stays cleared, the loop
  does not sleep past its work, records and messages wait no longer than for the next timer. Callbacks
  run while the timers due with them are in neither queue.
* **Shell.** The right page, scroll position and history for the right tab after any sequence
  of navigations and tab operations; one back-forward cache serves all tabs, keyed by URL.
* **HTTP cache.** Byte accounting, the cap, and headers that belong to their body, also when
  the process stops between two file operations.
* **WebSocket, EventSource, workers.** Order, loss only by overflow, exact resumption, calls
  of a script that do not hang, threads that end. Each has a real thread against the page's.
* **HTTP client.** A request goes down the ladder once, the policies hold at every hop of a
  redirect chain, a body is whole or refused, a chain ends.
* **Storage, caches, cookies.** After a stop between two file operations a reader finds what
  some writer wrote; what two names or two origins keep stays apart.
* **Parser, CSS, layout.** Functions of their input, checked as algorithms against a
  definition: what encloses what, which declaration wins, which box is where.
* **Observers, streams, abort, XMLHttpRequest, animations, codecs, media, graphics.**
  Each outcome is told once, in order, to who waits for it, although the callback that is told
  may call anything; what a draw or a pass uses is what was set when it was recorded.

## 2. Modules

| Module | What it models | Composes |
|---|---|---|
| `Dom` | the arena and the binding calls; it implements `OrderedTree` | `INSTANCE OrderedTree` |
| `OrderedTree` | abstract: a forest of ordered trees | |
| `EngineLoop` | timers, frames, drains, sleep | |
| `BrowserTabs` | tabs, history, back-forward cache | |
| `HttpCache` | the cache, one file operation at a time | |
| `WebSocket`, `EventSource`, `Worker`, `SharedWorker` | one background channel each | |
| `PageChannels` | a page with a channel of any kind | `INSTANCE` of the four |
| `HttpTransport` | the ladder of protocols, blacklists, pools | |
| `HttpClient` | redirects and policies, hop by hop | |
| `ResponseBody` | framing, sink, decoding of one body | |
| `CookieJar` | the jar, its header and its file | |
| `OriginStorage` | local, session and indexed storage as file operations | |
| `PrivateFiles` | the origin private file system | |
| `CacheStorage`, `ServiceWorker` | the Cache API; registrations, events, answers | |
| `NetStack` | a part of the network or storage layer, of any kind | `INSTANCE` of the eight |
| `HtmlParser` | tokenizer and tree builder | |
| `Cascade` | selectors, order of declarations, inheritance | |
| `Layout` | boxes of every kind of layout, hit test | |
| `PageInput` | pointer, keys, composition, focus, paint | |
| `EventDispatch` | listeners; popovers, dialogs, held elements | |
| `MutationObservers`, `LayoutObservers` | records, entries, their drains | |
| `Streams`, `AbortSignals`, `XmlHttpRequest`, `Animations` | the objects of those names | |
| `MediaSource`, `WebCodecs` | buffers and files; codecs and registries | |
| `WebGpu`, `WebGpuObjects`, `WebGl`, `Surfaces` | passes and queue; handles; programs; surface pools | |
| `Forms` | validity, patterns, submission | |
| `PageObjects` | a part of a page, of any kind | `INSTANCE` of the nineteen, of some with parameters |
| `DomProofs`, `EngineLoopProofs`, `HttpCacheProofs`, `BrowserTabsProofs`, `PageChannelsProofs`, `NetStackProofs`, `StorageProofs`, `PageProofs` | proofs (section 4) | their module, TLAPS |

**Dom.** `dom` is one record: slots in use, and the five links as functions over all slots.
The functions `Alloc`, `AppendChild`, `InsertBefore`, `Detach`, `Unlink`, `SetTextContent` and
`Graft` are the methods of `Dom`, assignment for assignment; `Contains` and `Children` say
what the two loops compute (the least set closed under the link). A `Js...` action is a
binding call with its early returns. Deep copies are laid out in any order that allocates a
parent before its children and a sibling's subtree before the next sibling: the code's order
is one of them. Node kinds, attributes and text play no part in the links and are left out.
An argument that is not a node reads as node 0 in the bindings, which is a slot like others.

`Disciplined` says that scripts keep off two calls: `insertBefore` (with a reference) and
`replaceChild` of a node into its own subtree or relative to itself. The code does not check
for them (finding 1), so the invariants are stated of the other calls and the run
`dom_any_script` shows what the rest do.

**OrderedTree** knows no links: a forest is a sequence of children per node. The refinement
mapping reads the sequence off `first_child` and `next_sibling`. Each binding call is then
one step of it, or a stutter.

**EngineLoop.** `phase` is where the loop is; in a script phase any call may happen, one at a
time. `left[id]` is the time to a timer's `fire_at`, so that `Tick` ages all of them and the
model needs no absolute clock; `lag` is the age of `pump_timers`' `now`, from which an interval
is re-armed. `PumpTimers`, `FireTimer`, `ReturnTimer`, `EndTimers` are `pump_timers`: the due
timers leave the queue first, and an interval returns after its callback, whatever the callback
did. `Settle` is the end of `about_to_wait`. Messages of other threads are only counted here.

**BrowserTabs.** `live` holds the Browser's own fields, `tabs` the snapshots. `navigate` is a
restore from the cache, a load, or a failure at any point before the page is replaced; it is
one step, as the code runs it to its end before it looks at anything else. `Slot` is the index
arithmetic around the active tab. A page is the load that made it, with its URL, so that two
loads of one URL differ. `ServeRequest` serves a batch taken from one page against whatever
page is shown by then. `id`, `tip` and `scrolled` are history variables.

**HttpCache.** A response is a version. `step` is the file operation that `store` or
`evict_until_under_cap` is at; `Crash` can come between any two, clears memory and rescans the
files in any order. `Fails` is a file operation that fails; each failure path of the code is a
disjunct. The tempfile and rename inside one file's write make that write one step.

**The channels.** WebSocket: a message is its position in the stream. The reader checks the
flag, locks, reads with the lock in hand, unlocks, pushes; `tls` distinguishes the stream on
which `connect` sets no read timeout. EventSource: the server's events are numbered and carry
their number as id; `ReadId`, `ReadData`, `ReadBlank` are the parser's lines, and a connection
may be lost before any of them. Worker: messages are numbered; a reply carries the number of
the message being handled. SharedWorker: the same with ports, which share one inbox. Channels
share nothing with each other but the page's thread, so in **PageChannels** one page with one
channel of a kind chosen at the start covers every interleaving each kind has with scripts,
drains and close. The modules name what is alike alike (`inbound`, `closed`, `page`, `batch`).

**NetStack** and **PageObjects** do for single-threaded parts what PageChannels does for the
channels: `kind` says which part a behaviour is of, `object` is its state, and each part takes
what the others pass it (an answer, a document, a script's call) as input of any value. In
`HttpClient` the ladder of `HttpTransport` and the files of `HttpCache` are one step each.
`CookieJar`, `OriginStorage`, `CacheStorage` and `PrivateFiles` have their files as state beside the
memory, and a step that ends the process. In `ServiceWorker`, `XmlHttpRequest`, `Animations`,
`MediaSource`, `EventDispatch` and `AbortSignals` a call in progress is on a stack, and whatever a
script may do happens between two of its steps. `Cascade`, `Layout`, `Forms` and `HtmlParser` take one
step per node, box, control or character, and the property compares the result with a
definition of what it should be. The header of each module says what it leaves out.

## 3. Runs

| Run | Bounds | Shows |
|---|---|---|
| `dom` | 5 slots, 4 parsed fragments | `LinksAgree`, `ChildrenComplete`, `Acyclic`, `SiblingsEnd`, and the refinement `ImplementsTree` |
| `dom_any_script` | 4 slots, undisciplined | violates `Acyclic` (finding 1) |
| `engine` | 2 timers, delays 0..1, one frame, one message | `TimersAccounted`, `SleepsNoLongerThanWork`; under fairness `TimersFire`, `FramesRun`, `TimersCarryInbound`, `TimersCarryRecords` |
| `engine_clear_interval` | 2 timers, delays 0..2, 2 frames | violates `ClearedNotReArmed` (finding 2) |
| `tabs` | 2 URLs, cache of 2, 4 tabs, 3 loads, 5 acts, 2 queued requests | `ScrollFollowsPage`, `CacheUnambiguous`, `ReloadFetches`, `StripKept` |
| `tabs_tip` | 3 URLs, one tab, 3 loads, 4 acts | violates `NoneMeansTip` (finding 3) |
| `cache` | 3 keys, 3 bytes, 2 versions of 1 and 2 bytes, one stop, one failure | `Accounted`, `UnderCap`, `MetaHasBody`, `ServedTogether` |
| `cache_torn` | 2 keys, 4 bytes, 3 versions | violates `ServedWhole` (finding 4) |
| `channels` | queues of 2 (socket) and 3 (source), 4 frames, 3 events, 2 connects, 3 posts and replies, 2 ports | `HeardInOrder`, `ResumesExactly`, `SettlesClosed`, `StopsSoon`; under fairness `CallsReturn`, `ThreadsEnd` |
| `channels_send` | the same | violates `SendNotBlocked` (finding 5) |
| `net` | below | `LadderDescends`, `PolicyHolds`, `KeptWhole`; under fairness `RequestsEnd` |
| `page` | below | `ShownAsDefined`, `HeardWhole`, `OutcomesTold`, `PauseKeepsTime` |

Every passing run also checks its module's `TypeOK`. Each property of a passing run has a
mutant in `PROJECT.json`: a definition changed as a plausible bug would change it, kept beside
the original with a comment, under which TLC finds the property violated.

The properties of `net` and `page` are conjunctions by kind:

| Kind in `net` | Module | Property | Bounds |
|---|---|---|---|
| transport | `HttpTransport` | `LadderDescends` | 2 hosts, pool of 2 |
| client | `HttpClient` | `WireKeepsPolicy`, `ReadersAllowed`, `RequestsEnd` | 3 hosts, one preloaded, one blocked; 2 redirects; one cacheable URL |
| body | `ResponseBody` | `BodyWhole` | spill at 2, cap 4, 2 codings |
| jar | `CookieJar` | `HeaderSound`, `FileIsJar` | 6 cookies over 2 domains and 2 paths, one in a partition; requests of every context; clock 1..3 |
| storage | `OriginStorage` | `ValuesWhole` | 2 keys, 2 values, 2 database names, one of them without letters, one stop |
| session | `OriginStorage` | `UnderCap` | items of 1 and 3 bytes under a cap of 4 |
| files | `PrivateFiles` | `FilesWhole` | 2 names, 2 writers, one write to a file, 4 files ever |
| caches | `CacheStorage` | `PageHasFiles` | 2 pages, 2 origins, 2 cache names that share a directory |
| fetches | `ServiceWorker` | `AnswersOwn` | 2 handlers, 3 fetches, nested once |
| registrations | `ServiceWorker` | `RegistrationsKept` | a host and pages without one, 2 scripts, 2 sources, one stop |

| Kind in `page` | Module | Property | Bounds |
|---|---|---|---|
| parser, markup | `HtmlParser` | `EnclosedByOpen`, `RawHoldsText` | runs of 4 tokens of a table; of 2 tokens of any markup |
| cascade | `Cascade` | `SelectorsAgree`, `StylesAgree` | every document of 5 nodes with 64 selectors; a chain of 4 nodes under every triple of 5 rules; two nodes with every `dir` |
| boxes | `Layout` | `LaidOutWhole` | 5 families of documents, each with every choice of its styles |
| input | `PageInput` | `PaintedAsIs`, `CompositionsBalanced` | 5 controls, one character typed, 4 events queued |
| events, told | `EventDispatch` | `HandlersInOrder`, `ToldAsIs` | 2 elements, 2 handlers, 3 nested calls |
| mutations | `MutationObservers` | `MutationsHeard` | 2 observers, 2 targets, 2 records |
| layout, resize | `LayoutObservers` | `ToldInView` | 2 observers, 2 targets |
| streams | `Streams` | `ChunksInOrder` | 2 chunks, 2 reads in all, a stream and the two branches of its tee |
| abort | `AbortSignals` | `FollowersAbort` | 3 signals |
| xhr | `XmlHttpRequest` | `AnswersWhole` | 3 sends, 3 calls deep |
| animations, ticks | `Animations` | `EndingsTold`, `PauseKept` | 2 animations, clock 0..3, rates 1 and 2 and their reverse, one transition |
| codecs | `WebCodecs` | `OutputsMatch` | one codec, 3 frames or chunks with 2 different payloads |
| source | `MediaSource` | `AppendsPlayedOnce` | 2 buffers, 3 appends |
| gpu | `WebGpu` | `PassesRunWhole` | 2 encoders, 2 passes, 2 commands |
| gpu objects, draws | `WebGpuObjects` | `DrawnAsSet` | 4 objects; 2 objects and 3 operations of a pass |
| gl programs, uniforms, state | `WebGl` | `ProgramsApart` | 2 or 3 handles |
| forms, patterns | `Forms` | `FormsAnswered`, `PatternsMatch` | 2 forms with 8 texts; every pattern of up to 3 tokens, some of 4, with every text of up to 3 letters, and what each accepts no more and no less |
| canvases, offscreens | `Surfaces` | `PoolsSound` | surfaces of 1 to 3 units under a cap of 2 or 3 |

**Why the bounds are enough.** Five slots hold a parent, three siblings (so that one has
neighbours on both sides) and a grandchild, and every operation looks at one node's
neighbourhood. Two timers are the least that can be due together, with one clearing the
other; a period of 1 is overtaken by `Tick` during a callback. Two URLs and a cache of two let one
tab take what another left in the cache; four tabs have an active tab with neighbours on both
sides and more to one side. Three keys with a budget of 3 make an eviction of several entries;
one stop and one failure can fall at each file operation. The queues of 2 and 3 overflow within
the 4 frames and 3 events. `Silent = {2}` puts an event without data between two with it; two
connects resume once. Two hosts tell a mark on one blacklist from another's; a chain of two
redirects has a hop that is neither the first nor the last. The caps of bodies and items are the
least that tell "fits", "spills" and "too large" apart, and let the item a call replaces decide.
Two names that share a directory, or a name that stands for the root, are the cases in which
`sanitise` is not one to one. Two writers are the least that can meet at one file. The nested
call (a handler that fetches, aborts, sends or commits again) needs a depth of two, and three to
return into a call that was itself nested. The documents of `Cascade` and `Layout` are small, but each has
the neighbours its rules speak of: an ancestor and a sibling with a node between; an item that
spans, one placed by name, one that is placed where there is room. For what section 4 proves the
bounds do not matter.

Keys (`cache`) and URLs (`tabs`, `tabs_tip`: invariants and box-action properties only) are
interchangeable in their modules, so symmetry is sound; no liveness run uses symmetry. `channels`, `net` and
`page` turn the deadlock check off: a page that left, a thread that ended, a document that is read and an
object whose bounds are used up have nothing more to do. All other runs check for deadlock.

**Fairness.** `engine`: `WF(Loop)`: the event loop runs and callbacks return (the engine has no way to
interrupt one), and `WF(Tick)`: the clock advances. The user, the scripts' calls and other threads owe nothing.
`channels`: weak fairness of each thread's own steps. A socket read on a plain stream has a timeout, so its
`ReaderTimeout` is part of the thread; on TLS it is not enabled, and no fairness is assumed of the server.
Of a socket's mutex nothing is assumed while the reader locks it again at once: `std::sync::Mutex` is unfair. A
call that waits is assumed to get it (strong fairness of `CallReturns`) only while the reader sleeps its 30 ms after a
timeout, or has ended (`Idle`), and `CallsReturn` says that a call returns if the reader is idle again and again; on a
stream that is never quiet it may wait for good. Every call an EventSource's thread blocks in has a timeout. A worker's scripts return;
terminate() would not interrupt one that does not. `net`: weak fairness of the client's `Step`: `do_request`
runs on one thread, and each call it makes has a timeout, after which the request is refused.

## 4. Proofs

TLAPS proves, for every value of the constants that the modules' assumptions allow, each invariant and
each action property of the runs `dom`, `engine`, `tabs`, `cache`, `channels` and `net`, the refinement
`ImplementsTree`, and of `page` the properties `OutcomesTold` and `PauseKeepsTime`. The assumptions are
the bounds of the modules: numbers are natural, caps are positive where the code divides or evicts by them,
sets of keys are finite.

**`DomProofs`** (`ArenaWellFormed`, `Typing`, `PointersAgree`, `IterationComplete`, `TreeAcyclic`, `SiblingWalksEnd`,
`ArenaImplementsTree`).
The inductive invariant is `WellFormed(dom)`: types, `Linked` (each link agrees with its opposite, and
the ends of a child list are what the parent says), no links at unallocated slots, and all three of
parent, previous and next sibling well-founded. None of the checked invariants is inductive alone: that
detaching leaves `first_child` right needs the neighbours to agree, that appending makes no sibling
cycle needs the last child to have no successor, and that iteration is complete needs all of them.
Well-foundedness is "every non-empty set of nodes has a member that the link leads out of". It needs no
induction over data, and a new link keeps it if its target does not reach back
(`LinkingStaysWellFounded`, with `Contains` as the least closed set). One lemma per operation, then one
step per binding call in `StepPreserves`. Assumed: `MaxNodes` is positive, `Disciplined` is TRUE, and the
fragments are well formed (the parser builds them with the same operations; TLC evaluates the assumption for
the run's fragments).

`ArenaImplementsTree` is the refinement. The mapping's list of children is fixed without induction: a sequence is a
node's children exactly if it starts at `first_child`, goes on by `next_sibling` and stops where that is nobody
(`Walk`), a well-formed arena has one such sequence for each node (`ListOf`), and two of them are equal. Then a list is
taken out of, put before or put last by rewriting two links (`OutOf`, `PutBefore`, `PutLast`), and a deep copy or a
parsed fragment adds whole lists to nodes that had none (`Grafted`). Each binding call is one step of `OrderedTree` or a
stutter (`StepImplements`).

**`EngineLoopProofs`** (`SchedulerSound`, `SchedulerTypes`, `NoTimerLost`, `NoOversleep`). The
invariant adds `Batches` to the checked ones: timers are out of the queue within one pump only, the one that runs has been
counted as fired, and a frame's phase lasts as long as its callbacks. That a loop does not oversleep needs a least
element of the delays it waits for.

**`HttpCacheProofs`** (`BodiesPresent`, `CacheTypes`, `BooksBalance`, `CapHolds`, `PairsServed`). Two inductive
invariants. `IInv` holds until a file operation fails, and adds to `MetaHasBody` what each place in `store`
and eviction has done already. `Strong` holds whatever fails: `Books` (the index, the order and the total
agree after every operation), `Capped` (what eviction still has to do) and `Paired` (how far the key in
progress has got). The totals are folds over the keys; the first lemmas say that the folds' recursive
functions exist and what changing one key does to them.

**`BrowserTabsProofs`** (`TabsTyped`, `ScrollKept`, `OnePagePerUrl`, `ReloadsFetch`, `StripIsKept`). `Sound`: the cache has
one entry of a load and one of a URL. `Apart`: a page is shown in one tab or cached once. `Numbered`: each
page has been loaded already. `Followed`: each page carries its own scroll position. Scrolling writes the
position of one load, which is right only when nothing else shows the same load, so none is inductive
without the others. The two action properties follow from the invariant, action by action.

**`PageChannelsProofs`** (`ChannelsTyped`, `HeardInTheirOrder`, `SourcesResume`, `SourcesSettle`, `WorkersStop`). An invariant for
each kind. A socket: what was heard, the batch, the queue and the frame in the reader's hand are
increasing positions, and each position missing between two of them was dropped by a full queue. A source: the
same of event numbers, with where the parser is in an event, and that what is queued last is the end once the
thread has left. A worker: what is posted,
received and replied rises, and once it was told to stop at most one message more was received, and then it ends. A shared worker: a port's
messages lie in the one inbox in the order they were posted, between its connect and its close.

**`NetStackProofs`** (`LadderTheorem`, `PolicyTheorem`) and **`StorageProofs`** (`KeptTheorem`, `TypesTheorem`). A step of
one kind leaves the others' conjuncts alone, so there is one invariant per kind, and `NetInv` and `KeptInv` join them:

* `LadderInv`: what was tried lies above what is tried now; a request without TLS has only the two lower rungs; what carried
  a request past a rung left its mark on the blacklist by then; a request ends without an answer on the last rung only.
* `ClientInv`: past `Admit` the hop has been judged by its own address and context, cookies included; no body is
  there before the request has ended.
* `JarInv`: one version of each cookie in memory, on disk and in the file beside; the files have no session's cookies; before
  the rename the file beside is what memory keeps; an idle jar that nothing made stale has the same living cookies in
  both places. The clock moves on, so "living" has to be the same function of both at every later time.
* `BodyInv`: what was read and what is left add up to what was sent; what was read and what the frame promises stay under the
  cap; files are those of the sink and of the layer under it.
* `StoreInv`: every file has its old or its new value, and the new one unless the rest of the call touches it.
* `SessionInv`: the bytes held, summed over the keys, are within the cap, replacing an item included.
* `FilesInv`: a stream has its inode to itself, a temporary file is that of an open stream, and what a name stands for is
  complete and no other name's. That closing a stream gives a whole file needs all three.
* `CachesInv`: a page past which only itself has written since it read the files holds each file of its origin in a cache of
  that directory.
* `RegistrationsInv`: a host's file has one entry per script something is due for, and that one; a file being written is the
  old one with the new entry, and nothing else writes in between; and the handlers of a process that has read the file of the
  pages without a host are those of its entries, and of the entry being written, at least.
* `FetchesInv`: fetches below the top of the stack are not alone; one that is alone on top has in the slot what its own
  handlers said.

The jar, the header, the registrations and the bytes of session storage are recursive functions over a sequence or a set.
The library's induction takes an operator, so the first lemmas use the least number (or the least set) at which a claim
would fail: `UpTo`, `SumExists`. From it follow that the functions exist, what `Filtered` keeps and in which order, that
filtering twice is filtering by both, and that `ByPath` sorts. Assumed: the `Bounds` of each module (positive clock, caps and
places; finite sets of keys; the value for "none" is not one of the others).

**`PageProofs`** (`OutcomesAreTold`, `PausesKeepTime`). Again one invariant per kind, joined in `PageInv`; a step of one kind is no
step of another.

* `AbortInv`: a signal that follows an aborted one is aborted, or is on the list of a call of `fire_abort` that has not
  returned (`ComesTo`). Reasons are those of a source. The list of a call is a copy, so it stays as it was taken.
* `InputInv`: what the focused node was told of compositions is balanced, open exactly if the shell keeps an unfinished text
  for it; a step that moves the focus forgets both or neither (`Quiet`).
* `AnimState`: a promise of `finished` that is still pending is held by its animation, no two animations hold the same one,
  and what a tick ended shows the keyframe its direction ends at; a transition is in the slot or finished. `AnimStep` adds
  what one step keeps of a paused animation. Times are integers of any size.
* `LayInv`: an observer that no callback changed remembers what it was told, the tick's copy is still true of it until its
  turn, and after its turn it was told what is in view.
* `XhrInv`: a send belongs to one call on the stack at most, which has told its end once or has it still to tell.
* `StreamInv`: chunks are taken in the order they were put in, reads are pending only where the queue is empty, and each
  chunk of a stream that was not cancelled is queued, read, piped or lost to an error.
* `CodecInv`: as many outputs as inputs, each of its own input, and none after `close`.
* `MutInv`: ids rise through what an observer heard, what a drain has due for it and what is pending; a record it goes on
  watching for was heard, is due, or is pending and still watched. What a drain picks (`Among`) is a recursive function, so it
  is proved about as those of `StorageProofs` are: the chosen records, each once, in their order.

**Model-checked only.** Every liveness property (`TimersFire`, `FramesRun`, `TimersCarryInbound`, `CallsReturn`,
`ThreadsEnd`, `RequestsEnd`): the prover does not do fairness. Of `page`: `ShownAsDefined`, as what a parser, a cascade or a
layout computes for every input is induction over data; `HeardWhole`, whose parts compare a state with a replay of all calls that led to it or
with a reference matcher; and `TypeOK`, which is about all parts at once.

## 5. What the runs found

1. `insertBefore` with a reference and `replaceChild` do not ask `contains`; the comment on `contains` says they do.
2. An interval that clears itself in its callback is armed again.
3. Forward at the end of the back list forgets the cursor while an old page is on show.
4. `store` replaces each file atomically, not the pair, as the header of `cache.rs` has it.
5. On `wss://` the reader holds the socket's mutex through an unbounded read; `send()` waits on the page's thread.

Five hazards of `PROJECT.json` have no property, as nothing in the repository promises what the code would have to keep: a
dispatch that changed the page without changing the number of nodes (`engine.rs` 962), a port to a shared worker that has
ended (`shared_worker.rs` 132), the second page of an origin and its caches (`sw.rs` 716), an answer that goes to another
fetch (`sw.rs` 137), and boxes of the measuring pass (`flex.rs` 351). All but the first are reachable in the modules; `PageInput` takes the engine's answer as given.

Met while reading, and modelled as the code has it:

Threads, shell and scheduler
* `ws.rs` 10-12 says the queue is drained on every tick; with no timer and no frame the loop waits for the window.
* `observers.rs` 534-536 says records are drained after each animation frame; `pump_animation_frames` does not.
* `history.forward()` and `history.go(n)` of a script always go back (`main.rs` 4893-4899 defers to `history_back`).
* `worker.rs` says that a bare `onmessage` works in a worker; the pump reads the property of `self`.
* A page that leaves without `terminate()` never sets a worker's stop flag, and a dropped page never that of a
  shared worker; the thread then spins on a closed channel.
* `shared_worker.rs`: the constructor finds the entry of a worker that was closed; replies arrive after `port.close()`.
* `main.rs`: Enter in Find advances and the recount resets it (1554-1580); a form's POST is followed by a GET (2540-2546);
  resizing reloads every frame (942); focus moves in mid-composition without `compositionend`; what a pointer or touch
  listener changes is not restyled unless a click changes something too (1139-1200).
* `engine.rs`: stopPropagation stops the remaining handlers of the same node; a change is told by the number of nodes.
* `dialog.rs`: `close` fires and overwrites returnValue when the dialog is not open; toggle events come before the change;
  open popovers, held elements and validity messages are per thread by node number and outlive the page.

Network and storage
* Bodies whose meta file was never written, or was removed, are on no record after a restart and outside the cap;
  a failed meta write removes the body, also when an older meta file stays: the entry then has an empty body.
* `net/mod.rs`: a cached redirect is handed to the caller unfollowed; a request on a pooled HTTP/1.1 connection is written
  again after any failure, a POST too, and one that fails late is written on the next rung (273): `LadderDescends` bounds
  the writes by the rungs, no more; `h_pool.rs` 135-151 keeps a sender whose first request failed.
* `http.rs` 84-87 says a sink's file is removed; `BodySink` has no `Drop`, and a body that failed leaves its file.
* `cookies.rs`: `header_for` does not look at expiry and `purge_expired` is called from nowhere; a cookie's identity
  leaves out its partition.
* `idb.rs`: different names become one directory, and deleting a database named `...` removes all of the origin's; the
  "atomic clear" is a `remove_dir_all`; failed writes are silent.
* `opfs.rs`: `keys()` lists temporary files, which a script can remove, and `close()` then loses the data; a sync handle
  of a file that was replaced writes to no name.
* `sw.rs` 22-26 says registrations are evaluated again when the engine boots; those of pages with a host never are, as the replay
  comes before the page has its URL (90-91): `RegistrationsKept` has what the code does, the file of the pages without a host; handlers are per thread, of all origins (5-7); a fetch within a handler empties the slot of the one around it;
  a promise that resolves late answers another fetch; the caches read last are remembered per thread (22-24).

Page
* `observers.rs` 5-7 says every mutating binding enqueues a record; insertBefore, replaceChild and innerHTML do not. A
  subtree watch matches the whole document; takeRecords is always empty.
* `cascade.rs`: the origin of a sheet does not count (699); the first matching selector decides a rule's specificity (690-694);
  `rem` is the parent's font size (2615); an unresolvable value resets some properties. `css/mod.rs` 140-155: media rules come
  after all others of their sheet. The selector walk does not backtrack.
* Layout: a relative offset moves the box without its descendants (`block.rs` 669-691); a rowspan past the last row adds height
  outside the table (`table.rs` 176-206); flex and grid ignore box-sizing and limits; the boxes of the measuring pass stay
  (`flex.rs` 351); reversed directions are ignored.
* HTML: input that ends within a tag loses it; `<head>` after the body enters the head again (`tree_builder.rs` 96-103).
* `forms.rs`: `+` gives back everything it took (264), so `a+ab` accepts "ab" (`PatternsMatch` has the language with this); requestSubmit fires no event though its comment says so.
* `streams.rs`: a read takes the chunk before it looks at the error (235); cancel leaves reads pending; pipeTo closes the sink with what was
  queued. `abort.rs`: removeEventListener removes all. `xhr.rs`: `load` fires after an abort in readystatechange.
* `animations.rs`: getAnimations replaces the promise of `finished` (179-240); a reversed animation never finishes;
  `view_transitions.rs`: a second transition loses the promise of the first.
* `webgl.rs` 936-943: vertexAttribPointer borrows the state twice and stops the browser, so nothing is ever drawn; uniforms are written to the
  current program whichever program's location is given. `webgpu.rs`: a compute pass looks for its bind group under another name
  than groups carry (2063-2082, 901); `finish()` with an open pass drops the later `end()`; unmapping drops what was mapped (605-618).
* `offscreen.rs` 50-55 says the cap holds for all decoded bitmaps; a copied one is on no eviction order and counted apart (654-673); offscreen canvases go before any bitmap (84-116).
  `canvas.rs` 108-154: surfaces of removed canvases are dropped from nowhere.
* `mse.rs`: a nested endOfStream's file is overwritten by the older one. `webcodecs.rs`: configure after close shows "configured".

## 6. Plan

Done: the core (`Dom`, `EngineLoop`, `BrowserTabs`, `HttpCache`, the channels), the network and storage layer, the parts of a page,
and the proofs of section 4. Left:

1. The parts of `HeardWhole` whose state is a few fields (`MediaSource`, `Surfaces`), by the pattern of `PageProofs`: an
   invariant per kind, a lemma per action. The parts that are algorithms (parser, cascade, layout, patterns) stay with TLC.
2. Paint order and the remaining graphics bindings, where they keep state between calls.

Not modelled, and why: paint and GPU are pixels without state between passes (when a page is painted is in `PageInput`); WebRTC runs inside
its crate, whose calls the bindings forward; the developer tools format state that other parts own. Of modelled parts are left out: the text
of CSS values, entities and encodings of HTML, wire formats, TLS, the parsing of policy lists and of `Set-Cookie`, interpolation, blending,
indexes and cursors of IndexedDB, playback and capture, and the media, crypto and other bindings that read or convert and reach the
document through the calls `Dom` has.
