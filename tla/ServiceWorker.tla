---------------------------- MODULE ServiceWorker ----------------------------
(***************************************************************************)
(* Service workers (src/src/js/sw.rs): scripts that a page registers, that *)
(* run in the page's own context and answer its fetches.                   *)
(*                                                                         *)
(* Handlers, the slot an answer is captured in and the record of what was  *)
(* replayed belong to the thread: all its pages share them, one after the  *)
(* other.  A worker's script has one listener for fetch; its listeners of  *)
(* install and activate are taken to make no calls.  The head of sw.rs has *)
(* every registration back in the next process; the code reads the files of*)
(* pages without a host and no other (Load).                               *)
(***************************************************************************)
EXTENDS Integers, SequencesExt, FiniteSetsExt

CONSTANTS
  Host, Hostless,     \* of pages; Hostless stands for pages without one
  Script, Source,     \* URLs of workers' scripts, what they say
  MaxHandlers, MaxFetches, MaxCrashes,   \* bounds
  MaxDepth            \* bound: fetches within fetches; the engine's recursion limit

Bounds ==
  /\ {MaxHandlers, MaxFetches, MaxCrashes} \subseteq Nat /\ MaxDepth \in Nat \ {0}
  /\ Hostless \in Host

Registration == [script : Script, source : Source]

VARIABLE sw
(* sw.top: JS_TOP_LEVEL_BASE_URL, the host of the page whose scripts ran last;
   sw.loaded: REGS_LOADED_ORIGIN, <<>> at first; sw.handlers: SW_HANDLERS of fetch, by whose script;
   sw.slot: SW_RESPONSE_SLOT, <<>> or one answer [to, by];
   sw.promised: answers given as promises that are not resolved yet;
   sw.stack: the fetches in progress, each inside a handler of the one before;
   sw.disk: the registrations of each host's file; sw.writing: the file being written, if any.
   History: sw.due, the source last put in the file for a script; sw.last, the fetch that
   ended last, if any; sw.fetches, sw.crashes. *)

Init ==
  sw = [top |-> Hostless, loaded |-> <<>>, handlers |-> <<>>, slot |-> <<>>, promised |-> {},
        stack |-> <<>>, disk |-> [h \in Host |-> <<>>], writing |-> <<>>,
        due |-> [f \in Host \X Script |-> {}], last |-> <<>>, fetches |-> 0, crashes |-> 0]

Top == Last(sw.stack)
Idle == sw.stack = <<>> /\ sw.writing = <<>>
\* A script runs: the page's, or a handler's.
Running == sw.writing = <<>> /\ (sw.stack # <<>> => Top.running)

----------------------------------------------------------------------------
(* Pages and registrations. *)

\* The scripts of a page of host h run.
Enter(h) == Idle /\ sw' = [sw EXCEPT !.top = h]

\* partitioned_origin_host while an engine is made: it has no URL of its own yet.
InstallKey == IF sw.top = Hostless THEN <<Hostless>> ELSE <<sw.top, Hostless>>

\* replay_persisted_registrations: only pages without a host have a file of such a name.
Load ==
  /\ Idle
  /\ LET regs == IF InstallKey = <<Hostless>> THEN sw.disk[Hostless] ELSE <<>> IN
     /\ sw.loaded # InstallKey => Len(sw.handlers) + Len(regs) <= MaxHandlers
     /\ sw' = IF sw.loaded = InstallKey THEN sw
              ELSE [sw EXCEPT !.loaded = InstallKey, !.handlers = @ \o regs]

\* The registrations of regs that are of other scripts, in their order.
Others(regs, script) ==
  LET others == {reg \in Registration : reg.script # script}
      kept[n \in 0..Len(regs)] ==
        IF n = 0 THEN <<>>
        ELSE IF regs[n] \in others THEN Append(kept[n - 1], regs[n]) ELSE kept[n - 1]
  IN kept[Len(regs)]

\* persist_registration: the others as they are read, and this one at the end.
Recorded(regs, reg) == Append(Others(regs, reg.script), reg)

\* sw_register; a script that does not arrive registers nothing.
Register(script, source) ==
  /\ Running /\ sw.stack = <<>> /\ Len(sw.handlers) < MaxHandlers
  /\ LET reg == [script |-> script, source |-> source] IN
     sw' = [sw EXCEPT !.handlers = Append(@, reg),
                      !.writing = <<[reg |-> reg, regs |-> Recorded(sw.disk[sw.top], reg)]>>]

\* The new file takes the place of the old one, or could not be written: nobody is told.
RenameFile ==
  /\ sw.writing # <<>>
  /\ LET w == sw.writing[1] IN
     sw' = [sw EXCEPT !.disk[sw.top] = w.regs, !.writing = <<>>,
                      !.due[<<sw.top, w.reg.script>>] = {w.reg.source}]
WriteFails == sw.writing # <<>> /\ sw' = [sw EXCEPT !.writing = <<>>]

\* The process stops and starts again.
Crash ==
  /\ sw.crashes < MaxCrashes
  /\ sw' = [sw EXCEPT !.top = Hostless, !.loaded = <<>>, !.handlers = <<>>, !.slot = <<>>,
                      !.promised = {}, !.stack = <<>>, !.writing = <<>>, !.last = <<>>,
                      !.crashes = @ + 1]

----------------------------------------------------------------------------
(* Fetches. *)

\* js_fetch, try_intercept_fetch: the slot is emptied, also for the fetch around this one.
\* History: said, what the running handler answered last; alone, that nothing else
\* was fetched and no other answer came in the meantime.
Fetch ==
  /\ Running /\ sw.handlers # <<>> /\ sw.fetches < MaxFetches
  /\ sw' = [sw EXCEPT
       !.stack = Append([i \in DOMAIN @ |-> [@[i] EXCEPT !.alone = FALSE]],
                        [id |-> sw.fetches + 1, todo |-> sw.handlers, running |-> FALSE,
                         by |-> <<>>, said |-> <<>>, alone |-> TRUE]),
       !.slot = <<>>, !.fetches = @ + 1]

\* The next handler; at the recursion limit the call fails at once.
CallHandler ==
  /\ sw.stack # <<>> /\ ~Top.running /\ Top.todo # <<>>
  /\ sw' = [sw EXCEPT !.stack = Append(Front(@),
              [Top EXCEPT !.by = Head(Top.todo), !.todo = Tail(@), !.running = Len(sw.stack) <= MaxDepth])]

Says(frame) == [to |-> frame.id, by |-> frame.by]

\* fetch_event_respond_with a response: captured, the last one counts.
RespondWith ==
  /\ sw.stack # <<>> /\ Top.running
  /\ sw' = [sw EXCEPT !.slot = <<Says(Top)>>, !.stack = Append(Front(@), [Top EXCEPT !.said = <<Says(Top)>>])]

\* ... a promise: resolve_to_cache_entry leaves a callback with it and runs the jobs.
RespondWithPromise ==
  /\ sw.stack # <<>> /\ Top.running
  /\ sw' = [sw EXCEPT !.promised = @ \cup {Says(Top)}]

\* A promise resolves in some run of the jobs: promise_then_capture, whatever is fetched by then.
Resolve(answer) ==
  /\ Running /\ answer \in sw.promised
  /\ sw' = [sw EXCEPT
       !.promised = @ \ {answer}, !.slot = <<answer>>,
       !.stack = IF @ = <<>> THEN @
                 ELSE Append(Front(@), IF answer = Says(Top) THEN [Top EXCEPT !.said = <<answer>>]
                                       ELSE [Top EXCEPT !.alone = FALSE])]

\* After each handler what was captured is taken; the first answer ends the fetch, and after
\* the last handler without one the network is asked.
ReturnHandler ==
  /\ sw.stack # <<>> /\ Top.running
  /\ sw' = IF sw.slot = <<>> /\ Top.todo # <<>>
           THEN [sw EXCEPT !.stack = Append(Front(@), [Top EXCEPT !.running = FALSE])]
           ELSE [sw EXCEPT !.stack = Front(@), !.slot = <<>>,
                           !.last = <<[alone |-> Top.alone, said |-> Top.said, answer |-> sw.slot]>>]

\* No handler is left that could be called.
Unanswered ==
  /\ sw.stack # <<>> /\ ~Top.running /\ Top.todo = <<>>
  /\ sw' = [sw EXCEPT !.stack = Front(@), !.last = <<>>]

Next ==
  \/ Load \/ RenameFile \/ WriteFails \/ Crash
  \/ \E h \in Host : Enter(h)
  \/ \E script \in Script, source \in Source : Register(script, source)
  \/ Fetch \/ CallHandler \/ RespondWith \/ RespondWithPromise \/ ReturnHandler \/ Unanswered
  \/ \E answer \in sw.promised : Resolve(answer)

Spec == Init /\ [][Next]_sw

----------------------------------------------------------------------------
(* Properties. *)

TypeOK ==
  /\ sw.top \in Host /\ sw.loaded \in {<<>>, <<Hostless>>} \cup {<<h, Hostless>> : h \in Host}
  /\ sw.handlers \in Seq(Registration) /\ Len(sw.handlers) <= MaxHandlers
  /\ sw.disk \in [Host -> Seq(Registration)]
  /\ Len(sw.slot) <= 1 /\ Len(sw.stack) <= MaxDepth + 1

\* A fetch during which nothing else is fetched and no other answer arrives is answered by
\* what its own handlers said, the first that said anything (sw.rs 128-152).  Of a fetch
\* around another one, or with a late answer on its way, nothing is said: the slot is one.
AnswersOwn == \A e \in ToSet(sw.last) : e.alone => e.answer = e.said

\* Stopped wherever and failing whenever, the file of a host has one registration for each
\* script, with the source that was put there last, and no other
\* (sw.rs: Replace any existing entry so we don't accumulate stale duplicates).  A process
\* that has read the file of the pages without a host has a handler of each registration
\* in it: of those before it started and of those made since.
RegistrationsKept ==
  /\ \A h \in Host, script \in Script :
       LET entries == {i \in DOMAIN sw.disk[h] : sw.disk[h][i].script = script}
       IN {sw.disk[h][i].source : i \in entries} = sw.due[h, script] /\ Cardinality(entries) <= 1
  /\ sw.loaded = <<Hostless>> => ToSet(sw.disk[Hostless]) \subseteq ToSet(sw.handlers)

==============================================================================
