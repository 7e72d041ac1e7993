---------------------------- MODULE EventDispatch ----------------------------
(***************************************************************************)
(* Events and their listeners (src/src/js/engine.rs, dialog.rs,            *)
(* visibility.rs): the shell's events on their way up from their target,   *)
(* and the events that popovers, dialogs and full-screen or pointer-locked *)
(* elements fire in the middle of a script, which is another listener as   *)
(* often as not.                                                           *)
(*                                                                         *)
(* A listener makes any calls, one per step.  How the shell asks for an    *)
(* event and what it does about it afterwards is PageInput.                *)
(***************************************************************************)
EXTENDS Integers, Sequences, FiniteSets, Functions

CONSTANTS
  Element,      \* elements of the page
  InitialParent,   \* [Element -> Element \cup {None}]
  ShellType,    \* types of the events the shell dispatches
  Popover, Dialog, Lock,   \* elements that are used so; events of what is held
  MaxHandlers, MaxNested, MaxTold   \* bounds: listeners ever added, events within events, told by scripts

Bounds ==
  /\ {MaxHandlers, MaxNested, MaxTold} \subseteq Nat
  /\ Popover \cup Dialog \subseteq Element /\ Lock \subseteq {"fullscreenchange", "pointerlockchange"}

None == "none"
\* What there is to listen to.
Heard ==
  (Element \X (ShellType \cup Lock)) \cup (Popover \X {"beforetoggle", "toggle"}) \cup (Dialog \X {"close"})

VARIABLE ev
(* ev.parent; ev.listeners: all listeners in the order they were added, each [node, type];
   ev.stack: the events being dispatched, the innermost last; ev.prevented, .stopped:
   EVENT_FLAGS; ev.open: OPEN_POPOVERS; ev.held: FULLSCREEN_ELEMENT, POINTER_LOCK_ELEMENT;
   ev.dialogs, .modal: attributes open, data-modal; ev.told: how often a script told of a change.
   History: ev.heard, what each listener was last told; ev.again, the popovers toggled by
   a listener of their own toggle events; ev.last, the shell's event that ended last, if any. *)

Init ==
  ev = [parent |-> InitialParent, listeners |-> <<>>, stack |-> <<>>,
        prevented |-> FALSE, stopped |-> FALSE, open |-> {}, held |-> [l \in Lock |-> None],
        dialogs |-> {}, modal |-> {}, told |-> 0,
        heard |-> <<>>, again |-> {}, last |-> <<>>]

----------------------------------------------------------------------------
(* Listeners. *)

\* The clone that is called: what is added meanwhile is not in it.
Handlers(n, type) ==
  SelectSeq([i \in DOMAIN ev.listeners |-> i], LAMBDA i : ev.listeners[i] = [node |-> n, type |-> type])

\* All of them on a way, in its order.
OnTheWay(chain, type) ==
  LET upto[k \in 0..Len(chain)] == IF k = 0 THEN <<>> ELSE upto[k - 1] \o Handlers(chain[k], type)
  IN upto[Len(chain)]

bubble_chain(n) ==
  LET up[m \in Element \cup {None}] == IF m = None THEN <<>> ELSE <<m>> \o up[ev.parent[m]]
  IN up[n]

Top == ev.stack[Len(ev.stack)]
Running == ev.stack # <<>> /\ Top.running
\* A script runs: a listener, or one of the page's own between two events.
Script == ev.stack # <<>> => Top.running
WithTop(e, frame) == [e EXCEPT !.stack[Len(e.stack)] = frame]
Pushed(e, frame) == [e EXCEPT !.stack = Append(@, frame)]
Popped(e) == [e EXCEPT !.stack = SubSeq(@, 1, Len(@) - 1)]

\* element_add_event_listener: the same listener again is another one.
AddEventListener(n, type) ==
  /\ Script /\ Len(ev.listeners) < MaxHandlers
  /\ ev' = [ev EXCEPT !.listeners = Append(@, [node |-> n, type |-> type]),
                      !.heard = Append(@, None)]

\* What a script does to the tree: the way up was fixed before.
Detach(n) == Script /\ ev' = [ev EXCEPT !.parent[n] = None]

----------------------------------------------------------------------------
(* An event of the shell. *)

\* build_event_object_with; frame.node is its currentTarget.  History: owed, the listeners
\* on its way when it began; called; prevents, whether one of them prevented the default.
Event(type, chain) ==
  [what |-> "event", type |-> type, chain |-> chain, node |-> None, todo |-> <<>>,
   running |-> FALSE, called |-> <<>>, prevents |-> FALSE,
   owed |-> OnTheWay(chain, type)]

\* Mutant of Dispatch: the flags of the event before are kept.
DispatchStale(n, type, bubbles) ==
  /\ ev.stack = <<>>
  /\ ev' = [Pushed(ev, Event(type, IF bubbles THEN bubble_chain(n) ELSE <<n>>)) EXCEPT !.last = <<>>]

\* dispatch_event_with.
Dispatch(n, type, bubbles) ==
  /\ ev.stack = <<>>
  /\ ev' = [Pushed(ev, Event(type, IF bubbles THEN bubble_chain(n) ELSE <<n>>))
              EXCEPT !.prevented = FALSE, !.stopped = FALSE, !.last = <<>>]

\* The next node on the way, with the listeners it has by now.
Reach ==
  /\ ev.stack # <<>> /\ ~Top.running /\ Top.todo = <<>> /\ Top.what = "event" /\ Top.chain # <<>>
  /\ ev' = WithTop(ev, [Top EXCEPT !.node = Head(Top.chain), !.chain = Tail(@),
                                   !.todo = Handlers(Head(Top.chain), Top.type)])

\* A script's listener is called, and told what has changed.
CallHandler ==
  /\ ev.stack # <<>> /\ ~Top.running /\ Top.todo # <<>>
  /\ LET h == Head(Top.todo)
         frame == [Top EXCEPT !.running = TRUE, !.todo = Tail(@), !.called = Append(@, h)]
     IN ev' = CASE Top.what = "event" -> WithTop(ev, frame)
                [] Top.what = "told" /\ Top.type \in Lock ->
                     [WithTop(ev, frame) EXCEPT !.heard[h] = ev.held[Top.type]]
                [] OTHER -> [WithTop(ev, frame) EXCEPT !.heard[h] = Top.says]

PreventDefault ==
  /\ Running /\ Top.what = "event"
  /\ ev' = [WithTop(ev, [Top EXCEPT !.prevents = TRUE]) EXCEPT !.prevented = TRUE]
StopPropagation == Running /\ Top.what = "event" /\ ev' = [ev EXCEPT !.stopped = TRUE]

\* The listener returns or throws; a stopped event goes to no further one, of its node either.
ReturnHandler ==
  /\ Running
  /\ ev' = WithTop(ev, IF Top.what = "event" /\ ev.stopped
                       THEN [Top EXCEPT !.running = FALSE, !.todo = <<>>, !.chain = <<>>]
                       ELSE [Top EXCEPT !.running = FALSE])

\* The listeners' promise jobs, which may still prevent the default, then the result.
EndEvent(job) ==
  /\ ev.stack # <<>> /\ ~Top.running /\ Top.what = "event" /\ Top.todo = <<>> /\ Top.chain = <<>>
  /\ ev' = [Popped(ev) EXCEPT
       !.prevented = @ \/ job,
       !.last = <<[owed |-> Top.owed, called |-> Top.called, stopped |-> ev.stopped,
                   prevented |-> ev.prevented \/ job, prevents |-> Top.prevents \/ job]>>]

----------------------------------------------------------------------------
(* What scripts change and what is told of it.  An event of these has no way up: the
   listeners of one node and type are called, the next type's after them. *)

Room == ev.told < MaxTold /\ Len(ev.stack) < MaxNested
Tells(type, n, says, after) ==
  [what |-> "told", type |-> type, node |-> n, todo |-> Handlers(n, type), running |-> FALSE,
   called |-> <<>>, says |-> says, after |-> after]
Tell(e, frame) == [Pushed(e, frame) EXCEPT !.told = @ + 1]

\* A listener of p's own toggle events toggles it once more.
Toggling(p) == \E i \in DOMAIN ev.stack : ev.stack[i].what = "told" /\ ev.stack[i].node = p
                                          /\ ev.stack[i].type \in {"beforetoggle", "toggle"}
Again(p) == IF Toggling(p) THEN ev.again \cup {p} ELSE ev.again

\* element_show_popover, element_hide_popover, element_toggle_popover: told first, then done.
SetPopover(p, open) ==
  /\ Script /\ (p \in ev.open) # open /\ Room
  /\ ev' = [Tell(ev, Tells("beforetoggle", p, IF open THEN "open" ELSE "closed", "toggle"))
              EXCEPT !.again = Again(p)]

\* set_fullscreen, set_pointer_lock: done first; who gave it up for nobody is told too.
SetHeld(lock, n) ==
  /\ Script /\ ev.held[lock] # n /\ Room
  /\ LET e == [ev EXCEPT !.held[lock] = n] IN
     ev' = Tell(e, Tells(lock, IF n = None THEN ev.held[lock] ELSE n, None, "done"))

\* dialog_show, dialog_show_modal, dialog_set_open.
ShowDialog(d, modal) ==
  /\ Script
  /\ ev' = [ev EXCEPT !.dialogs = @ \cup {d}, !.modal = IF modal THEN @ \cup {d} ELSE @]
Closed(d) == [ev EXCEPT !.dialogs = @ \ {d}, !.modal = @ \ {d}]
SetOpenFalse(d) == Script /\ ev' = Closed(d)
\* dialog_close: also of one that is not open.
CloseDialog(d) ==
  /\ Script /\ Room
  /\ ev' = Tell(Closed(d), Tells("close", d, "closed", "done"))

\* Mutant of TellNext: only the listeners of toggle count.
TellNextUndone ==
  /\ ev.stack # <<>> /\ ~Top.running /\ Top.todo = <<>> /\ Top.what = "told"
  /\ ev' = IF Top.after = "toggle"
           THEN WithTop(ev, Tells("toggle", Top.node, Top.says, "set"))
           ELSE Popped(ev)

\* After beforetoggle toggle, after toggle the state itself.
TellNext ==
  /\ ev.stack # <<>> /\ ~Top.running /\ Top.todo = <<>> /\ Top.what = "told"
  /\ ev' = CASE Top.after = "toggle" -> WithTop(ev, Tells("toggle", Top.node, Top.says, "set"))
             [] Top.after = "set" ->
                  [Popped(ev) EXCEPT !.open = IF Top.says = "open" THEN @ \cup {Top.node} ELSE @ \ {Top.node}]
             [] OTHER -> Popped(ev)

Next ==
  \/ Reach \/ CallHandler \/ PreventDefault \/ StopPropagation \/ ReturnHandler \/ TellNext
  \/ \E job \in BOOLEAN : EndEvent(job)
  \/ \E n \in Element :
       \/ Detach(n)
       \/ \E type \in ShellType, bubbles \in BOOLEAN : Dispatch(n, type, bubbles)
  \/ \E x \in Heard : AddEventListener(x[1], x[2])
  \/ \E p \in Popover, open \in BOOLEAN : SetPopover(p, open)
  \/ \E d \in Dialog : CloseDialog(d) \/ SetOpenFalse(d) \/ \E modal \in BOOLEAN : ShowDialog(d, modal)
  \/ \E lock \in Lock, n \in Element \cup {None} : SetHeld(lock, n)

Spec == Init /\ [][Next]_ev

----------------------------------------------------------------------------
(* Properties. *)

TypeOK ==
  /\ ev.listeners \in Seq([node : Element, type : {x[2] : x \in Heard}]) /\ Len(ev.heard) = Len(ev.listeners)
  /\ ev.open \subseteq Popover /\ ev.held \in [Lock -> Element \cup {None}]
  /\ ev.modal \subseteq ev.dialogs /\ ev.dialogs \subseteq Dialog

\* Every listener that was on the way of an event of the shell when it began is called once,
\* from the target outward and in the order they were added, up to the one that stops it
\* (engine.rs 897-937); and the default is prevented exactly when one of them, or of those
\* added meanwhile, says so.
HandlersInOrder ==
  \A e \in Range(ev.last) :
    LET kept == SelectSeq(e.called, LAMBDA h : h \in Range(e.owed)) IN
    /\ kept = SubSeq(e.owed, 1, Len(kept)) /\ (~e.stopped => kept = e.owed)
    /\ Cardinality(Range(e.called)) = Len(e.called)
    /\ e.prevented = e.prevents

HandlersOf(n, type) == {i \in DOMAIN ev.listeners : ev.listeners[i] = [node |-> n, type |-> type]}

\* When nothing is being told any more, whoever listened is up to date: a popover's listeners
\* heard last what it is, unless one of them toggled it again, and those of the element that
\* is full-screen or has the pointer know it.
ToldAsIs ==
  ev.stack = <<>> =>
    /\ \A p \in Element \ ev.again : \A h \in HandlersOf(p, "toggle") :
         ev.heard[h] # None => ev.heard[h] = IF p \in ev.open THEN "open" ELSE "closed"
    /\ \A lock \in Lock : \A h \in HandlersOf(ev.held[lock], lock) :
         ev.heard[h] \in {None, ev.held[lock]}

==============================================================================
