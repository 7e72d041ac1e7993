------------------------------- MODULE Animations -------------------------------
(***************************************************************************)
(* Script-driven animations (src/src/js/animations.rs) and view            *)
(* transitions (src/src/js/view_transitions.rs).  A tick of the engine     *)
(* samples every animation, then settles the promises of those that ended  *)
(* and runs their onfinish, one after the other: handlers are scripts, so  *)
(* they may play, pause, cancel and list animations in between.            *)
(*                                                                         *)
(* Time is in units of which an iteration has a few; a sample is a position*)
(* between the first keyframe (0) and the last (the duration).  Times are  *)
(* whole and bounded: one is held up to MaxTime only, and an animation goes*)
(* on only where its rate divides the time held.                           *)
(***************************************************************************)
EXTENDS Integers, Sequences, FiniteSets, Functions

CONSTANTS Options,                         \* of animate: duration, iterations, delay, direction, fill
          Rates,                           \* that updatePlaybackRate is given, in its limits
          MaxAnimations, MaxPromises, MaxTime, MaxTransitions,   \* bounds
          FADE                             \* ticks a view transition takes

Directions == {"normal", "reverse", "alternate", "alternate-reverse"}
Bounds ==
  /\ {MaxAnimations, MaxPromises, MaxTime, MaxTransitions} \subseteq Nat /\ FADE \in Nat \ {0}
  /\ Rates \subseteq Nat \ {0}
  /\ \A o \in Options : /\ o.duration \in Nat \ {0} /\ o.iterations \in Nat \ {0} /\ o.delay \in Nat
                        /\ o.direction \in Directions /\ o.backwards \in BOOLEAN

None == 0

VARIABLE anim
(* anim.of: the animations made; a cancelled one is gone.  anim.queue: FINISHED_QUEUE as
   drain_finished took it, anim.ticked: no script ran since.  anim.told: what became of each
   promise.  anim.active, .remaining, .parked: the transitions and the tick they are at.
   History: whether the last tick that sampled an animation ended it. *)

Init ==
  anim = [now |-> 0, of |-> <<>>, queue |-> <<>>, ticked |-> FALSE, told |-> <<>>,
          active |-> None, remaining |-> 0, parked |-> None, finished |-> <<>>]

Id == DOMAIN anim.of
Scripts == ~anim.ticked

\* build_animation_object: a handle with a new promise takes the place of the one before.
Handled(a, promise) == [a EXCEPT !.resolve = promise, !.reject = promise]

\* element_animate.
Animate(o) ==
  /\ Scripts /\ Len(anim.of) < MaxAnimations /\ Len(anim.told) < MaxPromises
  /\ anim' = [anim EXCEPT !.told = Append(@, "pending"), !.of = Append(@, Handled(
       [options |-> o, state |-> "running", start |-> anim.now, held |-> 0, rate |-> 1, live |-> TRUE,
        resolve |-> None, reject |-> None, shown |-> 0, ended |-> FALSE], Len(anim.told) + 1))]

\* document_get_animations: every animation gets another handle.
GetAnimations(order) ==
  LET promise(i) == Len(anim.told) + CHOOSE k \in DOMAIN order : order[k] = i IN
  /\ Scripts /\ Range(order) = {i \in Id : anim.of[i].live} /\ order # <<>>
  /\ Len(anim.told) + Len(order) <= MaxPromises
  /\ anim' = [anim EXCEPT !.told = @ \o [k \in DOMAIN order |-> "pending"],
       !.of = [i \in Id |-> IF @[i].live THEN Handled(@[i], promise(i)) ELSE @[i]]]

\* current_time; the animation's own, before the delay is taken off.
CurrentTime(a) == IF a.state = "paused" THEN a.held ELSE (anim.now - a.start) * a.rate

Change(id, a) == Scripts /\ anim.of[id].live /\ anim' = [anim EXCEPT !.of[id] = a]

\* Mutant of Resumed: the rate is not taken out of the time that passed.
ResumedAsHeld(a, passed) == [a EXCEPT !.state = "running", !.start = anim.now - a.held]
\* passed is the time held, divided by the rate.
Resumed(a, passed) == [a EXCEPT !.state = "running", !.start = anim.now - passed]

Play(id) ==
  LET a == anim.of[id] IN
  CASE a.state = "paused" ->
         \E passed \in -a.held..a.held : passed * a.rate = a.held /\ Change(id, Resumed(a, passed))
    [] a.state = "finished" ->
         Change(id, [a EXCEPT !.state = "running", !.start = anim.now, !.held = 0, !.ended = FALSE])
    [] a.state = "running" -> FALSE   \* nothing happens

Pause(id) ==
  LET a == anim.of[id]  t == CurrentTime(a) IN
  a.state = "running" /\ t <= MaxTime /\ Change(id, [a EXCEPT !.state = "paused", !.held = IF t < 0 THEN 0 ELSE t])

\* reverse, and updatePlaybackRate, which takes positive rates only and moves no start.
ReverseRate(id) == Change(id, [anim.of[id] EXCEPT !.rate = -@])
UpdatePlaybackRate(id, rate) == Change(id, [anim.of[id] EXCEPT !.rate = rate])

Settle(told, p, how) ==
  IF p = None THEN told
  ELSE [told EXCEPT ![p] = IF @ = "pending" THEN how ELSE @]

\* anim_cancel: the entry is gone, its newest promise is rejected unless it is settled.
Cancel(id) ==
  /\ Scripts /\ anim.of[id].live
  /\ anim' = [anim EXCEPT
       !.of[id] = [@ EXCEPT !.live = FALSE, !.start = 0, !.held = 0, !.rate = 1, !.shown = 0],
       !.told = Settle(@, anim.of[id].reject, "cancelled")]

\* anim_finish: at once, whatever the time; start_time as after one whole iteration.
Finish(id) ==
  LET a == anim.of[id] IN
  /\ Scripts /\ a.live
  /\ anim' = [anim EXCEPT
       !.of[id] = [a EXCEPT !.state = "finished", !.resolve = None,
                     !.start = anim.now - a.options.duration],
       !.told = Settle(@, a.resolve, "finished")]

----------------------------------------------------------------------------
(* The tick: advance_animations, then what drain_finished makes of it. *)

Post(a) == CurrentTime(a) - a.options.delay
Ends(a) == Post(a) >= a.options.duration * a.options.iterations
Iteration(a) == Post(a) \div a.options.duration
GoesForward(a) ==
  CASE a.options.direction = "normal" -> TRUE
    [] a.options.direction = "reverse" -> FALSE
    [] a.options.direction = "alternate" -> Iteration(a) % 2 = 0
    [] a.options.direction = "alternate-reverse" -> Iteration(a) % 2 = 1

\* sample: the position shown.
Sample(a) ==
  LET d == a.options.duration
      t == IF Ends(a) THEN d ELSE Post(a) % d
  IN IF Post(a) < 0 THEN (IF a.options.backwards THEN 0 ELSE a.shown)
     ELSE IF GoesForward(a) THEN t ELSE d - t

Sampled(a) == a.live /\ a.state \in {"running", "paused"}
Ended == {i \in Id : Sampled(anim.of[i]) /\ Post(anim.of[i]) >= 0 /\ Ends(anim.of[i])}

\* advance_animations, of one animation.
Advanced(a, ends) ==
  [a EXCEPT !.shown = IF Sampled(a) THEN Sample(a) ELSE @, !.resolve = IF ends THEN None ELSE @,
            !.state = IF ends THEN "finished" ELSE @, !.ended = ends \/ @]

\* The ids come in the order of a hash map.  view_transitions::advance follows.
Tick(order) ==
  /\ anim.queue = <<>> /\ Range(order) = Ended
  /\ LET over == anim.active # None /\ anim.remaining = 1 IN
     anim' = [anim EXCEPT
       !.of = [i \in Id |-> Advanced(@[i], i \in Ended)],
       !.queue = [k \in DOMAIN order |-> anim.of[order[k]].resolve],
       !.ticked = order # <<>>,
       !.active = IF over THEN None ELSE @,
       !.remaining = IF @ = 0 THEN 0 ELSE @ - 1,
       !.finished = IF over THEN [@ EXCEPT ![anim.active] = TRUE] ELSE @]

\* One entry of drain_finished: the promise, then onfinish.
Drain ==
  /\ anim.queue # <<>>
  /\ anim' = [anim EXCEPT !.queue = Tail(@), !.ticked = FALSE,
                !.told = Settle(@, Head(anim.queue), "finished")]

Wait == anim.queue = <<>> /\ anim.now < MaxTime /\ anim' = [anim EXCEPT !.now = @ + 1]

----------------------------------------------------------------------------
(* View transitions. *)

\* start_view_transition takes the slot, also from one that is under way; when the update
\* callback failed, finished is resolved at once.
StartViewTransition(ok) ==
  /\ Scripts /\ Len(anim.finished) < MaxTransitions
  /\ anim' = [anim EXCEPT !.active = Len(anim.finished) + 1, !.remaining = FADE,
                !.finished = Append(@, ~ok)]

\* skipTransition, of any transition object: the one in the slot.
SkipTransition ==
  /\ Scripts /\ anim.active # None
  /\ anim' = [anim EXCEPT !.active = None, !.remaining = 0, !.finished[anim.active] = TRUE]

Orders(S) == Bijection(1..Cardinality(S), S)

Script ==
  \/ \E o \in Options : Animate(o)
  \/ \E order \in Orders({i \in Id : anim.of[i].live}) : GetAnimations(order)
  \/ \E id \in Id : Play(id) \/ Pause(id) \/ ReverseRate(id) \/ Cancel(id) \/ Finish(id)
  \/ \E id \in Id, rate \in Rates : UpdatePlaybackRate(id, rate)
  \/ \E ok \in BOOLEAN : StartViewTransition(ok)
  \/ SkipTransition

Next == Script \/ (\E order \in Orders(Ended) : Tick(order)) \/ Drain \/ Wait

Spec == Init /\ [][Next]_anim

----------------------------------------------------------------------------
(* Properties. *)

TypeOK ==
  /\ anim.now \in 0..MaxTime /\ anim.remaining \in 0..FADE
  /\ \A p \in DOMAIN anim.told : anim.told[p] \in {"pending", "finished", "cancelled"}
  /\ \A i \in Id : anim.of[i].state \in {"running", "paused", "finished"}

\* However late the tick that ends an animation, it leaves the keyframe its direction ends
\* at (of those that alternate, the tick's lateness decides).
EndShown(a) ==
  CASE a.options.direction = "normal" -> a.shown = a.options.duration
    [] a.options.direction = "reverse" -> a.shown = 0
    [] OTHER -> TRUE

\* Whatever handlers do while a tick's endings are told: an animation's newest promise waits
\* as long as the animation can still end, and is settled when it has ended or was cancelled;
\* and the last transition started is finished once it left the slot.  A promise that a newer
\* handle took the place of is told of nothing any more, and an animation that runs back
\* to its start does not end there, as the code has it.
EndingsTold ==
  /\ \A i \in Id : LET a == anim.of[i] IN
       /\ a.resolve # None /\ a.live => anim.told[a.resolve] = "pending"
       /\ a.ended /\ a.live => EndShown(a)
       /\ a.resolve = None \/ ~a.live => anim.told[a.reject] # "pending" \/ a.reject \in Range(anim.queue)
  /\ anim.finished # <<>> => anim.finished[Len(anim.finished)] \/ anim.active = Len(anim.finished)

\* An animation's time stands still while it is paused, however its rate changes meanwhile;
\* played again it goes on from there.
PauseKept ==
  \A id \in Id :
    anim.of[id].state = "paused" /\ anim'.of[id].live /\ anim'.of[id].state \in {"paused", "running"} =>
      LET a == anim'.of[id] IN
      anim.of[id].held = IF a.state = "paused" THEN a.held ELSE (anim'.now - a.start) * a.rate

PauseKeepsTime == [][PauseKept]_anim

==============================================================================
