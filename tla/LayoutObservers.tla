---------------------------- MODULE LayoutObservers ----------------------------
(***************************************************************************)
(* IntersectionObserver and ResizeObserver (src/src/js/observers.rs) after *)
(* each layout.  tick_layout_observers takes one snapshot of all observers *)
(* and then handles them one by one; the callbacks it calls in between may *)
(* observe and unobserve what later parts of the snapshot are about.       *)
(*                                                                         *)
(* What is observed of a target is a number: the part of it that is in     *)
(* view, or its size in half pixels.  What says that a number differs from *)
(* the one last told is the observer's.                                    *)
(***************************************************************************)
EXTENDS Integers, Sequences, FiniteSets

CONSTANTS
  Observer,         \* numbered in the order they are handled
  Resize,           \* those that are ResizeObservers, the last ones
  Target, FULL,     \* 0..FULL is what can be observed
  thresholds        \* [Observer -> SUBSET 0..FULL], of IntersectionObservers

Bounds ==
  /\ IsFiniteSet(Observer) /\ Observer = 1..Cardinality(Observer)
  /\ Resize \subseteq Observer /\ FULL \in Nat
  /\ \A o \in Resize, i \in Observer \ Resize : i < o
  /\ thresholds \in [Observer -> SUBSET (0..FULL)]

None == -1
Seen == [Target -> None..FULL]

VARIABLE lay
(* lay.now: per target, as of the last layout; lay.targets, lay.last: of each observer;
   lay.next: the observer the tick handles next, or 0 when no tick runs; lay.calls: the
   one before called its callback; lay.snap: the targets and last the tick started with.
   History: lay.told: per observer and target what its callback was last called with
   since it observes it; lay.touched: observers whose targets changed during a tick;
   lay.over: nothing was observed since the last tick. *)

Nothing == [o \in Observer |-> [t \in Target |-> None]]

Init ==
  lay = [now |-> [t \in Target |-> 0], targets |-> [o \in Observer |-> {}], last |-> Nothing,
         next |-> 0, calls |-> FALSE, snap |-> [targets |-> [o \in Observer |-> {}], last |-> Nothing],
         told |-> Nothing, touched |-> {}, over |-> FALSE]

----------------------------------------------------------------------------
\* What observe tells at once: all of it is in view, or it has no size yet.
first(o) == IF o \in Resize THEN 0 ELSE FULL

Script == lay.next = 0 \/ lay.calls
touch(o) == IF lay.next = 0 THEN lay.touched ELSE lay.touched \cup {o}

\* observe, of a target that is not observed yet.
Observe(o, t) ==
  /\ Script /\ t \notin lay.targets[o]
  /\ lay' = [lay EXCEPT !.targets[o] = @ \cup {t}, !.last[o][t] = first(o),
                        !.told[o][t] = first(o), !.over = FALSE, !.touched = touch(o)]

\* unobserve, and disconnect for all targets, forget the target, not what was last told.
Unobserve(o, ts) ==
  /\ Script /\ ts \subseteq lay.targets[o] /\ ts # {}
  /\ lay' = [lay EXCEPT !.targets[o] = @ \ ts, !.touched = touch(o),
       !.told[o] = [t \in Target |-> IF t \in ts THEN None ELSE @[t]]]

----------------------------------------------------------------------------
\* crossed_threshold: one lies between, and is not where the last number was.
crossed_threshold(o, prev, curr) ==
  \E t \in thresholds[o] : t # prev /\ ((prev <= t /\ t <= curr) \/ (curr <= t /\ t <= prev))

\* More than half a pixel; in view or not, or past a threshold.
Differs(o, prev, curr) ==
  \/ prev = None
  \/ IF o \in Resize THEN prev - curr \notin -1..1
     ELSE (prev > 0) # (curr > 0) \/ crossed_threshold(o, prev, curr)

\* A layout, then a tick over what is observed now.
Layout ==
  /\ lay.next = 0
  /\ \E now \in [Target -> 0..FULL] :
       lay' = [lay EXCEPT !.now = now, !.next = 1, !.calls = FALSE, !.over = FALSE,
                          !.snap = [targets |-> lay.targets, last |-> lay.last]]

\* One observer: only when there is something to tell does it remember what it saw.
Tick ==
  /\ lay.next # 0
  /\ LET o == lay.next
         seen == lay.snap.targets[o]
         fire == {t \in seen : Differs(o, lay.snap.last[o][t], lay.now[t])}
         then == IF o + 1 \in Observer THEN o + 1 ELSE 0
     IN lay' = [lay EXCEPT !.next = then, !.over = then = 0, !.calls = then # 0 /\ fire # {},
          !.snap = IF then = 0 THEN [targets |-> [i \in Observer |-> {}], last |-> Nothing] ELSE @,
          !.last[o] = IF fire = {} THEN @
                      ELSE [t \in Target |-> IF t \in seen THEN lay.now[t] ELSE lay.snap.last[o][t]],
          !.told[o] = [t \in Target |-> IF t \in fire THEN lay.now[t] ELSE @[t]]]

Next ==
  \/ Layout \/ Tick
  \/ \E o \in Observer :
       \/ \E t \in Target : Observe(o, t)
       \/ \E ts \in SUBSET lay.targets[o] : Unobserve(o, ts)

Spec == Init /\ [][Next]_lay

----------------------------------------------------------------------------
(* Properties. *)

TypeOK ==
  /\ lay.now \in [Target -> 0..FULL] /\ lay.targets \in [Observer -> SUBSET Target]
  /\ lay.last \in [Observer -> Seen] /\ lay.told \in [Observer -> Seen]
  /\ lay.next \in Observer \cup {0}

\* After a tick, each IntersectionObserver whose targets no callback ever changed during
\* one has been told of each target whether it is in view (observers.rs: it fires
\* whenever isIntersecting flipped).
ToldInView ==
  lay.over => \A o \in Observer \ (Resize \cup lay.touched) : \A t \in lay.targets[o] :
    (lay.told[o][t] > 0) = (lay.now[t] > 0)

==============================================================================
