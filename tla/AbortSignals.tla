------------------------------ MODULE AbortSignals ------------------------------
(***************************************************************************)
(* AbortController and AbortSignal (src/src/js/abort.rs): signals, the     *)
(* listeners that hear of an abort, and the signals of any() that follow   *)
(* others.  fire_abort runs listeners, which may abort, follow and listen  *)
(* while it is under way, then turns to the followers one by one.          *)
(***************************************************************************)
EXTENDS Integers, Sequences, FiniteSets, Functions

CONSTANTS MaxSignals, MaxListeners   \* bounds; a listener belongs to one signal

Bounds == {MaxSignals, MaxListeners} \subseteq Nat

Signal == 1..MaxSignals
NotYet == 0

VARIABLE abort
(* abort.made: signals so far; abort.reason: of each, the signal whose abort() it comes
   from, NotYet as long as it is not aborted; abort.follow, .listeners: of each;
   abort.calls: the calls of fire_abort in progress, innermost first.
   History: abort.sources: of each, those it was made to follow. *)

Init ==
  abort = [made |-> 0, reason |-> [s \in Signal |-> NotYet], follow |-> [s \in Signal |-> <<>>],
           listeners |-> [s \in Signal |-> 0], calls |-> <<>>,
           sources |-> [s \in Signal |-> {}]]

Made == 1..abort.made

\* The call of fire_abort, unless the signal is aborted: what it will do is fixed here.
Fired(a, s, reason) ==
  IF a.reason[s] # NotYet THEN a
  ELSE [a EXCEPT !.reason[s] = reason,
          !.calls = <<[of |-> s, reason |-> reason, events |-> 1 + a.listeners[s],
                       follow |-> a.follow[s]]>> \o @]

\* A script runs: nothing is under way, or one of its listeners was just called.
New(sources) == [abort EXCEPT !.made = @ + 1, !.sources[abort.made + 1] = sources]

\* new AbortController, AbortSignal.timeout.
Create == abort.made < MaxSignals /\ abort' = New({})

\* AbortSignal.abort: aborted from the start, without an event.
CreateAborted ==
  /\ abort.made < MaxSignals
  /\ abort' = [New({}) EXCEPT !.reason[abort.made + 1] = abort.made + 1]

\* abort() of a controller, and the timer of timeout().
Abort(s) == abort' = Fired(abort, s, s)

\* addEventListener; removeEventListener removes all.
Listen(s) ==
  /\ abort.listeners[s] < MaxListeners
  /\ abort' = [abort EXCEPT !.listeners[s] = @ + 1]
Unlisten(s) == abort.listeners[s] > 0 /\ abort' = [abort EXCEPT !.listeners[s] = 0]

\* A signal that follows those given, so far.
Joined(i, sources, of) ==
  [New(sources) EXCEPT !.follow = [s \in Signal |-> IF s \in of THEN Append(@[s], i) ELSE @[s]]]

\* Mutant of AnyOf: a source that is aborted by now is passed over.
AnyOfLate(sources) ==
  /\ abort.made < MaxSignals
  /\ abort' = Joined(abort.made + 1, Range(sources),
                     {s \in Range(sources) : abort.reason[s] = NotYet})

\* AbortSignal.any, over its sources in order: it returns at the first that is aborted, and
\* takes over its abort.
AnyOf(sources) ==
  LET i == abort.made + 1
      Waiting(upto) == \A k \in 1..upto : abort.reason[sources[k]] = NotYet
  IN /\ abort.made < MaxSignals
     /\ \/ /\ Waiting(Len(sources))
           /\ abort' = Joined(i, Range(sources), Range(sources))
        \/ \E k \in DOMAIN sources :
             /\ Waiting(k - 1) /\ abort.reason[sources[k]] # NotYet
             /\ abort' = Fired(Joined(i, Range(sources), {sources[j] : j \in 1..(k - 1)}), i,
                               abort.reason[sources[k]])

----------------------------------------------------------------------------
\* The innermost call goes on: onabort and the listeners it found, then the followers.
Proceed ==
  /\ abort.calls # <<>>
  /\ LET c == Head(abort.calls)
         rest == Tail(abort.calls)
     IN abort' =
       CASE c.events > 0 ->
              [abort EXCEPT !.calls[1].events = @ - 1]
         [] c.events = 0 /\ c.follow # <<>> ->
              Fired([abort EXCEPT !.calls[1].follow = Tail(@)], Head(c.follow), c.reason)
         [] OTHER -> [abort EXCEPT !.calls = rest]

Orders(S) == Bijection(1..Cardinality(S), S)

Next ==
  \/ Proceed \/ Create \/ CreateAborted
  \/ \E s \in Made : Abort(s) \/ Listen(s) \/ Unlisten(s)
  \/ \E sources \in Orders(Made) : AnyOf(sources)
  \/ \E s \in Made : AnyOf(<<s>>)

Spec == Init /\ [][Next]_abort

----------------------------------------------------------------------------
(* Properties. *)

TypeOK ==
  /\ abort.made \in 0..MaxSignals /\ abort.reason \in [Signal -> {NotYet} \cup Signal]
  /\ abort.follow \in [Signal -> Seq(Signal)]

\* A signal still to be reached by a call under way.
Due == UNION {Range(abort.calls[i].follow) : i \in DOMAIN abort.calls}

\* However listeners abort and combine signals meanwhile, one that follows an aborted
\* signal is aborted, or the call under way comes to it; and its reason is that of a
\* signal it follows, or its own.
FollowersAbort ==
  \A s \in Made :
    /\ (\E src \in abort.sources[s] : abort.reason[src] # NotYet) =>
         abort.reason[s] # NotYet \/ s \in Due
    /\ abort.reason[s] # NotYet =>
         abort.reason[s] = s \/ \E src \in abort.sources[s] : abort.reason[s] = abort.reason[src]

==============================================================================
