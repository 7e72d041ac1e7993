--------------------------- MODULE MutationObservers ---------------------------
(***************************************************************************)
(* MutationObserver (src/src/js/observers.rs): records queue up as shims   *)
(* push them, and are matched with the watches of all observers when the   *)
(* engine drains the queue; then the callbacks run, one by one.  What      *)
(* insertBefore, replaceChild and innerHTML do is pushed by no shim.       *)
(***************************************************************************)
EXTENDS Integers, Sequences, Functions

CONSTANTS
  Observer, Target, Kind,
  MaxRecords, MaxWatches   \* bounds: records ever pushed; watches of an observer

Bounds == {MaxRecords, MaxWatches} \subseteq Nat

Watch == [target : Target, kinds : SUBSET Kind \ {{}}, subtree : BOOLEAN]
Record == [id : 1..MaxRecords, target : Target, kind : Kind]

VARIABLE obs
(* obs.made: the observers constructed, in order; obs.watches: theirs;
   obs.pending: records not drained; obs.calls: callbacks to run, each an observer with
   its records; obs.pushed.  History: obs.heard, the records each was called with;
   obs.owed, those that matched a watch of its when they were pushed. *)

Init ==
  obs = [made |-> <<>>, watches |-> [o \in Observer |-> <<>>], pending |-> <<>>,
         calls |-> <<>>, pushed |-> 0, heard |-> [o \in Observer |-> <<>>],
         owed |-> [o \in Observer |-> {}]]

\* watch_matches: with subtree a watch is of the whole document.
watch_matches(w, r) == r.kind \in w.kinds /\ (w.subtree \/ r.target = w.target)

Matches(s, o, r) == \E i \in DOMAIN s.watches[o] : watch_matches(s.watches[o][i], r)

Ids(records) == [i \in DOMAIN records |-> records[i].id]

\* The items of a sequence that are in S, in their order.
Among(seq, S) ==
  LET kept[n \in 0..Len(seq)] ==
        IF n = 0 THEN <<>> ELSE IF seq[n] \in S THEN Append(kept[n - 1], seq[n]) ELSE kept[n - 1]
  IN kept[Len(seq)]

\* The shim of a mutation pushes its record, from a script or a callback.
PushMutationRecord(t, k) ==
  /\ obs.pushed < MaxRecords
  /\ LET r == [id |-> obs.pushed + 1, target |-> t, kind |-> k] IN
     obs' = [obs EXCEPT !.pushed = @ + 1, !.pending = Append(@, r),
       !.owed = [o \in Observer |->
                   IF \E i \in DOMAIN obs.watches[o] : watch_matches(obs.watches[o][i], r)
                     THEN obs.owed[o] \cup {r.id} ELSE obs.owed[o]]]

Construct(o) ==
  /\ \A i \in DOMAIN obs.made : obs.made[i] # o
  /\ obs' = [obs EXCEPT !.made = Append(@, o)]

\* A second observe of a target adds a watch.
Observe(o, w) ==
  /\ \E i \in DOMAIN obs.made : obs.made[i] = o
  /\ Len(obs.watches[o]) < MaxWatches
  /\ obs' = [obs EXCEPT !.watches[o] = Append(@, w)]

\* What is pending is no longer owed.
Disconnect(o) ==
  obs' = [obs EXCEPT !.watches[o] = <<>>, !.owed[o] = @ \ Range(Ids(obs.pending))]

\* drain_mutation_records: with the watches of now; observers without a hit are not called.
Drain ==
  /\ obs.calls = <<>> /\ obs.pending # <<>>
  /\ LET hits(o) == Among(obs.pending, {r \in Range(obs.pending) : Matches(obs, o, r)})
         all == [i \in DOMAIN obs.made |-> [of |-> obs.made[i], records |-> hits(obs.made[i])]]
     IN obs' = [obs EXCEPT !.pending = <<>>,
                           !.calls = Among(all, {c \in Range(all) : c.records # <<>>})]

\* A callback, also of an observer that an earlier one disconnected.
Call ==
  /\ obs.calls # <<>>
  /\ LET c == Head(obs.calls) IN
     obs' = [obs EXCEPT !.calls = Tail(@), !.heard[c.of] = @ \o Ids(c.records)]

Next ==
  \/ Drain \/ Call
  \/ \E t \in Target, k \in Kind : PushMutationRecord(t, k)
  \/ \E o \in Observer : Construct(o) \/ Disconnect(o) \/ \E w \in Watch : Observe(o, w)

Spec == Init /\ [][Next]_obs

----------------------------------------------------------------------------
(* Properties. *)

TypeOK ==
  /\ obs.watches \in [Observer -> Seq(Watch)] /\ obs.pending \in Seq(Record)
  /\ obs.heard \in [Observer -> Seq(1..MaxRecords)]

\* What an observer is about to be called with.
Due(o) == UNION {Range(Ids(c.records)) : c \in {c \in Range(obs.calls) : c.of = o}}

\* An observer hears of records in the order they were pushed and of none twice; it misses
\* none that it watched for when it was pushed and until the queue was drained.
MutationsHeard ==
  \A o \in Observer :
    /\ \A i, j \in DOMAIN obs.heard[o] : i < j => obs.heard[o][i] < obs.heard[o][j]
    /\ obs.owed[o] \subseteq Range(obs.heard[o]) \cup Due(o) \cup Range(Ids(obs.pending))

==============================================================================
