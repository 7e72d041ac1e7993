----------------------------- MODULE XmlHttpRequest -----------------------------
(***************************************************************************)
(* XMLHttpRequest (src/src/js/xhr.rs).  send waits for the response, so    *)
(* nothing is ever in flight; but each call runs the object's handlers     *)
(* before it returns, and a handler may call open, send and abort of the   *)
(* same object again.  xhr.calls holds what the calls in progress have     *)
(* still to run, innermost call first.                                     *)
(*                                                                         *)
(* Each send has a number, which its answer carries: the status line is    *)
(* one field and the body with the headers and the url another.            *)
(***************************************************************************)
EXTENDS Integers, Sequences

CONSTANTS MaxSends, MaxDepth   \* bounds: of sends, and of calls within calls

Bounds == MaxSends \in Nat /\ MaxDepth \in Nat \ {0}

UNSENT == 0
OPENED == 1
DONE == 4
None == 0

VARIABLE xhr
(* xhr.status and xhr.text: the send they came with; xhr.calls: [of, told], told the
   handlers still to be run.  History: xhr.sent; xhr.ended: of each send, its last event. *)

Init ==
  xhr = [state |-> UNSENT, status |-> None, text |-> None, aborted |-> FALSE, calls |-> <<>>,
         sent |-> 0, ended |-> [s \in 1..MaxSends |-> <<>>]]

Send == 1..MaxSends
CanCall == Len(xhr.calls) < MaxDepth
Call(x, of, told) == [x EXCEPT !.calls = <<[of |-> of, told |-> told]>> \o @]

\* xhr_open: what the last answer left stays.
Open ==
  /\ CanCall
  /\ xhr' = Call([xhr EXCEPT !.state = OPENED, !.aborted = FALSE], None, <<"readystatechange">>)

\* xhr_send, in whatever state: the client has answered.  Its argument may be an object whose
\* toString is a script (260-265): what that calls are steps before this one, and one that
\* throws leaves everything as it was.
Answered ==
  LET s == xhr.sent + 1 IN
  /\ CanCall /\ s \in Send
  /\ xhr' = Call([xhr EXCEPT !.sent = s, !.status = s, !.text = s, !.state = DONE],
                 s, <<"readystatechange", "load">>)

\* xhr_send, no client, no such url or no answer: finish_with_error.
NotAnswered ==
  LET s == xhr.sent + 1 IN
  /\ CanCall /\ s \in Send
  /\ xhr' = Call([xhr EXCEPT !.sent = s, !.status = None, !.state = DONE],
                 s, <<"readystatechange", "error">>)

\* xhr_abort, in whatever state.
Abort ==
  /\ CanCall
  /\ xhr' = Call([xhr EXCEPT !.aborted = TRUE, !.state = DONE, !.status = None],
                 None, <<"readystatechange", "abort">>)

\* The last handler of a send's call tells how it ended.
heard(ended, c) ==
  IF c.of \in Send /\ Len(c.told) = 1 THEN [ended EXCEPT ![c.of] = Append(@, Head(c.told))] ELSE ended

\* fire_readystatechange, fire_load, fire_error: the innermost call's next handler is run
\* (what it calls are steps of their own), then the call returns.
Fire ==
  /\ xhr.calls # <<>>
  /\ LET c == Head(xhr.calls) IN
     xhr' = IF c.told = <<>> THEN [xhr EXCEPT !.calls = Tail(@)]
            ELSE [xhr EXCEPT !.calls[1].told = Tail(@), !.ended = heard(@, c)]

Next == Open \/ Answered \/ NotAnswered \/ Abort \/ Fire

Spec == Init /\ [][Next]_xhr

----------------------------------------------------------------------------
(* Properties. *)

TypeOK ==
  /\ xhr.state \in {UNSENT, OPENED, DONE} /\ xhr.status \in 0..MaxSends
  /\ xhr.text \in 0..MaxSends /\ xhr.sent \in 0..MaxSends

\* A status that is not zero stands with the body of the same answer, whichever calls
\* handlers make meanwhile; and a send whose call has returned was told once how it ended.
AnswersWhole ==
  /\ xhr.status # None => xhr.text = xhr.status
  /\ \A s \in 1..xhr.sent :
       \/ Len(xhr.ended[s]) = 1
       \/ xhr.ended[s] = <<>> /\ \E i \in DOMAIN xhr.calls : xhr.calls[i].of = s

==============================================================================
