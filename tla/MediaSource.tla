------------------------------- MODULE MediaSource -------------------------------
(***************************************************************************)
(* MediaSource and SourceBuffer (src/src/js/mse.rs).  A buffer appends to a*)
(* temporary file; endOfStream joins the files of a source's buffers into  *)
(* one and, after its sourceended handler has run, gives it to the video   *)
(* the source is attached to.  The handler is a script: it may append,     *)
(* attach and end the stream again before the first call goes on.          *)
(*                                                                         *)
(* Appends are numbered; a file is the sequence of the appends in it.      *)
(***************************************************************************)
EXTENDS Integers, Sequences, Functions

CONSTANTS Node,                          \* video elements
          MaxBuffers, MaxAppends, MaxCalls   \* bounds; MaxCalls of endOfStream within itself

Bounds == {MaxBuffers, MaxAppends, MaxCalls} \subseteq Nat

NoNode == "none"
NoFile == <<0>>

VARIABLE mse
(* mse.state, .node, .buffers: of one source, its buffers in the order they were added;
   mse.file: of each buffer made, NoFile until it is appended to; mse.calls: endOfStream in
   progress, innermost first; mse.video: what each video element plays.
   History: mse.appends; mse.left, appends in files nobody has any more. *)

Init ==
  mse = [state |-> "closed", node |-> NoNode, buffers |-> <<>>, file |-> <<>>, calls |-> <<>>,
         video |-> [n \in Node |-> NoFile], appends |-> 0, left |-> <<>>]

Buffer == DOMAIN mse.file
InFile(f) == IF f = NoFile THEN <<>> ELSE f

AddSourceBuffer ==
  /\ Len(mse.file) < MaxBuffers
  /\ mse' = [mse EXCEPT !.file = Append(@, NoFile), !.buffers = Append(@, Len(mse.file) + 1)]

\* The entry's Drop removes its file.
RemoveSourceBuffer(b) ==
  /\ b \in Range(mse.buffers)
  /\ mse' = [mse EXCEPT !.buffers = SelectSeq(@, LAMBDA x : x # b), !.file[b] = NoFile,
               !.left = @ \o InFile(mse.file[b])]

\* appendBuffer, whatever the source's state; the bytes are dropped when no file can be made
\* or written.
AppendBuffer(b, ok) ==
  LET a == mse.appends + 1 IN
  /\ b \in Range(mse.buffers) /\ a <= MaxAppends
  /\ mse' = [mse EXCEPT !.appends = a,
               !.file[b] = IF ok THEN Append(InFile(@), a) ELSE @,
               !.left = IF ok THEN @ ELSE Append(@, a)]

\* Assigning the object URL to a video's src.
TryAttach(n) == mse' = [mse EXCEPT !.state = "open", !.node = n]

\* The files of the buffers that have one, in the buffers' order.
Joined(buffers) ==
  LET joined[i \in 0..Len(buffers)] ==
        IF i = 0 THEN <<>> ELSE joined[i - 1] \o mse.file[buffers[i]]
  IN joined[Len(buffers)]

\* ms_end_of_stream up to its handler.
EndOfStream ==
  LET with == SelectSeq(mse.buffers, LAMBDA b : mse.file[b] # NoFile) IN
  /\ Len(mse.calls) < MaxCalls
  /\ mse' = [mse EXCEPT !.state = "ended",
       !.file = [b \in Buffer |-> IF b \in Range(with) THEN NoFile ELSE @[b]],
       !.calls = <<[node |-> mse.node, file |-> IF with = <<>> THEN NoFile ELSE Joined(with)]>> \o @]

\* The rest of it: the video that was attached when the call began plays the file, or the
\* file is left where it is.  A video that cannot be opened is not put in the table.
EndOfStreamReturns(ok) ==
  /\ mse.calls # <<>>
  /\ LET c == Head(mse.calls)  plays == c.node # NoNode /\ c.file # NoFile /\ ok IN
     mse' = [mse EXCEPT !.calls = Tail(@),
       !.video = IF plays THEN [@ EXCEPT ![c.node] = c.file] ELSE @,
       !.left = @ \o (IF plays THEN InFile(mse.video[c.node]) ELSE InFile(c.file))]

Next ==
  \/ AddSourceBuffer \/ EndOfStream
  \/ \E b \in Buffer : RemoveSourceBuffer(b) \/ \E ok \in BOOLEAN : AppendBuffer(b, ok)
  \/ \E n \in Node : TryAttach(n)
  \/ \E ok \in BOOLEAN : EndOfStreamReturns(ok)

Spec == Init /\ [][Next]_mse

----------------------------------------------------------------------------
(* Properties. *)

TypeOK ==
  /\ mse.state \in {"closed", "open", "ended"} /\ mse.appends \in 0..MaxAppends
  /\ Range(mse.buffers) \subseteq Buffer

\* Who has a file, and which appends are in it.
Files ==
  {<<"buffer", b, mse.file[b]>> : b \in Buffer}
    \cup {<<"call", i, mse.calls[i].file>> : i \in DOMAIN mse.calls}
    \cup {<<"video", n, mse.video[n]>> : n \in Node} \cup {<<"nobody", 0, mse.left>>}

\* The append a is in the file f and nowhere else.
OnlyIn(a, f) ==
  \E k \in DOMAIN f[3] : /\ f[3][k] = a
                         /\ \A g \in Files : \A j \in DOMAIN g[3] : g[3][j] = a => g = f /\ j = k

\* However appends, removals and nested ends of the stream interleave, every append is in
\* exactly one file or was given up, a file of one buffer has its appends in their order,
\* and what waits in a buffer is newer than what any call in progress took from it.
AppendsPlayedOnce ==
  /\ \A a \in 1..mse.appends : \E f \in Files : OnlyIn(a, f)
  /\ \A f \in Files : Range(f[3]) \subseteq 0..mse.appends
  /\ Len(mse.file) = 1 =>
       \A f \in {mse.file[1]} \cup {mse.calls[i].file : i \in DOMAIN mse.calls}
                 \cup {mse.video[n] : n \in Node} :
         \A i, j \in DOMAIN f : i < j => f[i] < f[j]
  /\ \A b \in Buffer, i \in DOMAIN mse.calls :
       mse.file[b] # NoFile /\ mse.calls[i].file # NoFile =>
         \A a \in Range(mse.calls[i].file) : a < Head(mse.file[b])

==============================================================================
