-------------------------------- MODULE Streams --------------------------------
(***************************************************************************)
(* ReadableStream and WritableStream (src/src/js/streams.rs): a readable's *)
(* queue of chunks, the reads that wait for one, its branches by tee(),    *)
(* and one writable that chunks are piped or written to.                   *)
(*                                                                         *)
(* Chunks are numbered as they are enqueued, reads as they are called, both*)
(* per stream.  The source's and the sink's callbacks are scripts like any *)
(* other: what they call are steps of their own.                           *)
(***************************************************************************)
EXTENDS Integers, Sequences, Functions, FiniteSets

CONSTANTS MaxChunks, MaxReads, MaxStreams   \* bounds; of the reads of all streams together

Bounds == {MaxChunks, MaxReads, MaxStreams} \subseteq Nat

Chunk == 1..MaxChunks

\* What became of a read: a chunk, or one of these.
Pending == 0
Done == -1
Failed == -2
Result == Chunk \cup {Pending, Done, Failed}

VARIABLE streams
(* streams.of: the readables; streams.sink, .sinkClosed: the writable.
   Of a readable: queue, closed, errored, locked, the reads that are pending, in order.
   History: made, chunks enqueued; result, what became of each read; cancelled;
   lost, chunks that a read took from an errored stream. *)

Fresh(queue, made, closed, errored) ==
  [queue |-> queue, closed |-> closed, errored |-> errored, locked |-> FALSE, pending |-> <<>>,
   made |-> made, result |-> <<>>, cancelled |-> FALSE, piped |-> {}, lost |-> {}]

Init == streams = [of |-> <<Fresh(<<>>, 0, FALSE, FALSE)>>, sink |-> <<>>, sinkClosed |-> FALSE]

Stream == DOMAIN streams.of
Set(i, s) == streams' = [streams EXCEPT !.of[i] = s]

\* Settles reads in the order they were called.
Settled(s, reads, with) ==
  [s EXCEPT !.result = [r \in DOMAIN @ |-> IF r \in Range(reads) THEN with ELSE @[r]]]

----------------------------------------------------------------------------
(* The controller; a branch of tee() has none. *)

\* Mutant of Enqueue: the read called last is served.
EnqueueToLast ==
  LET s == streams.of[1]  c == s.made + 1 IN
  /\ s.made < MaxChunks
  /\ Set(1, [IF s.pending = <<>> THEN [s EXCEPT !.queue = Append(@, c)]
             ELSE [Settled(s, <<s.pending[Len(s.pending)]>>, c) EXCEPT !.pending = SubSeq(@, 1, Len(@) - 1)]
             EXCEPT !.made = c])

\* enqueue_chunk: to the read that waits longest, else to the queue; also when closed.
Enqueue ==
  LET s == streams.of[1]  c == s.made + 1 IN
  /\ s.made < MaxChunks
  /\ Set(1, [IF s.pending = <<>> THEN [s EXCEPT !.queue = Append(@, c)]
             ELSE [Settled(s, <<Head(s.pending)>>, c) EXCEPT !.pending = Tail(@)]
             EXCEPT !.made = c])

Close ==
  LET s == streams.of[1] IN
  Set(1, [Settled(s, s.pending, Done) EXCEPT !.closed = TRUE, !.pending = <<>>])

Error ==
  LET s == streams.of[1] IN
  Set(1, [Settled(s, s.pending, Failed) EXCEPT !.errored = TRUE, !.pending = <<>>])

----------------------------------------------------------------------------
(* Readers.  A reader that was released still reads. *)

GetReader(i) == ~streams.of[i].locked /\ Set(i, [streams.of[i] EXCEPT !.locked = TRUE])

ReleaseLock(i) == streams.of[i].locked /\ Set(i, [streams.of[i] EXCEPT !.locked = FALSE])

Called == UNION {{i} \X DOMAIN streams.of[i].result : i \in Stream}

\* read: the chunk is taken first, then the stream's error wins over it.
Read(i) ==
  LET s == streams.of[i]
      r == Len(s.result) + 1
      took == IF s.queue = <<>> THEN s ELSE [s EXCEPT !.queue = Tail(@)]
      told(with) == [took EXCEPT !.result = Append(@, with)]
  IN
  /\ s.locked /\ Cardinality(Called) < MaxReads
  /\ Set(i, CASE s.errored -> [told(Failed) EXCEPT !.lost = @ \cup (Range(s.queue) \ Range(took.queue))]
              [] ~s.errored /\ s.queue # <<>> -> told(Head(s.queue))
              [] ~s.errored /\ s.queue = <<>> /\ s.closed -> told(Done)
              [] OTHER -> [told(Pending) EXCEPT !.pending = Append(@, r)])

\* cancel, of the stream or a reader: reads that are pending stay so.
Cancel(i) ==
  Set(i, [streams.of[i] EXCEPT !.closed = TRUE, !.queue = <<>>, !.cancelled = TRUE])

\* Two streams more, with what the queue holds now; it keeps that too.
Tee(i) ==
  /\ Len(streams.of) + 2 <= MaxStreams
  /\ LET s == streams.of[i]
         branch == [Fresh(s.queue, s.made, s.closed, s.errored) EXCEPT
                      !.piped = Chunk \ Range(s.queue)]
     IN streams' = [streams EXCEPT !.of = @ \o <<branch, branch>>]

----------------------------------------------------------------------------
(* The writable. *)

Room(n) == Len(streams.sink) + n <= MaxChunks

Write ==
  /\ Room(1)
  /\ streams' = [streams EXCEPT !.sink = Append(@, MaxChunks + 1)]

\* close, abort: writes are taken afterwards too.
CloseSink == streams' = [streams EXCEPT !.sinkClosed = TRUE]

\* pipeTo: what is queued now, then the writable is closed, also when the stream is not.
PipeTo(i) ==
  LET s == streams.of[i] IN
  /\ Room(Len(s.queue))
  /\ streams' = [streams EXCEPT !.sink = @ \o s.queue, !.sinkClosed = TRUE,
       !.of[i] = [s EXCEPT !.queue = <<>>, !.piped = @ \cup Range(s.queue)]]

----------------------------------------------------------------------------
Next ==
  \/ Enqueue \/ Close \/ Error \/ Write \/ CloseSink
  \/ \E i \in Stream : GetReader(i) \/ ReleaseLock(i) \/ Read(i) \/ Cancel(i) \/ Tee(i) \/ PipeTo(i)

Spec == Init /\ [][Next]_streams

----------------------------------------------------------------------------
(* Properties. *)

TypeOK ==
  \A i \in Stream : LET s == streams.of[i] IN
    /\ s.queue \in Seq(Chunk) /\ s.result \in Seq(Result)
    /\ Range(s.pending) \subseteq DOMAIN s.result

\* Reads get the chunks in the order they were enqueued; no read waits while a chunk is
\* queued; and until the stream is cancelled a chunk is queued, read, piped, or taken by
\* a read that the stream's error failed.
ChunksInOrder ==
  \A i \in Stream : LET s == streams.of[i]  got == {r \in DOMAIN s.result : s.result[r] \in Chunk} IN
    /\ \A a, b \in got : a < b => s.result[a] < s.result[b]
    /\ s.queue # <<>> => s.pending = <<>>
    /\ \A r \in DOMAIN s.result : s.result[r] = Pending <=> r \in Range(s.pending)
    /\ ~s.cancelled =>
         1..s.made \subseteq Range(s.queue) \cup Range(s.result) \cup s.piped \cup s.lost

==============================================================================
