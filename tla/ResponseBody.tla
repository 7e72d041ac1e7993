----------------------------- MODULE ResponseBody -----------------------------
(***************************************************************************)
(* Reading the body of one HTTP/1.1 response (src/src/net/http.rs): framed *)
(* by its length, by chunks or by the end of the connection, collected in  *)
(* a sink that spills to a file past a threshold and refuses more than a   *)
(* cap, then decoded layer by layer, each into a sink of its own.  A body  *)
(* is the number of its bytes.                                             *)
(***************************************************************************)
EXTENDS Integers

CONSTANTS
  THRESHOLD,        \* RESPONSE_BODY_SPILL_THRESHOLD
  max_bytes,
  MaxLayers         \* bound: codings in Content-Encoding

Bounds == THRESHOLD \in Nat /\ max_bytes \in Nat /\ MaxLayers \in Nat

Threshold == IF THRESHOLD < max_bytes THEN THRESHOLD ELSE max_bytes

VARIABLE body
(* body.framing, .due: how it is framed and the bytes the frame still promises;
   body.total, .spilled: the sink; body.input: where the layer below is, "none",
   "memory" or "file"; body.left: bytes of the current source still to come;
   body.layers: codings still to undo; body.files: temporary files on disk;
   body.whole: bytes the source has in all; body.at: "read", "decode", "layer",
   "done", "failed" or "dropped". *)

Empty == [total |-> 0, spilled |-> FALSE]

Init ==
  \E framing \in {"length", "chunked", "close"}, n \in 0..(max_bytes + 1), layers \in 0..MaxLayers :
    body = [at |-> IF framing = "length" /\ n > max_bytes THEN "failed" ELSE "read",
            framing |-> framing, left |-> n, due |-> IF framing = "length" THEN n ELSE 0,
            sink |-> Empty, input |-> "none", layers |-> layers, files |-> 0, whole |-> n]

----------------------------------------------------------------------------
\* A failure drops sink and layer: the memory is freed, the files stay.
Fail == body' = [body EXCEPT !.at = "failed"]

\* write: in memory up to the threshold, then in a file with what was buffered.
Written(sink, n) ==
  IF ~sink.spilled /\ sink.total + n <= Threshold
    THEN [sink EXCEPT !.total = @ + n]
    ELSE [total |-> sink.total + n, spilled |-> TRUE]

\* The state when n bytes went from the source to the sink.
Moved(n) ==
  LET sink == Written(body.sink, n) IN
  [body EXCEPT !.sink = sink, !.left = @ - n,
               !.files = IF sink.spilled /\ ~body.sink.spilled THEN @ + 1 ELSE @]

\* A chunk is announced; one that cannot fit is refused before it is read.
ReadChunkSize ==
  /\ body.at = "read" /\ body.framing = "chunked" /\ body.due = 0 /\ body.left > 0
  /\ \E n \in 1..body.left :
       IF body.sink.total + n > max_bytes THEN Fail ELSE body' = [body EXCEPT !.due = n]

\* A piece of a body of known length, or of a chunk.
ReadExact ==
  /\ body.at = "read" /\ body.framing # "close" /\ body.due > 0
  /\ \E n \in 1..body.due : body' = [Moved(n) EXCEPT !.due = @ - n]

\* A piece of a body that ends with the connection.
ReadUntilClose ==
  /\ body.at = "read" /\ body.framing = "close" /\ body.left > 0
  /\ \E n \in 1..body.left :
       IF body.sink.total + n > max_bytes THEN Fail ELSE body' = Moved(n)

\* The connection ends inside the frame, a read times out, a chunk is malformed.
Cut ==
  /\ body.at = "read"
  /\ Fail

\* finish: what the sink holds is the body, or the input of a decoder.
Finish ==
  /\ body.at = "read" /\ body.left = 0 /\ body.due = 0
  /\ body' = [body EXCEPT !.at = "decode",
                          !.input = IF body.sink.spilled THEN "file" ELSE "memory"]

\* decode_content_encoding: an unknown coding is an error; a layer decodes into
\* any number of bytes, piece by piece.
StartLayer ==
  /\ body.at = "decode" /\ body.layers > 0
  /\ \/ Fail
     \/ \E n \in 0..(max_bytes + 1) :
          body' = [body EXCEPT !.at = "layer", !.sink = Empty, !.left = n, !.whole = n,
                               !.layers = @ - 1]

\* pipe_through, by pieces; a corrupt layer or a decoded body too large fails.
Pipe ==
  /\ body.at = "layer"
  /\ \/ Fail
     \/ \E n \in 1..body.left :
          IF body.sink.total + n > max_bytes THEN Fail ELSE body' = Moved(n)

\* The layer is done: the file it was read from goes.
EndLayer ==
  /\ body.at = "layer" /\ body.left = 0
  /\ body' = [body EXCEPT !.at = "decode",
                          !.files = IF body.input = "file" THEN @ - 1 ELSE @,
                          !.input = IF body.sink.spilled THEN "file" ELSE "memory"]

Deliver ==
  /\ body.at = "decode" /\ body.layers = 0
  /\ body' = [body EXCEPT !.at = "done"]

\* The Response is dropped, and its file with it.
Drop ==
  /\ body.at = "done"
  /\ body' = [body EXCEPT !.at = "dropped", !.files = IF body.input = "file" THEN @ - 1 ELSE @]

Next ==
  \/ ReadChunkSize \/ ReadExact \/ ReadUntilClose \/ Cut \/ Finish
  \/ StartLayer \/ Pipe \/ EndLayer \/ Deliver \/ Drop

Spec == Init /\ [][Next]_body

----------------------------------------------------------------------------
(* Properties. *)

TypeOK ==
  /\ body.at \in {"read", "decode", "layer", "done", "failed", "dropped"}
  /\ body.framing \in {"length", "chunked", "close"} /\ body.input \in {"none", "memory", "file"}
  /\ body.left \in 0..(max_bytes + 1) /\ body.due \in 0..body.left
  /\ body.sink.total \in 0..max_bytes /\ body.sink.spilled \in BOOLEAN
  /\ body.layers \in 0..MaxLayers /\ body.files \in 0..2

\* A response that is delivered has all of its body, at most the cap of it, in
\* memory up to the threshold and in one file otherwise; the files of the layers it
\* was decoded from are gone, and once it is dropped its own is.
BodyWhole ==
  /\ body.at = "done" =>
       /\ body.sink.total = body.whole /\ body.whole <= max_bytes
       /\ body.sink.spilled <=> body.whole > Threshold
       /\ body.files = IF body.sink.spilled THEN 1 ELSE 0
  /\ body.at = "dropped" => body.files = 0

==============================================================================
