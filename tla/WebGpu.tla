--------------------------------- MODULE WebGpu ---------------------------------
(***************************************************************************)
(* WebGPU (src/src/js/webgpu.rs): objects are ids in registries.  A pass   *)
(* only records; end() replays what it recorded into the encoder, which it *)
(* takes out of its entry meanwhile.  finish() takes the encoder for good  *)
(* and makes a command buffer of it, which submit() runs once.  A canvas   *)
(* gives out its target as a texture, and present() copies it.             *)
(***************************************************************************)
EXTENDS Integers, Sequences, FiniteSets, Functions

CONSTANTS MaxEncoders, MaxPasses, MaxCommands   \* bounds
CONSTANT Size                                   \* of a canvas

Bounds == {MaxEncoders, MaxPasses, MaxCommands} \subseteq Nat

Nothing == 0    \* a handle that is of nothing, a view without a texture, a canvas never drawn on

VARIABLE gpu
(* A command is [n, view]: its number, Nothing when the handle it names is of nothing, and
   the target it draws on.  gpu.encoders: [here, work, finished], here unless the encoder was
   taken, finished (history) once the script called finish; gpu.passes: [of, open, view,
   work, due], due (history) once ended before its encoder was finished; gpu.ready:
   [here, work], the command buffers; gpu.ran: the commands run, in order; gpu.count;
   gpu.canvas, gpu.target: of one canvas, the surface and the target of now, with the last
   command drawn on each. *)

Init ==
  \E size \in Size :
    gpu = [encoders |-> <<>>, passes |-> <<>>, ready |-> <<>>, ran |-> <<>>, count |-> 0,
           configured |-> FALSE, canvas |-> [size |-> size, shows |-> Nothing],
           target |-> [made |-> Nothing, size |-> size, shows |-> Nothing]]

CreateCommandEncoder ==
  /\ Len(gpu.encoders) < MaxEncoders
  /\ gpu' = [gpu EXCEPT !.encoders = Append(@, [here |-> TRUE, work |-> <<>>, finished |-> FALSE])]

\* beginRenderPass on the canvas's current texture or another, beginComputePass: the
\* encoder is not looked at, and may have other passes open.
BeginPass(e, view) ==
  /\ Len(gpu.passes) < MaxPasses
  /\ gpu' = [gpu EXCEPT !.passes = Append(@,
       [of |-> e, open |-> TRUE, view |-> view, work |-> <<>>, due |-> FALSE])]

\* setPipeline, setBindGroup, set..Buffer, draw.., dispatchWorkgroups: pushed with the ids given.
Record(p, known) ==
  /\ gpu.passes[p].open /\ gpu.count < MaxCommands
  /\ gpu' = [gpu EXCEPT !.count = @ + 1,
       !.passes[p].work = Append(@, [n |-> IF known THEN gpu.count + 1 ELSE Nothing,
                                     view |-> gpu.passes[p].view])]

\* copyBufferToBuffer goes into the encoder at once, before what open passes recorded.
CopyBufferToBuffer(e) ==
  /\ gpu.encoders[e].here /\ gpu.count < MaxCommands
  /\ gpu' = [gpu EXCEPT !.count = @ + 1,
       !.encoders[e].work = Append(@, [n |-> gpu.count + 1, view |-> Nothing])]

Known(work) == SelectSeq(work, LAMBDA c : c.n # Nothing)

\* pass_end, compute_pass_end: without an encoder what was recorded is dropped.
EndPass(p) ==
  /\ gpu.passes[p].open
  /\ LET e == gpu.passes[p].of IN
     gpu' = [gpu EXCEPT !.passes[p].open = FALSE,
               !.passes[p].due = ~gpu.encoders[e].finished,
               !.encoders[e].work = IF gpu.encoders[e].here THEN @ \o Known(gpu.passes[p].work)
                                    ELSE @]

\* finish; of an encoder that is gone it returns null.
Finish(e) ==
  gpu' = IF ~gpu.encoders[e].here THEN [gpu EXCEPT !.encoders[e].finished = TRUE]
         ELSE [gpu EXCEPT !.encoders[e] = [here |-> FALSE, work |-> <<>>, finished |-> TRUE],
                          !.ready = Append(@, [here |-> TRUE, work |-> gpu.encoders[e].work])]

\* Each command buffer is taken from the registry by the submit that names it.
Submit(buffers) ==
  LET named == SelectSeq(buffers, LAMBDA b : gpu.ready[b].here)
      all[i \in 0..Len(named)] == IF i = 0 THEN <<>> ELSE all[i - 1] \o gpu.ready[named[i]].work
      work == all[Len(named)]
      drawn == SelectSeq(work, LAMBDA c : c.view # Nothing /\ c.view = gpu.target.made)
  IN gpu' = [gpu EXCEPT
       !.ran = @ \o [i \in DOMAIN work |-> work[i].n],
       !.ready = [b \in DOMAIN @ |-> IF b \in Range(buffers) THEN [here |-> FALSE, work |-> <<>>] ELSE @[b]],
       !.target.shows = IF drawn = <<>> THEN @ ELSE drawn[Len(drawn)].n]

----------------------------------------------------------------------------
(* The canvas. *)

\* With or without a device.
Configure(known) == gpu' = [gpu EXCEPT !.configured = known]

\* The script sets width or height: the surface is a new one.
Resize(size) ==
  /\ size # gpu.canvas.size
  /\ gpu' = [gpu EXCEPT !.canvas = [size |-> size, shows |-> Nothing]]

\* getCurrentTexture: a target of another size than the surface is replaced.
GetCurrentTexture ==
  /\ gpu.configured /\ gpu.target.made < MaxPasses
  /\ gpu.target.made = Nothing \/ gpu.target.size # gpu.canvas.size
  /\ gpu' = [gpu EXCEPT !.target =
               [made |-> gpu.target.made + 1, size |-> gpu.canvas.size, shows |-> Nothing]]

\* canvas_ctx_present: waits for the queue; a target of another size is not copied.
Present ==
  /\ gpu.configured /\ gpu.target.made # Nothing /\ gpu.target.size = gpu.canvas.size
  /\ gpu' = [gpu EXCEPT !.canvas.shows = gpu.target.shows]

Orders(S) == Bijection(1..Cardinality(S), S)

Next ==
  \/ CreateCommandEncoder \/ GetCurrentTexture \/ Present
  \/ \E e \in DOMAIN gpu.encoders :
       \/ CopyBufferToBuffer(e) \/ Finish(e)
       \/ \E view \in {Nothing, gpu.target.made} : BeginPass(e, view)
  \/ \E p \in DOMAIN gpu.passes : EndPass(p) \/ \E known \in BOOLEAN : Record(p, known)
  \/ \E some \in SUBSET DOMAIN gpu.ready \ {{}} : \E order \in Orders(some) : Submit(order)
  \/ \E size \in Size : Resize(size)
  \/ \E known \in BOOLEAN : Configure(known)

Spec == Init /\ [][Next]_gpu

----------------------------------------------------------------------------
(* Properties. *)

Numbers(work) == [i \in DOMAIN work |-> work[i].n]

TypeOK ==
  /\ gpu.ran \in Seq(1..MaxCommands) /\ gpu.count \in 0..MaxCommands
  /\ gpu.canvas.size \in Size /\ gpu.canvas.shows \in 0..MaxCommands

\* Where work is: encoders, command buffers, the queue.
Places ==
  {Numbers(gpu.encoders[e].work) : e \in {f \in DOMAIN gpu.encoders : gpu.encoders[f].here}}
    \cup {Numbers(gpu.ready[b].work) : b \in DOMAIN gpu.ready} \cup {gpu.ran}

\* No command runs twice; and those of a pass that ended before its encoder was finished
\* are together and in order in the encoder, a command buffer or what was run, however
\* passes and encoders are interleaved.
PassesRunWhole ==
  /\ \A i, j \in DOMAIN gpu.ran : i # j => gpu.ran[i] # gpu.ran[j]
  /\ \A p \in DOMAIN gpu.passes : gpu.passes[p].due =>
       LET work == Numbers(Known(gpu.passes[p].work)) IN
       \E place \in Places : \E i \in 0..(Len(place) - Len(work)) :
         SubSeq(place, i + 1, i + Len(work)) = work

==============================================================================
