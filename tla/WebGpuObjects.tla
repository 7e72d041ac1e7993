----------------------------- MODULE WebGpuObjects -----------------------------
(***************************************************************************)
(* What WebGPU's passes draw with (src/src/js/webgpu.rs): buffers, shaders,*)
(* textures, layouts, bind groups and pipelines, each an id of one counter *)
(* in the registry of its kind.  A script passes handles, which may be of  *)
(* another kind or of nothing; a pass records the ids and resolves them    *)
(* when it ends.                                                           *)
(*                                                                         *)
(* What the device does with a descriptor it does not accept is left out,  *)
(* and so is the order of encoders and the queue, which is WebGpu.         *)
(***************************************************************************)
EXTENDS Integers, Sequences, Functions

CONSTANTS MaxObjects, MaxOps, MaxPasses, MaxParts, MaxSlot   \* bounds

Bounds == {MaxObjects, MaxOps, MaxPasses, MaxParts, MaxSlot} \subseteq Nat

Nothing == 0

VARIABLE objs
(* objs.made: the objects by their id, [kind, parts], parts the ids it is made of;
   objs.mapped: buffers with bytes in mapped_at_creation; objs.passes: [compute, open, ops].
   History: a pass's set, what the script set in it last; an op's with, the state it asked
   a draw to run with; objs.drawn, of each draw that ran, [with, ran]. *)

Init == objs = [made |-> <<>>, mapped |-> {}, passes |-> <<>>, drawn |-> <<>>]

\* What a script passes: objects it has, or none.
Handle == 0..Len(objs.made)
Handles == UNION {[1..n -> Handle] : n \in 0..MaxParts}

\* read_u32_handle and the look-up in the registry: a handle of another kind is of nothing.
Resolved(h, kind) == IF h # Nothing /\ objs.made[h].kind = kind THEN h ELSE Nothing
AllResolved(hs, kind) == SelectSeq(hs, LAMBDA h : Resolved(h, kind) # Nothing)

----------------------------------------------------------------------------
(* Objects. *)

\* next_gpu_id, build_handle: an object gets the next id and stays in its registry.
Make(kind, parts) ==
  /\ Len(objs.made) < MaxObjects
  /\ objs' = [objs EXCEPT !.made = Append(@, [kind |-> kind, parts |-> parts])]

CreateShaderModule == Make("shader", <<>>)
CreateTexture == Make("texture", <<>>)
CreateSampler == Make("sampler", <<>>)
CreateBindGroupLayout == Make("layout", <<>>)

CreateBuffer(mapped) ==
  /\ Len(objs.made) < MaxObjects
  /\ objs' = [objs EXCEPT !.made = Append(@, [kind |-> "buffer", parts |-> <<>>]),
                          !.mapped = IF mapped THEN @ \cup {Len(objs.made) + 1} ELSE @]

\* buffer_unmap: the bytes are dropped, the device's buffer does not get them.
Unmap(h) == h \in objs.mapped /\ objs' = [objs EXCEPT !.mapped = @ \ {h}]

\* Those that are no layouts are left out, and the others move up.
CreatePipelineLayout(hs) == Make("pipeline layout", AllResolved(hs, "layout"))

\* A layout it must have; of its entries the buffers stay.
CreateBindGroup(layout, hs) ==
  Resolved(layout, "layout") # Nothing /\ Make("group", <<layout>> \o AllResolved(hs, "buffer"))

\* Without a fragment shader the vertex shader's module serves, without a layout none.
CreateRenderPipeline(vs, fs, layout) ==
  /\ Resolved(vs, "shader") # Nothing
  /\ Make("pipeline", <<vs, IF Resolved(fs, "shader") = Nothing THEN vs ELSE fs,
                        Resolved(layout, "pipeline layout")>>)

CreateComputePipeline(module, layout) ==
  /\ Resolved(module, "shader") # Nothing
  /\ Make("compute pipeline", <<module, Resolved(layout, "pipeline layout")>>)

----------------------------------------------------------------------------
(* Passes. *)

\* What is bound: a pipeline, bind groups and vertex buffers by slot, an index buffer.
Slot == 0..MaxSlot
Place == ({"pipeline", "index"} \X {0}) \cup ({"group", "vertex"} \X Slot)
Unset == [at \in Place |-> Nothing]

BeginPass(compute) ==
  /\ Len(objs.passes) < MaxPasses
  /\ objs' = [objs EXCEPT !.passes = Append(@,
       [compute |-> compute, open |-> TRUE, ops |-> <<>>, set |-> Unset])]

Recordable(p) == objs.passes[p].open /\ Len(objs.passes[p].ops) < MaxOps
Pushed(pass, at, id) == [pass EXCEPT !.ops = Append(@, [at |-> at, id |-> id, with |-> Unset])]

\* The kind each place takes, in a render pass or a compute pass.
KindAt(at, compute) ==
  CASE at[1] = "pipeline" -> IF compute THEN "compute pipeline" ELSE "pipeline"
    [] at[1] = "group" -> IF compute THEN "nothing" ELSE "group"
    [] OTHER -> "buffer"

\* pass_set_pipeline, pass_set_bind_group, pass_set_vertex_buffer, pass_set_index_buffer and
\* those of a compute pass, whose bind groups are looked for under a name that no handle has
\* and whose pipelines are not recorded when they are of nothing.
Set(p, at, h) ==
  LET pass == objs.passes[p]
      id == Resolved(h, KindAt(at, pass.compute)) IN
  /\ Recordable(p) /\ (pass.compute => at[1] \in {"pipeline", "group"})
  /\ pass.compute /\ at[1] = "pipeline" => id # Nothing
  /\ objs' = [objs EXCEPT !.passes[p] =
       [Pushed(pass, at, id) EXCEPT !.set[at] = IF id = Nothing THEN @ ELSE id]]

Drew(p) ==
  /\ Recordable(p)
  /\ objs' = [objs EXCEPT !.passes[p].ops = Append(@,
       [at |-> <<"draw", 0>>, id |-> Nothing, with |-> objs.passes[p].set])]

\* pass_draw, pass_draw_indexed; compute_pass_dispatch.
Draw(p) == ~objs.passes[p].compute /\ Drew(p)
Dispatch(p) == objs.passes[p].compute /\ Drew(p)

\* What the replay binds.
Bound(bound, op) == IF op.id = Nothing THEN bound ELSE [bound EXCEPT ![op.at] = op.id]

\* pass_end, compute_pass_end: the recorded ops in their order.
End(p) ==
  LET ops == objs.passes[p].ops
      draws == SelectSeq([i \in DOMAIN ops |-> i], LAMBDA i : ops[i].at[1] = "draw")
      bound[i \in 0..Len(ops)] ==
        IF i = 0 THEN Unset
        ELSE IF ops[i].at[1] = "draw" THEN bound[i - 1] ELSE Bound(bound[i - 1], ops[i])
  IN /\ objs.passes[p].open
     /\ objs' = [objs EXCEPT
          !.passes[p].open = FALSE,
          !.drawn = @ \o [k \in DOMAIN draws |->
            [with |-> ops[draws[k]].with, ran |-> bound[draws[k] - 1]]]]

Next ==
  \/ CreateShaderModule \/ CreateTexture \/ CreateSampler \/ CreateBindGroupLayout
  \/ \E mapped \in BOOLEAN : CreateBuffer(mapped)
  \/ \E h \in objs.mapped : Unmap(h)
  \/ \E hs \in Handles : CreatePipelineLayout(hs) \/ \E layout \in Handle : CreateBindGroup(layout, hs)
  \/ \E a, b \in Handle : CreateComputePipeline(a, b) \/ \E c \in Handle : CreateRenderPipeline(a, b, c)
  \/ \E compute \in BOOLEAN : BeginPass(compute)
  \/ \E p \in DOMAIN objs.passes :
       Draw(p) \/ Dispatch(p) \/ End(p) \/ \E at \in Place, h \in Handle : Set(p, at, h)

Spec == Init /\ [][Next]_objs

----------------------------------------------------------------------------
(* Properties. *)

Kinds == {"shader", "texture", "sampler", "buffer", "layout", "pipeline layout", "group",
          "pipeline", "compute pipeline"}

TypeOK ==
  /\ \A id \in DOMAIN objs.made :
       objs.made[id].kind \in Kinds /\ objs.made[id].parts \in Seq(0..(id - 1))
  /\ objs.mapped \subseteq DOMAIN objs.made

\* What an object of each kind is made of.
PartsOf(kind) ==
  CASE kind = "pipeline layout" -> {"layout"}
    [] kind = "group" -> {"layout", "buffer"}
    [] kind \in {"pipeline", "compute pipeline"} -> {"shader", "pipeline layout"}
    [] OTHER -> {}

\* Whatever handles a script confuses, objects are made of objects of the kinds they need,
\* and a draw runs with what its own pass set last of each kind, whichever passes are
\* recorded at the same time.
DrawnAsSet ==
  /\ \A id \in DOMAIN objs.made : \A part \in Range(objs.made[id].parts) \ {Nothing} :
       objs.made[part].kind \in PartsOf(objs.made[id].kind)
  /\ \A d \in Range(objs.drawn) : d.ran = d.with

================================================================================
