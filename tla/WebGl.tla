--------------------------------- MODULE WebGl ---------------------------------
(***************************************************************************)
(* A WebGL context (src/src/js/webgl.rs): tables of buffers, shaders,      *)
(* programs and textures under one counter of handles, what is bound and in*)
(* use, and the uniforms a program was given, which lie in one run of bytes*)
(* with 64 for each name asked for.                                        *)
(*                                                                         *)
(* Nothing is drawn here: a draw needs an attribute with a size            *)
(* (webgl_gpu.rs 271), only vertexAttribPointer gives it one, and that     *)
(* borrows the state a second time while it holds it, which stops the      *)
(* browser.                                                                *)
(***************************************************************************)
EXTENDS Integers, Sequences, FiniteSets, Functions, TLC

CONSTANTS
  Source, Broken,                     \* texts of shaders, those that do not compile
  Name, Value,                        \* of uniforms and attributes
  Units, MAX_ATTRIBS,                 \* texture units, slots of attributes
  Made,                               \* what a script makes
  MaxHandles                          \* bound

Bounds == MaxHandles \in Nat /\ MAX_ATTRIBS \in Nat /\ Broken \subseteq Source

VARIABLE gl
(* gl.next: the last handle; gl.buffers, .textures, .shaders, .programs: by handle; .array,
   .element, .bound: what is bound; .unit, .current: in use; .enabled: slots of attributes;
   .uniforms: by program, the blocks of 64 bytes; .stopped: the browser has panicked.
   History: gl.given, what was written last through a name of the program in use; gl.crossed,
   programs in use when another's location or more than a block was written. *)

None == 0
Block == 1..(Cardinality(Name) + 1)
Zero == [b \in Block |-> None]

Init == gl = [next |-> 0, buffers |-> <<>>, textures |-> <<>>, shaders |-> <<>>, programs |-> <<>>,
              array |-> None, element |-> None, bound |-> [u \in Units |-> None], unit |-> 0,
              current |-> None, enabled |-> {}, uniforms |-> <<>>, stopped |-> FALSE,
              given |-> <<>>, crossed |-> {}]

\* What a script passes as a handle.
Handle == 0..gl.next
Running == ~gl.stopped

----------------------------------------------------------------------------
(* Handles; whatever is a stub takes one, deletes and getError too. *)

New == gl.next + 1
Making(kind) == Running /\ kind \in Made /\ gl.next < MaxHandles

Stub == Making("stub") /\ gl' = [gl EXCEPT !.next = New]
CreateBuffer == Making("buffer") /\ gl' = [gl EXCEPT !.next = New, !.buffers = (New :> None) @@ @]
CreateTexture == Making("texture") /\ gl' = [gl EXCEPT !.next = New, !.textures = (New :> None) @@ @]

CreateShader(stage) ==
  /\ Making("shader")
  /\ gl' = [gl EXCEPT !.next = New,
       !.shaders = (New :> [stage |-> stage, source |-> "", translated |-> ""]) @@ @]

CreateProgram ==
  /\ Making("program")
  /\ gl' = [gl EXCEPT !.next = New,
       !.programs = (New :> [vertex |-> None, fragment |-> None, linked |-> FALSE,
                             names |-> <<>>, attribs |-> <<>>]) @@ @]

----------------------------------------------------------------------------
(* Buffers and textures. *)

BindBuffer(h) ==
  /\ Running
  /\ gl' \in {[gl EXCEPT !.array = h], [gl EXCEPT !.element = h]}

\* bufferData: into what is bound, if it is a buffer.
BufferData(h, v) ==
  /\ Running /\ h \in {gl.array, gl.element} \cap DOMAIN gl.buffers
  /\ gl' = [gl EXCEPT !.buffers[h] = v]

ActiveTexture(u) == Running /\ gl' = [gl EXCEPT !.unit = u]
BindTexture(h) == Running /\ gl' = [gl EXCEPT !.bound[gl.unit] = h]

TexImage2D(v) ==
  /\ Running /\ gl.bound[gl.unit] \in DOMAIN gl.textures
  /\ gl' = [gl EXCEPT !.textures[gl.bound[gl.unit]] = v]

----------------------------------------------------------------------------
(* Shaders and programs. *)

\* Mutant of ShaderSource: what was translated stays until the next compilation.
ShaderSourceKept(h, source) == Running /\ gl' = [gl EXCEPT !.shaders[h].source = source]

ShaderSource(h, source) ==
  Running /\ gl' = [gl EXCEPT !.shaders[h] = [@ EXCEPT !.source = source, !.translated = ""]]

\* glsl_to_wgsl.
Translated(source) == IF source \in Broken THEN "" ELSE source

CompileShader(h) ==
  Running /\ gl' = [gl EXCEPT !.shaders[h].translated = Translated(gl.shaders[h].source)]

AttachShader(p, h) ==
  /\ Running
  /\ gl' = [gl EXCEPT !.programs[p] = IF gl.shaders[h].stage = "vertex"
                                      THEN [@ EXCEPT !.vertex = h] ELSE [@ EXCEPT !.fragment = h]]

\* Both stages are there and translated now.
Ready(p) ==
  \A h \in {gl.programs[p].vertex, gl.programs[p].fragment} :
    h \in DOMAIN gl.shaders /\ gl.shaders[h].translated # ""

LinkProgram(p) == Running /\ gl' = [gl EXCEPT !.programs[p].linked = Ready(p)]

\* Any handle may be in use, one that is no program too.
UseProgram(h) == Running /\ gl' = [gl EXCEPT !.current = h]

\* What do_draw asks of shaders: they are linked, and still translated.
Drawable(p) == gl.programs[p].linked /\ Ready(p)

----------------------------------------------------------------------------
(* Attributes and uniforms. *)

IndexOf(names, n) == IF n \in Range(names) THEN CHOOSE i \in DOMAIN names : names[i] = n ELSE None

GetAttribLocation(p, n) ==
  /\ Running /\ n \notin Range(gl.programs[p].attribs) /\ Len(gl.programs[p].attribs) < MAX_ATTRIBS
  /\ gl' = [gl EXCEPT !.programs[p].attribs = Append(@, n)]

EnableVertexAttribArray(slot) == Running /\ gl' = [gl EXCEPT !.enabled = @ \cup {slot}]
VertexAttribPointer == Running /\ gl' = [gl EXCEPT !.stopped = TRUE]

\* Every name has a location, the shaders' or not.
GetUniformLocation(p, n) ==
  /\ Running /\ n \notin Range(gl.programs[p].names)
  /\ gl' = [gl EXCEPT !.programs[p].names = Append(@, n)]

\* write_uniform_bytes: at the offset, in the program in use, whosever location it is;
\* uniform1fv and uniformMatrix4fv write as much as they are given.
Written(blocks, at, v, length) == [b \in Block |-> IF b \in at..(at + length - 1) THEN v ELSE blocks[b]]

Uniform(p, n, v, length) ==
  LET at == IndexOf(gl.programs[p].names, n)
      of == IF gl.current \in DOMAIN gl.uniforms THEN gl.uniforms[gl.current] ELSE Zero
  IN /\ Running /\ at # None /\ gl.current # None
     /\ gl' = [gl EXCEPT
          !.uniforms = (gl.current :> Written(of, at, v, length)) @@ @,
          !.given = IF gl.current = p THEN (<<p, n>> :> v) @@ @ ELSE @,
          !.crossed = IF gl.current # p \/ length > 1 THEN @ \cup {gl.current} ELSE @]

Next ==
  \/ Stub \/ CreateBuffer \/ CreateTexture \/ CreateProgram \/ VertexAttribPointer
  \/ \E stage \in {"vertex", "fragment"} : CreateShader(stage)
  \/ \E h \in Handle : UseProgram(h)
  \/ \E h \in DOMAIN gl.buffers : BindBuffer(h) \/ \E v \in Value : BufferData(h, v)
  \/ \E h \in DOMAIN gl.textures : BindTexture(h)
  \/ \E v \in Value : TexImage2D(v)
  \/ \E u \in Units : ActiveTexture(u)
  \/ \E slot \in 0..(MAX_ATTRIBS - 1) : EnableVertexAttribArray(slot)
  \/ \E h \in DOMAIN gl.shaders : CompileShader(h) \/ \E s \in Source : ShaderSource(h, s)
  \/ \E p \in DOMAIN gl.programs :
       \/ LinkProgram(p) \/ \E h \in DOMAIN gl.shaders : AttachShader(p, h)
       \/ \E n \in Name : \/ GetAttribLocation(p, n) \/ GetUniformLocation(p, n)
                          \/ \E v \in Value, length \in 1..2 : Uniform(p, n, v, length)

Spec == Init /\ [][Next]_gl

----------------------------------------------------------------------------
(* Properties. *)

Tables == <<gl.buffers, gl.textures, gl.shaders, gl.programs>>

TypeOK ==
  /\ \A i, j \in 1..4 : i # j => DOMAIN Tables[i] \cap DOMAIN Tables[j] = {}
  /\ \A i \in 1..4 : DOMAIN Tables[i] \subseteq 1..gl.next
  /\ {gl.array, gl.element, gl.current} \cup {gl.bound[u] : u \in Units} \subseteq Handle
  /\ DOMAIN gl.uniforms \subseteq 1..gl.next /\ gl.stopped \in BOOLEAN

\* A program that may draw draws with what its shaders' sources are now, of both stages;
\* and a name reads what was last written through it, whichever programs were in use in
\* between, unless a script wrote past the name's 64 bytes or through another program's
\* location.
ProgramsApart ==
  /\ \A p \in DOMAIN gl.programs : Drawable(p) =>
       \A stage \in {"vertex", "fragment"} : LET s == gl.shaders[gl.programs[p][stage]] IN
         s.stage = stage /\ s.translated = s.source /\ s.source \notin Broken
  /\ \A at \in DOMAIN gl.given : LET p == at[1] IN p \in gl.crossed
       \/ gl.uniforms[p][IndexOf(gl.programs[p].names, at[2])] = gl.given[at]

================================================================================
