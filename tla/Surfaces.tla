-------------------------------- MODULE Surfaces --------------------------------
(***************************************************************************)
(* What 2D canvases draw on: the surfaces of the page's canvas elements    *)
(* (src/src/js/canvas.rs), and offscreen canvases and image bitmaps        *)
(* (src/src/js/offscreen.rs).  Each of the two pools is under a byte cap,  *)
(* and drops what is oldest; a context or a bitmap whose surface is gone   *)
(* draws and shows nothing, and no one is told.  The surface of an element *)
(* that left the document stays until then: CanvasSurfacesInner::remove    *)
(* and drop_detached are called from nowhere.                              *)
(*                                                                         *)
(* A surface is of one colour: where on it something is drawn, blending and*)
(* alpha are left out, and so are lines.                                   *)
(***************************************************************************)
EXTENDS Integers, Sequences, FiniteSetsExt, TLC

CONSTANTS
  Canvas, Paint,                      \* canvas elements, colours
  Sizes, CAP,                         \* bytes of a surface; of either pool
  MaxContexts, MaxSaves, MaxIds       \* bounds

Bounds == {CAP, MaxContexts, MaxSaves, MaxIds} \cup Sizes \subseteq Nat

VARIABLE surf
(* surf.map, .order, .total: CanvasSurfacesInner, [size, pixels, path] by element;
   surf.contexts: [canvas, fill, stack], the path being the surface's; surf.offs, .offOrder,
   .bitmaps, .bitOrder, .next: the offscreen pool, [size, pixels] by id; surf.blobs: pixels
   encoded.  History: surf.clones, bitmaps made of bitmaps. *)

Blank == "blank"
Black == "black"

Init == surf = [map |-> <<>>, order |-> <<>>, total |-> 0, contexts |-> <<>>,
                offs |-> <<>>, offOrder |-> <<>>, bitmaps |-> <<>>, bitOrder |-> <<>>,
                next |-> 1, blobs |-> {}, clones |-> {}]

Without(f, keys) == [x \in DOMAIN f \ keys |-> f[x]]
Bytes(f) == FoldSet(LAMBDA x, n : n + f[x].size, 0, DOMAIN f)

\* How many of order go, oldest first, until what is left of used is under the cap.
Evicted(order, used, sizeOf) ==
  LET left[k \in 0..Len(order)] == IF k = 0 THEN used ELSE left[k - 1] - sizeOf[order[k]]
      under == {k \in 0..Len(order) : left[k] <= CAP}
  IN IF under = {} THEN Len(order) ELSE Min(under)

First(order, k) == Range(SubSeq(order, 1, k))
After(order, k) == SubSeq(order, k + 1, Len(order))

----------------------------------------------------------------------------
(* Canvas elements. *)

\* CanvasSurfacesInner::evict_until_under_cap.
WithinCap(s, gone) ==
  [s EXCEPT !.map = Without(@, First(s.order, gone)), !.order = After(@, gone),
            !.total = @ - FoldSet(LAMBDA c, n : n + s.map[c].size, 0, First(s.order, gone))]

SizeOf(f) == [x \in DOMAIN f |-> f[x].size]
Trimmed(s) == WithinCap(s, Evicted(s.order, s.total, SizeOf(s.map)))

\* get_or_create_context: a new object every time, of the element's one surface; an element
\* whose surface was dropped gets another.
GetContext(c, size) ==
  LET s == [surf EXCEPT !.contexts = Append(@, [canvas |-> c, fill |-> Black, stack |-> <<>>])] IN
  /\ Len(surf.contexts) < MaxContexts
  /\ surf' = IF c \in DOMAIN surf.map THEN s
             ELSE Trimmed([s EXCEPT !.map = (c :> [size |-> size, pixels |-> Blank, path |-> FALSE]) @@ @,
                                    !.order = Append(@, c), !.total = @ + size])

\* read_fill_color: what is no colour is black.
ColourOf(style) == IF style \in Paint THEN style ELSE Black

SetFillStyle(x, style) == surf' = [surf EXCEPT !.contexts[x].fill = style]

\* with_surface.
Drawn(x) == surf.contexts[x].canvas
OnSurface(x) == Drawn(x) \in DOMAIN surf.map

FillRect(x) ==
  OnSurface(x) /\ surf' = [surf EXCEPT !.map[Drawn(x)].pixels = ColourOf(surf.contexts[x].fill)]
ClearRect(x) == OnSurface(x) /\ surf' = [surf EXCEPT !.map[Drawn(x)].pixels = Blank]
BeginPath(x) == OnSurface(x) /\ surf' = [surf EXCEPT !.map[Drawn(x)].path = FALSE]
LineTo(x) == OnSurface(x) /\ surf' = [surf EXCEPT !.map[Drawn(x)].path = TRUE]

\* ctx_fill: the path is used up.
Fill(x) ==
  /\ OnSurface(x) /\ surf.map[Drawn(x)].path
  /\ surf' = [surf EXCEPT !.map[Drawn(x)] =
       [@ EXCEPT !.path = FALSE, !.pixels = ColourOf(surf.contexts[x].fill)]]

Save(x) ==
  /\ Len(surf.contexts[x].stack) < MaxSaves
  /\ surf' = [surf EXCEPT !.contexts[x].stack = Append(@, surf.contexts[x].fill)]

Restore(x) ==
  LET stack == surf.contexts[x].stack IN
  /\ stack # <<>>
  /\ surf' = [surf EXCEPT !.contexts[x] = [@ EXCEPT !.fill = stack[Len(stack)], !.stack = SubSeq(@, 1, Len(@) - 1)]]

----------------------------------------------------------------------------
(* Offscreen canvases and bitmaps: one counter of ids, one cap. *)

total_offscreen_bytes(s) == Bytes(s.offs) + Bytes(s.bitmaps)

\* evict_until_under_cap: the offscreen canvases first, every one of them, and then bitmaps;
\* clones are in no order and stay.
Shrunk(s, gone) ==
  LET offs == IF gone < Len(s.offOrder) THEN gone ELSE Len(s.offOrder) IN
  [s EXCEPT !.offs = Without(@, First(s.offOrder, offs)), !.offOrder = After(@, offs),
            !.bitmaps = Without(@, First(s.bitOrder, gone - offs)), !.bitOrder = After(@, gone - offs)]

Evict(s) ==
  Shrunk(s, Evicted(s.offOrder \o s.bitOrder, total_offscreen_bytes(s), SizeOf(s.offs @@ s.bitmaps)))

HasId == surf.next <= MaxIds

OffscreenCanvas(size) ==
  /\ HasId
  /\ surf' = Evict([surf EXCEPT !.offs = (surf.next :> [size |-> size, pixels |-> Blank]) @@ @,
                                !.offOrder = Append(@, surf.next), !.next = @ + 1])

\* Mutant of store_image_bitmap: nothing is dropped for a bitmap.
store_image_bitmapKept(s, size, pixels) ==
  [s EXCEPT !.bitmaps = (s.next :> [size |-> size, pixels |-> pixels]) @@ @,
            !.bitOrder = Append(@, s.next), !.next = @ + 1]

store_image_bitmap(s, size, pixels) ==
  Evict([s EXCEPT !.bitmaps = (s.next :> [size |-> size, pixels |-> pixels]) @@ @,
                  !.bitOrder = Append(@, s.next), !.next = @ + 1])

\* off_ctx_fill_rect, off_ctx_clear_rect; put_image_data with what get_image_data gave.
OffPaint(id, colour) == surf' = [surf EXCEPT !.offs[id].pixels = colour]
PutImageData(id, from) == surf' = [surf EXCEPT !.offs[id].pixels = surf.offs[from].pixels]

\* off_ctx_draw_image: a bitmap or an offscreen canvas.
DrawImage(id, from) == surf' = [surf EXCEPT !.offs[id].pixels = from.pixels]

\* The surface is left blank; its pixels are the bitmap's.
TransferToImageBitmap(id) ==
  /\ HasId
  /\ surf' = store_image_bitmap([surf EXCEPT !.offs[id].pixels = Blank],
                                surf.offs[id].size, surf.offs[id].pixels)

ConvertToBlob(id) == surf' = [surf EXCEPT !.blobs = @ \cup {surf.offs[id]}]

\* createImageBitmap: of a bitmap a clone, which enters no order and evicts nothing; of an
\* offscreen canvas or of encoded bytes one that does.
CloneBitmap(id) ==
  /\ HasId
  /\ surf' = [surf EXCEPT !.bitmaps = (surf.next :> surf.bitmaps[id]) @@ @, !.next = @ + 1,
                          !.clones = @ \cup {surf.next}]
CreateImageBitmap(from) == HasId /\ surf' = store_image_bitmap(surf, from.size, from.pixels)

Close(id) ==
  surf' = [surf EXCEPT !.bitmaps = Without(@, {id}), !.bitOrder = SelectSeq(@, LAMBDA i : i # id)]

Images == {surf.offs[i] : i \in DOMAIN surf.offs} \cup {surf.bitmaps[i] : i \in DOMAIN surf.bitmaps}

Next ==
  \/ \E c \in Canvas, size \in Sizes : GetContext(c, size)
  \/ \E x \in DOMAIN surf.contexts :
       \/ FillRect(x) \/ ClearRect(x) \/ BeginPath(x) \/ LineTo(x) \/ Fill(x) \/ Save(x) \/ Restore(x)
       \/ \E style \in Paint \cup {"no colour"} : SetFillStyle(x, style)
  \/ \E size \in Sizes : MaxIds > 0 /\ OffscreenCanvas(size)
  \/ \E id \in DOMAIN surf.offs :
       \/ TransferToImageBitmap(id) \/ ConvertToBlob(id)
       \/ \E colour \in Paint \cup {Blank} : OffPaint(id, colour)
       \/ \E from \in DOMAIN surf.offs : PutImageData(id, from)
       \/ \E from \in Images : DrawImage(id, from)
  \/ \E from \in {surf.offs[i] : i \in DOMAIN surf.offs} \cup surf.blobs : CreateImageBitmap(from)
  \/ \E id \in DOMAIN surf.bitmaps : CloneBitmap(id) \/ Close(id)

Spec == Init /\ [][Next]_surf

----------------------------------------------------------------------------
(* Properties. *)

TypeOK ==
  /\ DOMAIN surf.map \subseteq Canvas /\ surf.total \in Nat
  /\ DOMAIN surf.offs \cap DOMAIN surf.bitmaps = {}
  /\ DOMAIN surf.offs \cup DOMAIN surf.bitmaps \subseteq 1..(surf.next - 1)

\* Each pool's order names what it holds, once each and oldest first, its bytes are what it
\* holds and under the cap; only clones of bitmaps are in no order and beyond the cap.
PoolsSound ==
  /\ Range(surf.order) = DOMAIN surf.map /\ IsInjective(surf.order)
  /\ surf.total = Bytes(surf.map) /\ surf.total <= CAP
  /\ Range(surf.offOrder) = DOMAIN surf.offs
  /\ Range(surf.bitOrder) = DOMAIN surf.bitmaps \ surf.clones
  /\ \A order \in {surf.offOrder, surf.bitOrder} : \A i \in 1..(Len(order) - 1) : order[i] < order[i + 1]
  /\ LET clones == [i \in surf.clones \cap DOMAIN surf.bitmaps |-> surf.bitmaps[i]]
     IN total_offscreen_bytes(surf) - Bytes(clones) <= CAP

================================================================================
