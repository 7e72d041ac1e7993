-------------------------------- MODULE Layout --------------------------------
(***************************************************************************)
(* Layout (src/src/layout/*.rs): from the styled nodes of a document to    *)
(* the boxes they take, one pass of block, inline, flex, grid and table    *)
(* layout and one that moves the boxes positioned by an anchor; and the    *)
(* node a point hits.                                                      *)
(*                                                                         *)
(* Lengths are whole numbers.  Of margin, border and padding the four      *)
(* sides are alike; margin is m, border and padding together e.  Glyphs    *)
(* are as wide as each other and break between words, as the shaping       *)
(* library does it.  Pseudo-elements, aspect ratios and text alignment are *)
(* left out, and a subgrid is an item of the grid it belongs to.           *)
(***************************************************************************)
EXTENDS Integers, SequencesExt, FiniteSetsExt, TLC

CONSTANTS
  LaidPages,      \* sets of documents: sequences of styled nodes in document order
  ViewportWidth,
  GLYPH, LINE     \* the width of a glyph, the height of a line

Bounds == {ViewportWidth, GLYPH, LINE} \subseteq Nat \ {0}

VARIABLE lay
(* lay.doc: the document; lay.at: the pass that is next; lay.boxes: node -> rectangle. *)

----------------------------------------------------------------------------
Text == "#text"
None == <<>>       \* an Option without a value, a length that is auto
NonNeg(n) == Max({n, 0})
\* f itself; TLC works its values out once, here, and not where they are used.
Whole(f) == f @@ <<>>
Total(Of(_), S) == MapThenSumSet(Of, S)
Rect(x, y, w, h) == [x |-> x, y |-> y, w |-> w, h |-> h]
Rectangle == [x : Int, y : Int, w : Int, h : Int]
\* None, or the columns and the gap of the grid that a node is an item of.
Inherited == Seq([columns : Seq(Int), gap : Int])

Shown(doc, m) == doc[m].tag # Text /\ doc[m].display # "none"
NodesWhere(doc, Which(_)) == SelectSeq([m \in DOMAIN doc |-> m], Which)
Kids(doc, n) == NodesWhere(doc, LAMBDA m : doc[m].parent = n)
ItemsOf(doc, n) == NodesWhere(doc, LAMBDA m : doc[m].parent = n /\ Shown(doc, m))
Ancestors(doc, n) ==
  LET up[m \in 0..Len(doc)] == IF m = 0 THEN {} ELSE {m} \cup up[doc[m].parent] IN up[n]
Below(doc, n) == {m \in DOMAIN doc : n \in Ancestors(doc, m)}

shift_subtree(doc, boxes, n, dx, dy) ==
  LET moved == Below(doc, n)
  IN Whole([m \in DOMAIN boxes |->
       IF m \in moved THEN [boxes[m] EXCEPT !.x = @ + dx, !.y = @ + dy] ELSE boxes[m]])

\* A length for the border box leaves the edges out of the content.
Content(s, n) == IF s.border_box THEN NonNeg(n - 2 * s.e) ELSE n
Clamped(s, n, least, most) ==
  LET low == IF least # None /\ n < Content(s, least[1]) THEN Content(s, least[1]) ELSE n
  IN IF most # None /\ low > Content(s, most[1]) THEN Content(s, most[1]) ELSE low

Fills(s, cb) == NonNeg(cb.w - 2 * s.m - 2 * s.e)
OfPercent(s, cb) == NonNeg((cb.w * s.width[2]) \div 100 - 2 * s.e)

\* flex.rs, grid.rs: the content width of a container, box-sizing and limits aside.
ContainerWidth(s, cb) ==
  CASE s.width = None -> Fills(s, cb)
    [] s.width # None /\ s.width[1] = "px" -> s.width[2]
    [] OTHER -> OfPercent(s, cb)

\* block.rs: that of a block.
BlockWidth(s, cb) ==
  Clamped(s, CASE s.width = None -> IF s.image # None THEN s.image[1] ELSE Fills(s, cb)
               [] s.width # None /\ s.width[1] = "px" -> Content(s, s.width[2])
               [] OTHER -> OfPercent(s, cb), s.min_w, s.max_w)
BlockHeight(s, flow) ==
  Clamped(s, CASE s.height = None -> IF s.image # None THEN s.image[2] ELSE flow
               [] s.height # None /\ s.height[1] = "px" -> Content(s, s.height[2])
               [] OTHER -> flow, s.min_h, s.max_h)

Inner(s, cb, w) == Rect(cb.x + s.m + s.e, cb.y + s.m + s.e, w, 0)

\* What laying out n returns: the height it takes and the boxes of its subtree.
Nothing == [h |-> 0, boxes |-> <<>>]
Boxed(n, s, cb, w, h, boxes) ==
  [h |-> h + 2 * s.e + 2 * s.m,
   boxes |-> (n :> Rect(cb.x + s.m, cb.y + s.m, w + 2 * s.e, h + 2 * s.e)) @@ boxes]

\* Below, laying[<<m, cb, inherited>>] is what laying out m returns.

----------------------------------------------------------------------------
(* Inline content (block.rs, text.rs). *)

\* Every run of white space is one space, at either end too.
collapse_whitespace(t) ==
  LET Space(i) == i \in DOMAIN t /\ t[i] = " "
  IN SelectSeq([i \in DOMAIN t |-> IF Space(i) /\ Space(i - 1) THEN "" ELSE t[i]],
               LAMBDA c : c # "")

Spanned(content, text, n, element) ==
  [text |-> text, spans |-> Append(content.spans,
     [node |-> n, from |-> Len(content.text) + 1, to |-> Len(text), element |-> element])]

Inlines == [text : Seq(STRING),
            spans : Seq([node : Nat, from : Nat, to : Nat, element : BOOLEAN])]

\* The content with that of n after it.
collect_inline(doc, n, content) ==
  LET Own(c, m, text) == IF doc[m].text = <<>> THEN c ELSE Spanned(c, text, m, FALSE)
      Around(c, m, inner) ==
        IF inner.text = c.text THEN c
        ELSE [Spanned(c, inner.text, m, TRUE) EXCEPT !.spans = Append(inner.spans, Last(@))]
      added[x \in (DOMAIN doc) \X Inlines] ==
        LET m == x[1]  c == x[2] IN
        CASE doc[m].tag = Text -> Own(c, m, c.text \o collapse_whitespace(doc[m].text))
          [] doc[m].tag # Text /\ doc[m].display = "none" -> c
          [] OTHER -> Around(c, m, FoldLeft(LAMBDA d, k : added[<<k, d>>], c, Kids(doc, m)))
  IN added[<<n, content>>]

\* The shaping library: where each glyph goes, a word that does not fit to the next line.
Wrapped(text, width, wraps) ==
  LET Starts(i) == text[i] # " " /\ (i = 1 \/ text[i - 1] = " ")
      WordAt(i) == Cardinality({j \in i..Len(text) : \A k \in i..j : text[k] # " "})
      Breaks(at, i) == wraps /\ Starts(i) /\ at.x > 0 /\ at.x + WordAt(i) * GLYPH > width
  IN FoldLeft(LAMBDA at, i :
                LET p == IF Breaks(at, i) THEN [at EXCEPT !.x = 0, !.line = @ + 1] ELSE at
                IN [p EXCEPT !.x = @ + GLYPH,
                             !.glyphs = Append(@, [at |-> i, x |-> p.x, line |-> p.line])],
              [x |-> 0, line |-> 0, glyphs |-> <<>>], [i \in DOMAIN text |-> i]).glyphs

\* The last line is cut for the ellipsis; its glyph counts as of the start of the text.
Ellipsized(glyphs, line, width) ==
  LET kept == SelectSeq(glyphs, LAMBDA g : \/ g.line < line
                                           \/ g.line = line /\ g.x + GLYPH <= width - GLYPH)
      ends == {g.x + GLYPH : g \in {g \in ToSet(kept) : g.line = line}}
  IN Append(kept, [at |-> 1, x |-> Max(ends \cup {0}), line |-> line])

Shortened(glyphs, last, width, s) ==
  CASE s.ellipsis -> IF Len(glyphs) * GLYPH > width THEN Ellipsized(glyphs, 0, width) ELSE glyphs
    [] ~s.ellipsis /\ s.line_clamp # None /\ last >= s.line_clamp[1] ->
         Ellipsized(glyphs, s.line_clamp[1] - 1, width)
    [] OTHER -> glyphs

shape_inline(text, width, s) ==
  LET Laid(glyphs) == Shortened(glyphs, Max({g.line : g \in ToSet(glyphs)}), width, s)
  IN IF width = 0 THEN <<>> ELSE Laid(Wrapped(text, width, ~s.ellipsis))

\* A span has the box around its glyphs, on however many lines.
SpanBox(span, glyphs, cb) ==
  LET own == {g \in ToSet(glyphs) : g.at \in span.from..span.to}
      xs == {g.x : g \in own}   lines == {g.line : g \in own}
  IN Rect(cb.x + Min(xs), cb.y + Min(lines) * LINE,
          Max(xs) + GLYPH - Min(xs), (Max(lines) + 1 - Min(lines)) * LINE)

Inlined(content, glyphs, cb) ==
  LET HasGlyph(span) == \E g \in ToSet(glyphs) : g.at \in span.from..span.to
      boxed == {span \in ToSet(content.spans) : HasGlyph(span)}
      BoxOf(n) == SpanBox(CHOOSE span \in boxed : span.node = n, glyphs, cb)
  IN IF \A i \in DOMAIN content.text : content.text[i] = " " THEN Nothing
     ELSE [h |-> IF glyphs = <<>> THEN 0 ELSE (Last(glyphs).line + 1) * LINE,
           boxes |-> Whole([n \in {span.node : span \in boxed} |-> BoxOf(n)])]

layout_inline_run(doc, nodes, s, cb) ==
  LET Shaped(content) == Inlined(content, shape_inline(content.text, cb.w, s), cb)
  IN Shaped(FoldLeft(LAMBDA c, m : collect_inline(doc, m, c), [text |-> <<>>, spans |-> <<>>], nodes))

----------------------------------------------------------------------------
(* Blocks (block.rs). *)

classify(doc, m) ==
  LET s == doc[m] IN
  CASE s.tag = Text -> IF s.text = <<>> THEN "skip" ELSE "inline"
    [] s.tag # Text /\ s.display \in {"block", "flex", "grid"} -> "block"
    [] s.tag = "img" /\ s.display = "inline-block" -> "block"
    [] s.tag # Text /\ s.display = "none" -> "skip"
    [] OTHER -> "inline"

\* A block alone, neighbours that are inline together.
group_children(doc, n) ==
  FoldLeft(LAMBDA groups, m :
             CASE classify(doc, m) = "block" -> Append(groups, [inline |-> FALSE, nodes |-> <<m>>])
               [] classify(doc, m) = "skip" -> groups
               [] OTHER ->
                    IF groups # <<>> /\ Last(groups).inline
                    THEN [groups EXCEPT ![Len(groups)].nodes = Append(@, m)]
                    ELSE Append(groups, [inline |-> TRUE, nodes |-> <<m>>]),
           <<>>, Kids(doc, n))

layout_block(doc, n, cb, laying) ==
  LET s == doc[n]
      w == BlockWidth(s, cb)
      inner == Inner(s, cb, w)
      Placed(flow, g) ==
        LET at == [inner EXCEPT !.y = @ + flow.h]
            r == IF g.inline THEN layout_inline_run(doc, g.nodes, s, at)
                 ELSE laying[<<g.nodes[1], at, None>>]
        IN [h |-> flow.h + r.h, boxes |-> r.boxes @@ flow.boxes]
      flow == FoldLeft(Placed, Nothing, group_children(doc, n))
  IN Boxed(n, s, cb, w, BlockHeight(s, flow.h), flow.boxes)

----------------------------------------------------------------------------
(* Flex containers (flex.rs). *)

\* justify_offsets, align_content_offsets: before the first, and between two.
Offsets(value, free, count) ==
  CASE value = "end" -> <<free, 0>>
    [] value = "center" -> <<free \div 2, 0>>
    [] value = "between" -> <<0, IF count > 1 THEN free \div (count - 1) ELSE 0>>
    [] value = "around" -> <<free \div (2 * count), free \div count>>
    [] value = "evenly" -> <<free \div (count + 1), free \div (count + 1)>>
    [] OTHER -> <<0, 0>>

\* An item as it would be alone: its size along the line and across.
measure_item(doc, m, w, row, laying) ==
  LET s == doc[m]
      measured == laying[<<m, Rect(0, 0, w, 0), None>>].boxes
      box == measured[m]
      Length(d) == IF d[1] = "px" THEN d[2] ELSE (w * d[2]) \div 100
      own == IF row THEN s.width ELSE s.height
  IN [node |-> m, boxes |-> measured, cross |-> IF row THEN box.h ELSE box.w,
      base |-> CASE s.basis # None -> Length(s.basis)
                 [] s.basis = None /\ own # None -> Length(own)
                 [] OTHER -> IF s.grow > 0 THEN 0 ELSE IF row THEN box.w ELSE box.h]

\* Items go to the next line when they no longer fit.
pack_lines(items, size, gap, wraps) ==
  LET Used(line) == Total(LAMBDA i : items[i].base + gap, ToSet(line))
  IN IF ~wraps THEN <<[i \in DOMAIN items |-> i]>>
     ELSE FoldLeft(LAMBDA lines, i :
                     IF lines = <<>> \/ Used(Last(lines)) + items[i].base > size
                     THEN Append(lines, <<i>>)
                     ELSE [lines EXCEPT ![Len(lines)] = Append(@, i)],
                   <<>>, [i \in DOMAIN items |-> i])

\* What is left over goes to the items that grow; what is missing comes from those that shrink.
MainSizes(doc, items, line, target, gap, wraps) ==
  LET on == ToSet(line)
      extra == target - Total(LAMBDA i : items[i].base, on) - gap * (Len(line) - 1)
      Grow(i) == doc[items[i].node].grow
      Shrink(i) == items[i].base * doc[items[i].node].shrink
      grows == Total(Grow, on)   shrinks == Total(Shrink, on)
  IN Whole([i \in on |->
        CASE extra > 0 /\ grows > 0 -> items[i].base + (extra * Grow(i)) \div grows
          [] extra < 0 /\ ~wraps /\ shrinks > 0 ->
               NonNeg(items[i].base * shrinks + extra * Shrink(i)) \div shrinks
          [] OTHER -> items[i].base])

\* The height of the lines, and what is before the first and between two.
LinesAcross(s, row, items, lines) ==
  LET natural == Whole([l \in DOMAIN lines |-> Max({items[i].cross : i \in ToSet(lines[l])})])
      gaps == (IF row THEN s.row_gap ELSE s.col_gap) * (Len(lines) - 1)
      given == IF row THEN s.height ELSE s.width
      spare == IF given # None /\ given[1] = "px"
               THEN NonNeg(given[2] - gaps - Total(LAMBDA l : natural[l], DOMAIN lines)) ELSE 0
      stretch == s.align_content = "stretch"
  IN [cross |-> Whole([l \in DOMAIN lines |->
                   natural[l] + IF stretch THEN spare \div Len(lines) ELSE 0]),
      apart |-> Offsets(s.align_content, IF stretch THEN 0 ELSE spare, Len(lines))]

\* The sizes of a line's items, and what is before the first and between two.
LineAlong(doc, s, row, items, line, w, gap) ==
  LET gaps == gap * (Len(line) - 1)
      target == IF row THEN w ELSE gaps + Total(LAMBDA i : items[i].base, ToSet(line))
      Spread(size) ==
        [size |-> size, used |-> gaps + Total(LAMBDA i : size[i], ToSet(line)),
         apart |-> Offsets(s.justify, NonNeg(target - gaps - Total(LAMBDA i : size[i], ToSet(line))),
                           Len(line))]
  IN Spread(MainSizes(doc, items, line, target, gap, s.wrap))

\* The items where their lines put them; what the second pass does not lay out stays as
\* it was measured.
FlexPlaced(doc, n, cb, w, items, lines, across, along, laying) ==
  LET s == doc[n]
      row == s.direction = "row"
      inner == Inner(s, cb, w)
      main_gap == IF row THEN s.col_gap ELSE s.row_gap
      cross_gap == IF row THEN s.row_gap ELSE s.col_gap
      MainAt(l, k) == along[l].apart[1]
        + Total(LAMBDA j : along[l].size[lines[l][j]] + main_gap + along[l].apart[2], 1..(k - 1))
      CrossAt(l) == across.apart[1]
        + Total(LAMBDA j : across.cross[j] + cross_gap + across.apart[2], 1..(l - 1))
      Stretched(r, m, i, cross) ==
        IF row /\ s.align_items = "stretch" /\ cross > r.h
        THEN [(r.boxes @@ items[i].boxes) EXCEPT ![m].h = cross - 2 * doc[m].m]
        ELSE r.boxes @@ items[i].boxes
      At(m, main, off, size, own) ==
        laying[<<m, IF row THEN Rect(inner.x + main, inner.y + off, size, 0)
               ELSE Rect(inner.x + off, inner.y + main, own, 0), None>>]
      Item(l, k) ==
        LET i == lines[l][k]
            own == IF s.align_items = "stretch" THEN across.cross[l] ELSE items[i].cross
            off == CrossAt(l) + CASE s.align_items = "end" -> across.cross[l] - own
                                  [] s.align_items = "center" -> (across.cross[l] - own) \div 2
                                  [] OTHER -> 0
        IN Stretched(At(items[i].node, MainAt(l, k), off, along[l].size[i], own),
                     items[i].node, i, across.cross[l])
      slots == {x \in (DOMAIN lines) \X (DOMAIN items) : x[2] <= Len(lines[x[1]])}
      taken == IF row THEN CrossAt(Len(lines) + 1) - across.apart[1] - cross_gap
               ELSE Total(LAMBDA l : along[l].used, DOMAIN lines) + cross_gap * (Len(lines) - 1)
  IN Boxed(n, s, cb, w,
           IF s.height # None /\ s.height[1] = "px" THEN s.height[2] ELSE NonNeg(taken),
           FoldSet(LAMBDA slot, boxes : Item(slot[1], slot[2]) @@ boxes, <<>>, slots))

layout_flex(doc, n, cb, laying) ==
  LET s == doc[n]
      row == s.direction = "row"
      w == ContainerWidth(s, cb)
      gap == IF row THEN s.col_gap ELSE s.row_gap
      nodes == SortSeq(ItemsOf(doc, n), LAMBDA a, b : \/ doc[a].order < doc[b].order
                                                      \/ doc[a].order = doc[b].order /\ a < b)
      Lined(items, lines) ==
        FlexPlaced(doc, n, cb, w, items, lines, LinesAcross(s, row, items, lines),
                   Whole([l \in DOMAIN lines |->
                      LineAlong(doc, s, row, items, lines[l], w, gap)]), laying)
      Measured(items) == Lined(items, pack_lines(items, w, gap, s.wrap /\ row))
  IN IF nodes = <<>> THEN Boxed(n, s, cb, w, 0, <<>>)
     ELSE Measured(Whole([i \in DOMAIN nodes |-> measure_item(doc, nodes[i], w, row, laying)]))

----------------------------------------------------------------------------
(* Grids (grid.rs).  Rows and columns count from 0; a grid line is None, or
   <<"line", k>>, <<"name", area>>, <<"span", k>>. *)

IsA(line, what) == line # None /\ line[1] = what
SpanOf(line, else) == IF IsA(line, "span") THEN Max({line[2], 1}) ELSE else

\* build_area_map: an area reaches from its first row and column to its last.
build_area_map(areas) ==
  LET cells == {x \in UNION {{r} \X DOMAIN areas[r] : r \in DOMAIN areas} : areas[x[1]][x[2]] # "."}
      At(name, k) == {cell[k] - 1 : cell \in {x \in cells : areas[x[1]][x[2]] = name}}
  IN Whole([name \in {areas[x[1]][x[2]] : x \in cells} |->
        [r0 |-> Min(At(name, 1)), c0 |-> Min(At(name, 2)),
         r1 |-> Max(At(name, 1)), c1 |-> Max(At(name, 2))]])

explicit(p, map) ==
  IF p.area # "" THEN p.area \in DOMAIN map
  ELSE \E line \in {p.col[1], p.row[1]} : IsA(line, "line") \/ IsA(line, "name")

\* The track a line is before, and the tracks between two.
LineStart(line, map, edge) ==
  CASE IsA(line, "line") -> NonNeg(line[2] - 1)
    [] IsA(line, "name") -> IF line[2] \in DOMAIN map THEN map[line[2]][edge] ELSE 0
    [] OTHER -> 0
LineSpan(pair) ==
  IF IsA(pair[1], "line") /\ IsA(pair[2], "line") THEN Max({pair[2][2] - pair[1][2], 1})
  ELSE SpanOf(pair[2], 1)

resolve_explicit(p, map, num_cols) ==
  IF p.area # "" THEN
    LET a == map[p.area]
    IN [row |-> a.r0, col |-> a.c0, rows |-> a.r1 + 1 - a.r0, cols |-> a.c1 + 1 - a.c0]
  ELSE LET col == Min({LineStart(p.col[1], map, "c0"), num_cols - 1}) IN
       [row |-> LineStart(p.row[1], map, "r0"), col |-> col,
        rows |-> LineSpan(p.row), cols |-> Min({LineSpan(p.col), num_cols - col})]

max_explicit_column(p, map) ==
  IF p.area # "" THEN IF p.area \in DOMAIN map THEN map[p.area].c1 ELSE 0
  ELSE LineStart(p.col[1], map, "c0") + LineSpan(p.col) - 1

CellsOf(p) == (p.row..(p.row + p.rows - 1)) \X (p.col..(p.col + p.cols - 1))

\* From the start on, row by row, the first place of its size that is free.
find_free_cell(occupied, start, cols, rows, num_cols) ==
  LET last == Max({start[1]} \cup {cell[1] + 1 : cell \in occupied})
      Free(r, c) == CellsOf([row |-> r, col |-> c, rows |-> rows, cols |-> cols]) \cap occupied = {}
      free == {x \in (start[1]..(last + 1)) \X (0..(num_cols - cols)) :
                 (x[1] = start[1] => x[2] >= start[2]) /\ Free(x[1], x[2])}
      r == Min({x[1] : x \in free})
  IN <<r, Min({x[2] : x \in {x \in free : x[1] = r}})>>

\* The items with a place of their own first, the others around them in order.
resolve_placements(doc, items, num_cols, map, dense) ==
  LET Own(i) == explicit(doc[items[i]].place, map)
      fixed == Whole([i \in {i \in DOMAIN items : Own(i)} |->
                  resolve_explicit(doc[items[i]].place, map, num_cols)])
      Auto(acc, i) ==
        LET p == doc[items[i]].place
            cols == Min({SpanOf(p.col[2], SpanOf(p.col[1], 1)), num_cols})
            rows == SpanOf(p.row[2], SpanOf(p.row[1], 1))
            at == find_free_cell(acc.occupied, IF dense THEN <<0, 0>> ELSE acc.cursor,
                                 cols, rows, num_cols)
            place == [row |-> at[1], col |-> at[2], rows |-> rows, cols |-> cols]
        IN [placed |-> (i :> place) @@ acc.placed, occupied |-> acc.occupied \cup CellsOf(place),
            cursor |-> IF at[2] + cols >= num_cols THEN <<at[1] + 1, 0>> ELSE <<at[1], at[2] + cols>>]
  IN FoldLeft(Auto, [placed |-> fixed, cursor |-> <<0, 0>>,
                     occupied |-> UNION {CellsOf(fixed[i]) : i \in DOMAIN fixed}],
              SelectSeq([i \in DOMAIN items |-> i], LAMBDA i : ~Own(i))).placed

resolve_single_track(t, usable) ==
  CASE t[1] = "px" -> t[2]
    [] t[1] = "%" -> (usable * t[2]) \div 100
    [] OTHER -> 0
\* The share of the space that is left: fr, 1 for auto, the fr of a minmax.
Flexes(t) == CASE t[1] = "fr" -> t[2] [] t[1] = "auto" -> 1
               [] t[1] = "minmax" /\ t[3][1] = "fr" -> t[3][2] [] OTHER -> 0
resolve_tracks(tracks, available, gap) ==
  LET usable == NonNeg(available - gap * (Len(tracks) - 1))
      Base(i) == resolve_single_track(IF tracks[i][1] = "minmax" THEN tracks[i][2] ELSE tracks[i], usable)
      shares == Total(LAMBDA i : Flexes(tracks[i]), DOMAIN tracks)
      left == NonNeg(usable - Total(Base, DOMAIN tracks))
  IN Whole([i \in DOMAIN tracks |->
        IF Flexes(tracks[i]) = 0 THEN Base(i)
        ELSE Max({(left * Flexes(tracks[i])) \div shares, Base(i)})])

\* The rows p spans.
Down(heights, p, gap) ==
  Total(LAMBDA r : heights[r], p.row..(p.row + p.rows - 1)) + gap * (p.rows - 1)

\* The columns of the grid, those of the grid it is an item of (inherited) for a subgrid.
GridColumns(doc, s, items, map, w, sub, inherited) ==
  LET template == IF sub THEN inherited[1].columns ELSE s.columns
      num_cols == Max({1, Len(template)} \cup {Len(s.areas[r]) : r \in DOMAIN s.areas}
                      \cup {max_explicit_column(doc[m].place, map) + 1 : m \in ToSet(items)})
      more == [c \in 1..(num_cols - Len(template)) |-> s.auto_columns]
  IN IF sub THEN template \o [c \in DOMAIN more |-> resolve_single_track(more[c], 0)]
     ELSE resolve_tracks(template \o more, w, s.col_gap)

\* The height of each row; an item over several stretches the last of them.
GridRows(s, placed, laid) ==
  LET rows == 0..(Max({placed[i].row + placed[i].rows : i \in DOMAIN placed}) - 1)
      Of(r) == {i \in DOMAIN placed : placed[i].rows = 1 /\ placed[i].row = r}
      Grown(heights, i) ==
        [heights EXCEPT ![placed[i].row + placed[i].rows - 1] =
           @ + NonNeg(laid[i].h - Down(heights, placed[i], s.row_gap))]
  IN FoldLeft(Grown, Whole([r \in rows |-> Max({0} \cup {laid[i].h : i \in Of(r)})]),
              SelectSeq([i \in DOMAIN laid |-> i], LAMBDA i : placed[i].rows > 1))

\* The items moved down to their rows, aligned in their cells.
GridStacked(doc, n, cb, w, items, placed, across, laid, heights) ==
  LET s == doc[n]
      YOf(p) == cb.y + s.m + s.e + Total(LAMBDA r : heights[r] + s.row_gap, 0..(p.row - 1))
      Off(how, room) ==
        CASE how = "end" -> NonNeg(room) [] how = "center" -> NonNeg(room) \div 2 [] OTHER -> 0
      Aligned(m, boxes, y, wide, down) ==
        LET justify == IF doc[m].justify_self = "" THEN s.justify_items ELSE doc[m].justify_self
            align == IF doc[m].align_self = "" THEN s.align_items ELSE doc[m].align_self
            moved == shift_subtree(doc, boxes, m, Off(justify, wide - boxes[m].w),
                                   y - boxes[m].y + Off(align, down - boxes[m].h))
        IN [moved EXCEPT ![m].w = IF justify = "stretch" THEN Max({@, wide}) ELSE @,
                         ![m].h = IF align = "stretch" THEN Max({@, down}) ELSE @]
      Item(i) == Aligned(items[i], laid[i].boxes, YOf(placed[i]), across[i],
                         Down(heights, placed[i], s.row_gap))
      tall == Total(LAMBDA r : heights[r], DOMAIN heights) + s.row_gap * (Cardinality(DOMAIN heights) - 1)
  IN Boxed(n, s, cb, w, IF s.height # None /\ s.height[1] = "px" THEN s.height[2] ELSE tall,
           FoldSet(LAMBDA i, boxes : Item(i) @@ boxes, <<>>, DOMAIN items))

\* The items laid out in their columns.
GridPlaced(doc, n, cb, w, gap, items, widths, placed, laying) ==
  LET s == doc[n]
      Across(p) == Total(LAMBDA c : widths[c + 1], p.col..(p.col + p.cols - 1)) + gap * (p.cols - 1)
      XOf(p) == cb.x + s.m + s.e + Total(LAMBDA c : widths[c + 1] + gap, 0..(p.col - 1))
      Laid(i, p) ==
        laying[<<items[i], Rect(XOf(p), 0, Across(p), 0),
            <<[columns |-> SubSeq(widths, p.col + 1, p.col + p.cols), gap |-> gap]>> >>]
      Stacked(across, laid) ==
        GridStacked(doc, n, cb, w, items, placed, across, laid, GridRows(s, placed, laid))
  IN Stacked([i \in DOMAIN items |-> Across(placed[i])],
             Whole([i \in DOMAIN items |-> Laid(i, placed[i])]))

layout_grid(doc, n, cb, inherited, laying) ==
  LET s == doc[n]
      sub == s.subgrid /\ inherited # None
      w == ContainerWidth(s, cb)
      items == ItemsOf(doc, n)
      Columned(map, widths) ==
        GridPlaced(doc, n, cb, w, IF sub THEN inherited[1].gap ELSE s.col_gap, items, widths,
                   resolve_placements(doc, items, Len(widths), map, s.dense), laying)
      Mapped(map) == Columned(map, GridColumns(doc, s, items, map, w, sub, inherited))
  IN IF items = <<>> THEN Boxed(n, s, cb, w, 0, <<>>) ELSE Mapped(build_area_map(s.areas))

----------------------------------------------------------------------------
(* Tables (table.rs). *)

walk_rows(doc, n) ==
  LET rows[p \in DOMAIN doc] ==
        FlattenSeq([i \in DOMAIN Kids(doc, p) |->
          LET m == Kids(doc, p)[i] IN
          CASE doc[m].tag = "tr" -> <<m>>
            [] doc[m].tag \in {"thead", "tbody", "tfoot"} -> rows[m]
            [] OTHER -> <<>>])
  IN rows[n]
find_cells(doc, n) == SelectSeq(Kids(doc, n), LAMBDA m : doc[m].tag \in {"td", "th"})
find_caption(doc, n) == SelectSeq(Kids(doc, n), LAMBDA m : doc[m].tag = "caption")
\* col and colgroup elements, one hint for each column they span.
collect_col_widths(doc, n) ==
  FlattenSeq([i \in DOMAIN Kids(doc, n) |->
    LET m == Kids(doc, n)[i] IN
    IF doc[m].tag = "col" THEN [c \in 1..doc[m].span |-> doc[m].hint] ELSE <<>>])

\* Each cell takes the first column that no cell from an earlier row reaches into.
skip_occupied(remaining, from) ==
  Min({c \in from..(from + Len(remaining) + 1) : c >= Len(remaining) \/ remaining[c + 1] = 0})
build_grid(doc, rows) ==
  LET Cell(r, acc, m) ==
        LET long == Max({Len(acc.remaining), acc.col + doc[m].colspan})
            over == acc.col..(acc.col + doc[m].colspan - 1)
            remaining == Whole([c \in 1..long |->
                            IF c - 1 \in over THEN doc[m].rowspan
                            ELSE IF c <= Len(acc.remaining) THEN acc.remaining[c] ELSE 0])
        IN [acc EXCEPT !.remaining = remaining,
                       !.col = skip_occupied(remaining, @ + doc[m].colspan),
                       !.placed = Append(@, [node |-> m, row |-> r, col |-> acc.col,
                                             cols |-> doc[m].colspan, rows |-> doc[m].rowspan])]
      Row(acc, r) ==
        LET left == Whole([c \in DOMAIN acc.remaining |-> IF r > 1 THEN NonNeg(acc.remaining[c] - 1) ELSE 0])
            done == FoldLeft(LAMBDA a, m : Cell(r, a, m),
                             [acc EXCEPT !.remaining = left, !.col = skip_occupied(left, 0)],
                             find_cells(doc, rows[r]))
        IN [done EXCEPT !.columns = Max({@, done.col})]
  IN FoldLeft(Row, [placed |-> <<>>, remaining |-> <<>>, col |-> 0, columns |-> 0],
              [r \in DOMAIN rows |-> r])

\* The width of all its text on one line.
collect_cell_text(doc, n) ==
  LET glyphs[m \in DOMAIN doc] ==
        IF doc[m].tag = Text THEN Cardinality({i \in DOMAIN doc[m].text : doc[m].text[i] # " "})
        ELSE Total(LAMBDA k : glyphs[k], ToSet(Kids(doc, m)))
  IN glyphs[n]
measure_cell_natural_width(doc, m) == GLYPH * collect_cell_text(doc, m)

\* By hints and contents, or by hints alone, then scaled to the width there is.
compute_column_widths(doc, placed, columns, usable, fixed, hints) ==
  LET hinted == Whole([c \in 1..columns |-> IF c <= Len(hints) /\ hints[c] # None THEN hints[c][1] ELSE 0])
      Sum(w, S) == Total(LAMBDA c : w[c], S)
      Widened(w, cell) ==
        LET own == (cell.col + 1)..(cell.col + cell.cols)
            more == NonNeg(measure_cell_natural_width(doc, cell.node) - Sum(w, own)) \div cell.cols
        IN [c \in DOMAIN w |-> IF c \in own THEN w[c] + more ELSE w[c]]
      bare == {c \in 1..columns : hinted[c] = 0}
      share == NonNeg(usable - Sum(hinted, 1..columns)) \div Cardinality(bare)
      asked == IF ~fixed THEN FoldLeft(Widened, hinted, placed)
               ELSE [c \in 1..columns |-> IF c \in bare THEN share ELSE hinted[c]]
      all == Sum(asked, 1..columns)
  IN Whole([c \in 1..columns |-> IF all = 0 THEN usable \div columns ELSE (asked[c] * usable) \div all])

\* The height of each row: of its cells, the last row of a cell over several made to hold it.
Reach(cell, rows) == cell.row..Min({cell.row + cell.rows - 1, Len(rows)})
CellHeight(heights, cell, rows, bv) ==
  Total(LAMBDA r : heights[r], Reach(cell, rows)) + bv * (cell.rows - 1)
RowHeights(placed, laid, rows, bv) ==
  LET OfRow(r) == {i \in DOMAIN laid : placed[i].row = r /\ placed[i].rows = 1}
      single == Whole([r \in DOMAIN rows |-> Max({0} \cup {laid[i].h : i \in OfRow(r)})])
      Grown(heights, i) ==
        LET missing == NonNeg(laid[i].h - CellHeight(heights, placed[i], rows, bv))
        IN [heights EXCEPT ![Max(Reach(placed[i], rows))] = @ + missing]
  IN FoldLeft(Grown, single, SelectSeq([i \in DOMAIN laid |-> i], LAMBDA i : placed[i].rows > 1))

\* The cells moved down to their rows, under the caption.
TableStacked(doc, n, cb, w, rows, grid, head, laid, heights) ==
  LET s == doc[n]
      bv == s.row_gap
      YOf(cell) == cb.y + s.m + s.e + head.h + bv
                     + Total(LAMBDA r : heights[r] + bv, 1..(cell.row - 1))
      Cell(cell, boxes) ==
        [shift_subtree(doc, boxes, cell.node, 0, YOf(cell))
           EXCEPT ![cell.node].h = CellHeight(heights, cell, rows, bv)]
      caption == {head.boxes[m].h : m \in ToSet(find_caption(doc, n)) \cap DOMAIN head.boxes}
  IN Boxed(n, s, cb, w, Max({0} \cup caption) + bv + Total(LAMBDA r : heights[r] + bv, DOMAIN rows),
           FoldSet(LAMBDA i, boxes : Cell(grid.placed[i], laid[i].boxes) @@ boxes, head.boxes,
                   DOMAIN laid))

\* The cells laid out in their columns, border-spacing apart.
TablePlaced(doc, n, cb, w, rows, grid, head, widths, laying) ==
  LET bh == doc[n].col_gap
      XOf(cell) == cb.x + doc[n].m + doc[n].e + bh
                     + Total(LAMBDA c : widths[c + 1] + bh, 0..(cell.col - 1))
      Across(cell) == bh * (cell.cols - 1)
                        + Total(LAMBDA c : widths[c + 1], cell.col..(cell.col + cell.cols - 1))
      Laid(cell) == laying[<<cell.node, Rect(XOf(cell), 0, Across(cell), 0), None>>]
      Stacked(laid) ==
        TableStacked(doc, n, cb, w, rows, grid, head, laid,
                     RowHeights(grid.placed, laid, rows, doc[n].row_gap))
  IN Stacked(Whole([i \in DOMAIN grid.placed |-> Laid(grid.placed[i])]))

layout_table(doc, n, cb, laying) ==
  LET s == doc[n]
      w == Fills(s, cb)
      captions == find_caption(doc, n)
      head == IF captions = <<>> THEN Nothing ELSE laying[<<captions[1], Inner(s, cb, w), None>>]
      Built(rows, grid) ==
        IF rows = <<>> \/ grid.columns = 0 THEN Boxed(n, s, cb, w, head.h, head.boxes)
        ELSE TablePlaced(doc, n, cb, w, rows, grid, head,
               compute_column_widths(doc, grid.placed, grid.columns,
                 NonNeg(w - s.col_gap * (grid.columns + 1)), s.fixed, collect_col_widths(doc, n)), laying)
      Rowed(rows) == Built(rows, build_grid(doc, rows))
  IN Rowed(walk_rows(doc, n))

----------------------------------------------------------------------------
(* Positioned boxes, and the whole pass (block.rs, mod.rs). *)

\* At its offsets from the edges of the box it is in.
layout_positioned(doc, n, cb, boxes) ==
  LET s == doc[n]
      box == boxes[n]
      left == CASE s.left # None -> cb.x + s.left[1]
                [] s.left = None /\ s.right # None -> cb.x + cb.w - box.w - s.right[1]
                [] OTHER -> box.x
      top == CASE s.top # None -> cb.y + s.top[1]
               [] s.top = None /\ s.bottom # None /\ cb.h > 0 -> cb.y + cb.h - box.h - s.bottom[1]
               [] OTHER -> box.y
  IN shift_subtree(doc, boxes, n, left - box.x, top - box.y)

\* The box alone is moved, what is in it stays.
apply_relative_offset(boxes, n, s) ==
  LET By(start, end) == IF start # None THEN start[1] ELSE IF end # None THEN -end[1] ELSE 0
  IN [boxes EXCEPT ![n].x = @ + By(s.left, s.right), ![n].y = @ + By(s.top, s.bottom)]

\* An absolute table is laid out as a block.
InFlow(doc, n, cb, inherited, laying) ==
  LET s == doc[n] IN
  CASE s.display = "flex" -> layout_flex(doc, n, cb, laying)
    [] s.display = "grid" -> layout_grid(doc, n, cb, inherited, laying)
    [] s.display \notin {"flex", "grid"} /\ s.tag = "table" /\ s.position # "absolute" ->
         layout_table(doc, n, cb, laying)
    [] OTHER -> layout_block(doc, n, cb, laying)

\* The document laid out from its root.
layout(doc, root, viewport) ==
  LET Positioned(n, cb, r) ==
        CASE doc[n].position = "absolute" ->
               [h |-> 0, boxes |-> layout_positioned(doc, n, cb, r.boxes)]
          [] doc[n].position = "relative" ->
               [r EXCEPT !.boxes = apply_relative_offset(@, n, doc[n])]
          [] OTHER -> r
      laid[x \in (DOMAIN doc) \X Rectangle \X Inherited] ==
        LET n == x[1]  cb == x[2] IN
        IF ~Shown(doc, n) THEN Nothing
        ELSE Positioned(n, cb, InFlow(doc, n, cb, x[3], laid))
  IN laid[<<root, viewport, None>>]

\* apply_anchor_positioning: one node moved to the anchors of its sides, where they were.
Anchored(doc, boxes) ==
  LET Named(name) == {m \in DOMAIN boxes : doc[m].anchor_name = name}
      AnchorBox(side) == boxes[Min(Named(side.name))]
      Found(side) == side # None /\ Named(side[1].name) # {}
      Edge(side, at, size) ==
        LET a == AnchorBox(side[1])
        IN a[at] + CASE side[1].edge = "end" -> a[size] [] side[1].edge = "center" -> a[size] \div 2
                     [] OTHER -> 0
      To(bs, start, end, n, at, size) ==
        CASE start # None -> IF Found(start) THEN Edge(start, at, size) ELSE bs[n][at]
          [] start = None /\ Found(end) -> Edge(end, at, size) - bs[n][size]
          [] OTHER -> bs[n][at]
      Move(bs, n) ==
        shift_subtree(doc, bs, n,
          To(bs, doc[n].anchor_left, doc[n].anchor_right, n, "x", "w") - bs[n].x,
          To(bs, doc[n].anchor_top, doc[n].anchor_bottom, n, "y", "h") - bs[n].y)
  IN FoldLeft(Move, boxes,
              NodesWhere(doc, LAMBDA n : n \in DOMAIN boxes /\ doc[n].position = "absolute"))

\* hit_test: the last node in document order whose box the point is in.
hit_test(boxes, x, y) ==
  Max({0} \cup {n \in DOMAIN boxes : /\ x >= boxes[n].x /\ x < boxes[n].x + boxes[n].w
                                     /\ y >= boxes[n].y /\ y < boxes[n].y + boxes[n].h})

Init == \E pages \in LaidPages : \E doc \in pages : lay = [doc |-> doc, at |-> "boxes", boxes |-> <<>>]

\* block::layout from the root.
LayOut ==
  /\ lay.at = "boxes"
  /\ lay' = [lay EXCEPT !.at = "anchors",
               !.boxes = layout(lay.doc, 1, Rect(0, 0, ViewportWidth, 0)).boxes]

ApplyAnchors ==
  /\ lay.at = "anchors"
  /\ lay' = [lay EXCEPT !.at = "done", !.boxes = Anchored(lay.doc, @)]

Next == LayOut \/ ApplyAnchors
Spec == Init /\ [][Next]_lay

----------------------------------------------------------------------------
TypeOK ==
  /\ lay.at \in {"boxes", "anchors", "done"}
  /\ DOMAIN lay.boxes \subseteq DOMAIN lay.doc
  /\ \A n \in DOMAIN lay.boxes : lay.boxes[n].w >= 0 /\ lay.boxes[n].h >= 0

Flows(n) == \A a \in Ancestors(lay.doc, n) : lay.doc[a].position = "static"
Right(b) == b.x + b.w
Bottom(b) == b.y + b.h
Area(b) == b.w > 0 /\ b.h > 0
Block(n) == Flows(n) /\ lay.doc[n].tag # Text /\ lay.doc[n].display # "inline"
Overlap(a, b) ==
  /\ Area(a) /\ Area(b)
  /\ a.x < Right(b) /\ b.x < Right(a) /\ a.y < Bottom(b) /\ b.y < Bottom(a)
\* The content of n that is in the flow, and not of a box with a height of its own.
Inside(n) ==
  {m \in DOMAIN lay.boxes :
     /\ m # n /\ n \in Ancestors(lay.doc, m) /\ Flows(m)
     /\ \A a \in Ancestors(lay.doc, m) \ (Ancestors(lay.doc, n) \cup {m}) : lay.doc[a].height = None}

\* A box that takes its height from its content reaches below all of it (block.rs
\* 270-294, flex.rs 263-279, grid.rs 329-337, table.rs 213-217: each adds it up on its own).
ReachesContent ==
  \A n \in DOMAIN lay.boxes :
    Flows(n) /\ lay.doc[n].tag # Text /\ lay.doc[n].height = None =>
      \A m \in Inside(n) : Bottom(lay.boxes[m]) <= Bottom(lay.boxes[n])

\* Blocks in the flow, neither in the other, do not overlap.
BoxesApart ==
  LET blocks == {n \in DOMAIN lay.boxes : Block(n)} IN
  \A n \in blocks : \A m \in {m \in blocks : m > n} :
    n \notin Ancestors(lay.doc, m) => ~Overlap(lay.boxes[n], lay.boxes[m])

\* A point of a block in the flow hits the block, what is in it, or what is positioned over it.
HitReaches ==
  \A n \in DOMAIN lay.boxes :
    Block(n) /\ Area(lay.boxes[n]) =>
      LET hit == hit_test(lay.boxes, lay.boxes[n].x, lay.boxes[n].y)
      IN n \in Ancestors(lay.doc, hit) \/ ~Flows(hit)

Items(n) == {m \in DOMAIN lay.boxes : lay.doc[m].parent = n}
InnerRight(n) == Right(lay.boxes[n]) - lay.doc[n].e

\* A line with items that grow is filled to its end, but for the fractions that whole
\* numbers drop, and a line whose items shrink does not run over it.
LinesFilled ==
  \A n \in DOMAIN lay.boxes :
    /\ lay.doc[n].display = "flex" /\ lay.doc[n].direction = "row" /\ Items(n) # {}
    => LET last == Max({Right(lay.boxes[m]) : m \in Items(n)})
       IN /\ ~lay.doc[n].wrap /\ (\A m \in Items(n) : lay.doc[m].shrink > 0) => last <= InnerRight(n)
          /\ (\A m \in Items(n) : lay.doc[m].grow > 0)
             => InnerRight(n) - last \in 0..Cardinality(Items(n))

\* Items that the grid places, each at the start of its cell, come in their order, row by row.
GridInOrder ==
  \A n, m \in DOMAIN lay.boxes :
    LET g == lay.doc[n].parent IN
    /\ n < m /\ g > 0 /\ lay.doc[m].parent = g
    /\ lay.doc[g].display = "grid" /\ ~lay.doc[g].dense /\ lay.doc[g].align_items = "start"
    /\ Area(lay.boxes[n]) /\ Area(lay.boxes[m])
    /\ \A k \in {n, m} : ~explicit(lay.doc[k].place, build_area_map(lay.doc[g].areas))
    => \/ lay.boxes[n].y < lay.boxes[m].y
       \/ lay.boxes[n].y = lay.boxes[m].y /\ Right(lay.boxes[n]) <= lay.boxes[m].x

\* The cells of a table reach to its end, but for such fractions, whatever they hold.
TableFilled ==
  \A n \in DOMAIN lay.boxes :
    LET cells == {m \in DOMAIN lay.boxes : lay.doc[m].tag \in {"td", "th"} /\ n \in Ancestors(lay.doc, m)}
    IN lay.doc[n].tag = "table" /\ cells # {} =>
         InnerRight(n) - lay.doc[n].col_gap - Max({Right(lay.boxes[m]) : m \in cells})
           \in 0..Cardinality(cells)

\* A box with an anchor in the flow is where the anchor is.
AnchorsHeld ==
  lay.at = "done" =>
    \A n \in DOMAIN lay.boxes :
      \A left \in ToSet(lay.doc[n].anchor_left) : \A top \in ToSet(lay.doc[n].anchor_top) :
        LET At(name) == {m \in DOMAIN lay.boxes : lay.doc[m].anchor_name = name} IN
        At(left.name) # {} /\ left.name = top.name /\ left.edge = "end" /\ top.edge = "start" =>
          LET a == lay.boxes[Min(At(left.name))]
          IN Flows(Min(At(left.name))) => lay.boxes[n].x = Right(a) /\ lay.boxes[n].y = a.y

LaidOutWhole ==
  /\ ReachesContent /\ BoxesApart /\ HitReaches
  /\ LinesFilled /\ GridInOrder /\ TableFilled /\ AnchorsHeld

==============================================================================
