-------------------------------- MODULE Cascade --------------------------------
(***************************************************************************)
(* The cascade (src/src/css/cascade.rs, src/src/css/mod.rs): which         *)
(* selectors match a node, in which order the declarations of the matching *)
(* rules apply to it, and what it inherits.  compute_recursive visits the  *)
(* nodes of a document in document order, one step each.                   *)
(*                                                                         *)
(* A declaration writes the longhands of its property, of which a run      *)
(* follows a few, each with a number: a colour, a length, a keyword or what*)
(* else it takes.  There is one custom property, "--x".  Lists of values   *)
(* and how their text is read are not modelled.                            *)
(***************************************************************************)
EXTENDS Integers, SequencesExt, FiniteSetsExt

CONSTANTS
  Longhand,   \* the longhands followed
  Pages,      \* [doc, sheets], doc the nodes in document order: [parent, tag, class, style,
              \* dir], sheets a sequence of [rules, media, scope, is_ua]
  Viewports,  \* names of viewports
  Hovers      \* sets of nodes: the chains under the pointer

NoNode == 0
NoValue == 0
AnyTag == ""
Text == "#text"
ShadowRoot == "__shadow_root__"
NoPseudo == ""

\* Directions and alignments as numbers: what is initial is NoValue.
Ltr == NoValue
Rtl == 1
Left == NoValue
Right == 2

VARIABLE cascade
(* cascade.doc, .sheets, .hover: what is styled; cascade.styles: those computed so far. *)

----------------------------------------------------------------------------
(* The tree. *)

Node(doc) == DOMAIN doc
Ancestors(doc, n) ==
  LET up[m \in Node(doc)] ==
        IF doc[m].parent = NoNode THEN {} ELSE {doc[m].parent} \cup up[doc[m].parent]
  IN up[n]
Siblings(doc, n) == {m \in Node(doc) : doc[m].parent = doc[n].parent}
prev_siblings(doc, n) == {m \in Siblings(doc, n) : m < n}
next_siblings(doc, n) == {m \in Siblings(doc, n) : m > n}
prev_sibling(doc, n) == IF prev_siblings(doc, n) = {} THEN NoNode ELSE Max(prev_siblings(doc, n))
Element(doc) == {n \in Node(doc) : doc[n].parent # NoNode /\ doc[n].tag # Text}
Children(doc, n) == {m \in Node(doc) : doc[m].parent = n}

\* shadow_root_of: the nearest above, or the node itself when there is none above it.
shadow_root_of(doc, n) ==
  LET Roots(S) == {m \in S : doc[m].tag = ShadowRoot} IN
  CASE Roots(Ancestors(doc, n)) # {} -> Max(Roots(Ancestors(doc, n)))
    [] Roots(Ancestors(doc, n)) = {} /\ doc[n].tag = ShadowRoot -> n
    [] OTHER -> NoNode

----------------------------------------------------------------------------
(* Selectors: [compounds, combinators, pseudo_element]. *)

is_first_element_child(doc, n) == prev_siblings(doc, n) \cap Element(doc) = {}
is_last_element_child(doc, n) == next_siblings(doc, n) \cap Element(doc) = {}
element_index_from_start(doc, n) == Cardinality({m \in Siblings(doc, n) \cap Element(doc) : m <= n})
element_index_from_end(doc, n) == Cardinality({m \in Siblings(doc, n) \cap Element(doc) : m >= n})
OfType(doc, n) == {m \in Siblings(doc, n) \cap Element(doc) : doc[m].tag = doc[n].tag}
type_index_from_start(doc, n) == Cardinality({m \in OfType(doc, n) : m <= n})
type_index_from_end(doc, n) == Cardinality({m \in OfType(doc, n) : m >= n})

\* A pseudo-class is [name, of]: of is the tag in :not(), :is() and :has(), the a of
\* :nth-child(a).  :empty sees text.
match_pseudo_class_v(pc, doc, n, hover) ==
  CASE pc.name = NoPseudo -> TRUE
    [] pc.name = "root" -> doc[n].parent = 1
    [] pc.name = "first-child" -> is_first_element_child(doc, n)
    [] pc.name = "last-child" -> is_last_element_child(doc, n)
    [] pc.name = "only-child" -> is_first_element_child(doc, n) /\ is_last_element_child(doc, n)
    [] pc.name = "first-of-type" -> type_index_from_start(doc, n) = 1
    [] pc.name = "last-of-type" -> type_index_from_end(doc, n) = 1
    [] pc.name = "empty" -> Children(doc, n) = {}
    [] pc.name = "hover" -> n \in hover
    [] pc.name = "not" -> doc[n].tag # pc.of
    [] pc.name = "is" -> doc[n].tag = pc.of
    [] pc.name = "has" -> \E m \in Element(doc) : n \in Ancestors(doc, m) /\ doc[m].tag = pc.of
    [] OTHER -> FALSE

matches_simple(compound, doc, n, hover) ==
  /\ n \in Element(doc)
  /\ compound.tag \in {AnyTag, doc[n].tag}
  /\ compound.class \in {NoPseudo, doc[n].class}
  /\ match_pseudo_class_v(compound.pc, doc, n, hover)

\* What may stand to the left of n over a combinator.
Related(combinator, doc, n) ==
  CASE combinator = "Descendant" -> Ancestors(doc, n)
    [] combinator = "Child" -> {doc[n].parent}
    [] combinator = "AdjacentSibling" -> {prev_sibling(doc, n)}
    [] combinator = "GeneralSibling" -> prev_siblings(doc, n)

\* walk_up, walk_prev: the first that matches is kept, and no other tried.
Nearest(nodes) == IF nodes = {} THEN NoNode ELSE Max(nodes)

\* selector_matches_pseudo: compound after compound, from the last one leftwards.
selector_matches_pseudo(sel, doc, n, pseudo, hover) ==
  LET last == Len(sel.compounds)
      at[i \in 1..last] ==
        IF i = last THEN (IF matches_simple(sel.compounds[i], doc, n, hover) THEN n ELSE NoNode)
        ELSE IF at[i + 1] = NoNode THEN NoNode
        ELSE Nearest({m \in Related(sel.combinators[i], doc, at[i + 1]) :
                        m # NoNode /\ matches_simple(sel.compounds[i], doc, m, hover)})
  IN sel.pseudo_element = pseudo /\ at[1] # NoNode

\* <<classes, tags>>; ids count like classes do, one rank above them.
compute_specificity(sel) ==
  LET Count(P(_)) == Cardinality({i \in DOMAIN sel.compounds : P(sel.compounds[i])})
  IN <<Count(LAMBDA c : c.class # NoPseudo)
         + Count(LAMBDA c : c.pc.name \notin {NoPseudo, "not", "is", "has"}),
       Count(LAMBDA c : c.tag # AnyTag) + Count(LAMBDA c : c.pc.name \in {"not", "is"})
         + (IF sel.pseudo_element # NoPseudo THEN 1 ELSE 0)>>

Below(s, t) == s[1] < t[1] \/ (s[1] = t[1] /\ s[2] < t[2])

----------------------------------------------------------------------------
(* Sheets. *)

\* A query is a set of alternatives, each a set of conditions; a condition names a viewport.
media_query_matches(query, viewport) ==
  query = {} \/ \E alternative \in query : \A condition \in alternative : condition = viewport

\* flatten_for_viewport: the rules of blocks come after all others of their sheet.
Flattened(sheet, viewport) ==
  [rules |-> FoldLeft(LAMBDA rules, m :
                        IF media_query_matches(m.query, viewport) THEN rules \o m.rules ELSE rules,
                      sheet.rules, sheet.media),
   scope |-> sheet.scope, is_ua |-> sheet.is_ua]

sheet_scope_allows(sheet, shadow) == sheet.is_ua \/ sheet.scope = shadow

\* All rules that can be asked, in source order.
Rules(sheets, doc, n) ==
  FoldLeft(LAMBDA rules, sheet :
             IF sheet_scope_allows(sheet, shadow_root_of(doc, n)) THEN rules \o sheet.rules
             ELSE rules, <<>>, sheets)

\* The rules that match with their specificity: that of the first selector that matches.
Matched(sheets, doc, n, pseudo, hover) ==
  LET rules == Rules(sheets, doc, n)
      Hits(r) == {i \in DOMAIN rules[r].selectors :
                    selector_matches_pseudo(rules[r].selectors[i], doc, n, pseudo, hover)}
  IN {[order |-> r, specificity |-> compute_specificity(rules[r].selectors[Min(Hits(r))]),
       declarations |-> rules[r].declarations] : r \in {q \in DOMAIN rules : Hits(q) # {}}}

\* Mutant of Sorted: source order alone decides.
InOrder(matched) == SetToSortSeq(matched, LAMBDA r, s : r.order < s.order)

Sorted(matched) ==
  SetToSortSeq(matched, LAMBDA r, s :
    \/ Below(r.specificity, s.specificity)
    \/ r.specificity = s.specificity /\ r.order < s.order)

----------------------------------------------------------------------------
(* Values: [of, n].  A length is in px, or counts the em, the rem or, in calc(), the font size
   of the root; a var() names "--x" and has n to fall back to, or nothing.  What cannot be read
   is a keyword that no property knows, and Fallback what the code then sets. *)

Value(of, n) == [of |-> of, n |-> n]
Fallback == -1
Unknown == Value("unknown", Fallback)
Unset == Value("unset", NoValue)     \* "--x" of a node that has none
ROOT_FONT_SIZE == 1

\* evaluate_calc: to pixels, whatever the font size of the node.
evaluate_calc(v) == Value("px", v.n * ROOT_FONT_SIZE)

resolve_value(v, x) ==
  CASE v.of = "var" /\ x # Unset -> x
    [] v.of = "var" /\ x = Unset -> IF v.n = NoValue THEN Unknown ELSE Value("px", v.n)
    [] v.of = "calc" -> evaluate_calc(v)
    [] OTHER -> v

Usable == {"px", "em", "rem", "word"}

\* length_to_px: a rem is measured by the parent's font size.
length_to_px(v, em, parent) ==
  v.n * (CASE v.of = "em" -> em [] v.of = "rem" -> parent [] OTHER -> 1)

----------------------------------------------------------------------------
(* Properties, in the groups of apply_declaration, by what a value they cannot use does: the
   longhand keeps what it has; what is no keyword is ignored, and a keyword it does not know
   gives Fallback; anything it cannot use gives Fallback.  font-family and the shorthands border,
   flex, container, grid-area, grid-column and grid-row do as their parts say. *)

Font == [
  keep |-> {"display", "color", "background-color", "background", "font-size", "font-weight",
            "font-stretch", "line-height"},
  word |-> {"font-style", "text-align", "white-space"},
  reset |-> {"font-variation-settings"}]
Box == [
  keep |-> {"margin-top", "margin-right", "margin-bottom", "margin-left",
            "margin-inline-start", "margin-inline-end", "margin-block-start", "margin-block-end",
            "margin-inline", "margin-block",
            "padding-top", "padding-right", "padding-bottom", "padding-left",
            "padding-inline-start", "padding-inline-end", "padding-block-start",
            "padding-block-end", "padding-inline", "padding-block", "border-color", "border-spacing"},
  word |-> {"border-style", "table-layout"},
  reset |-> {"margin", "padding", "border-width", "inset-inline-start", "inset-inline-end",
             "inset-block-start", "inset-block-end", "width", "height", "content"}]
Flex == [
  keep |-> {"flex-grow", "flex-shrink", "gap", "grid-gap", "row-gap", "column-gap"},
  word |-> {"flex-direction", "flex-wrap", "justify-content", "align-items"},
  reset |-> {"flex-basis"}]
Grid == [
  keep |-> {"order"},
  word |-> {"grid-auto-flow", "justify-items", "justify-self", "align-self", "align-content"},
  reset |-> {"grid-template-columns", "grid-template-rows", "grid-template-areas",
             "grid-column-start", "grid-column-end", "grid-row-start", "grid-row-end",
             "grid-auto-columns", "grid-auto-rows"}]
Place == [
  keep |-> {"z-index", "text-decoration", "text-decoration-line"},
  word |-> {"box-sizing", "position"},
  reset |-> {"min-width", "max-width", "min-height", "max-height", "top", "right", "bottom", "left",
             "anchor-name", "position-anchor"}]
Painting == [
  keep |-> {"border-radius", "opacity", "line-clamp", "-webkit-line-clamp"},
  word |-> {"mask-mode", "direction"},
  reset |-> {"background-image", "mask-image", "-webkit-mask-image", "overflow", "overflow-x",
             "overflow-y", "text-overflow", "scroll-snap-type", "scroll-snap-align",
             "font-feature-settings", "hyphens"}]
Rest == [
  keep |-> {},
  word |-> {},
  reset |-> {"container-type", "container-name", "aspect-ratio", "will-change", "transition",
             "animation", "box-shadow", "transform"}]

Groups == {Font, Box, Flex, Grid, Place, Painting, Rest}
Keeps == UNION {g.keep : g \in Groups}
Words == UNION {g.word : g \in Groups}
Resets == UNION {g.reset : g \in Groups}

\* What a property writes: itself, but for shorthands and other names.
Longhands(property) ==
  CASE property = "background" -> {"background-color"}
    [] property = "margin" -> {"margin-top", "margin-right", "margin-bottom", "margin-left"}
    [] property = "padding" -> {"padding-top", "padding-right", "padding-bottom", "padding-left"}
    [] property = "margin-inline" -> {"margin-left", "margin-right"}
    [] property = "margin-block" -> {"margin-top", "margin-bottom"}
    [] property = "padding-inline" -> {"padding-left", "padding-right"}
    [] property = "padding-block" -> {"padding-top", "padding-bottom"}
    [] property = "margin-inline-start" -> {"margin-left"}
    [] property = "margin-inline-end" -> {"margin-right"}
    [] property = "margin-block-start" -> {"margin-top"}
    [] property = "margin-block-end" -> {"margin-bottom"}
    [] property = "padding-inline-start" -> {"padding-left"}
    [] property = "padding-inline-end" -> {"padding-right"}
    [] property = "padding-block-start" -> {"padding-top"}
    [] property = "padding-block-end" -> {"padding-bottom"}
    [] property = "inset-inline-start" -> {"left"}
    [] property = "inset-inline-end" -> {"right"}
    [] property = "inset-block-start" -> {"top"}
    [] property = "inset-block-end" -> {"bottom"}
    [] property \in {"gap", "grid-gap"} -> {"row-gap", "column-gap"}
    [] property = "text-decoration-line" -> {"text-decoration"}
    [] property = "overflow" -> {"overflow-x", "overflow-y"}
    [] property = "-webkit-mask-image" -> {"mask-image"}
    [] property = "-webkit-line-clamp" -> {"line-clamp"}
    [] OTHER -> {property}

Put(style, longhands, n) == [f \in longhands \cap DOMAIN style |-> n] @@ style

\* transition-duration, animation-duration: of the rules there are, and when there is none of
\* none; animation-name makes one.
Nameless == -2
Timed(style, list, property, v) ==
  IF v.of \in Usable /\ style[list] \notin {NoValue, Fallback} THEN Put(style, {property}, v.n) ELSE style
AnimationName(style, v) ==
  IF v.of = "word" THEN Put(style, {"animation"}, v.n)
  ELSE IF v.of = "unknown" THEN Put(style, {"animation"}, Nameless) ELSE style

\* filter: the opacity of the node is that of every filter declared, those it replaces included.
\* Opacities are counted in halvings.
Filtered(style, v) ==
  LET n == IF v.of \in Usable THEN v.n ELSE 0 IN
  ("filter" :> n) @@ ("opacity" :> style["opacity"] + n) @@ style

\* apply, apply_declaration; font_size_from: em and rem are the parent's font size.
Applied(style, d, parent) ==
  LET v == resolve_value(d.value, style.x)
      px == length_to_px(v, IF d.property = "font-size" THEN parent ELSE style["font-size"], parent)
  IN
  CASE d.property \in Keeps ->
         IF v.of \in Usable THEN Put(style, Longhands(d.property), px) ELSE style
    [] d.property \in Words ->
         IF v.of \in {"word", "unknown"} THEN Put(style, {d.property}, v.n) ELSE style
    [] d.property \in Resets ->
         Put(style, Longhands(d.property), IF v.of \in Usable THEN px ELSE Fallback)
    [] d.property = "transition-duration" -> Timed(style, "transition", d.property, v)
    [] d.property = "animation-duration" -> Timed(style, "animation", d.property, v)
    [] d.property = "animation-name" -> AnimationName(style, v)
    [] d.property = "filter" -> Filtered(style, v)
    [] OTHER -> style

\* Both passes: custom properties, each with those before it, then all others, each with the
\* font size of those before it.
Styled(style, declarations) ==
  LET custom == SelectSeq(declarations, LAMBDA d : d.property = "--x")
      x == FoldLeft(LAMBDA known, d : resolve_value(d.value, known), style.x, custom)
      parent == style["font-size"]
  IN FoldLeft(LAMBDA s, d : Applied(s, d, parent), [style EXCEPT !.x = x], declarations)

Inherited ==
  {"color", "font-family", "font-size", "font-weight", "font-style", "text-align", "line-height",
   "white-space", "border-spacing", "text-decoration", "direction", "x"}

Initial ==
  [f \in Longhand \cup {"x", "font-size"} |->
     CASE f = "x" -> Unset [] f = "font-size" -> ROOT_FONT_SIZE [] OTHER -> NoValue]
inherit_from(parent) ==
  [f \in DOMAIN parent |-> IF f \in Inherited THEN parent[f] ELSE Initial[f]]

Declarations(rules) == FlattenSeq([i \in DOMAIN rules |-> rules[i].declarations])

\* The dir attribute, before any rule; "auto" leaves what is inherited.
Directed(style, dir) ==
  CASE dir = "rtl" -> LET flipped == Put(style, {"direction"}, Rtl) IN
                      IF style["text-align"] = Left THEN Put(flipped, {"text-align"}, Right) ELSE flipped
    [] dir = "ltr" -> Put(style, {"direction"}, Ltr)
    [] OTHER -> style

\* The dir attribute, rules in the order of the cascade, then the style attribute.
compute_one(sheets, doc, n, parent, hover) ==
  IF n \notin Element(doc) THEN parent
  ELSE Styled(Directed(parent, doc[n].dir),
              Declarations(Sorted(Matched(sheets, doc, n, NoPseudo, hover))) \o doc[n].style)

\* ::before, when content is declared for it.
compute_pseudo_style(sheets, doc, n, element, hover) ==
  LET style == Styled(inherit_from(element),
                      Declarations(Sorted(Matched(sheets, doc, n, "before", hover))))
  IN IF n \notin Element(doc) \/ style.content \in {NoValue, Fallback} THEN Initial ELSE style

Init ==
  \E page \in Pages, viewport \in Viewports, hover \in Hovers :
    cascade = [doc |-> page.doc, hover |-> hover, styles |-> <<>>,
               sheets |-> [i \in DOMAIN page.sheets |-> Flattened(page.sheets[i], viewport)]]

\* compute_recursive comes to the next node; its parent's style is known.
Compute ==
  /\ Len(cascade.styles) < Len(cascade.doc)
  /\ LET n == Len(cascade.styles) + 1
         parent == IF n = 1 THEN Initial ELSE inherit_from(cascade.styles[cascade.doc[n].parent].own)
         own == compute_one(cascade.sheets, cascade.doc, n, parent, cascade.hover)
     IN cascade' = [cascade EXCEPT !.styles = Append(@,
          [own |-> own,
           before |-> compute_pseudo_style(cascade.sheets, cascade.doc, n, own, cascade.hover)])]

Next == Compute

Spec == Init /\ [][Next]_cascade

----------------------------------------------------------------------------
(* Properties. *)

TypeOK == Len(cascade.styles) \in 0..Len(cascade.doc)

\* The node computed last: those before it were last before.
Newest == {Len(cascade.styles)}

\* All nodes that can take the place of the first compound, whatever is tried on the way.
Candidates(sel, doc, n, hover) ==
  LET last == Len(sel.compounds)
      at[i \in 1..last] ==
        {m \in IF i = last THEN {n} ELSE UNION {Related(sel.combinators[i], doc, k) : k \in at[i + 1]} :
           m # NoNode /\ matches_simple(sel.compounds[i], doc, m, hover)}
  IN at[1]

\* Where the nearest is as good as any: nothing but ancestors is asked of an ancestor, and
\* not the one just before of a sibling.
Backtracks(sel) ==
  \E i, j \in DOMAIN sel.combinators : i < j /\
    \/ sel.combinators[j] = "Descendant" /\ sel.combinators[i] # "Descendant"
    \/ sel.combinators[j] = "GeneralSibling" /\ sel.combinators[i] = "AdjacentSibling"

\* A selector matches only where nodes for all its compounds exist, and there always unless
\* finding them takes backtracking, which the walk does not do; and the two ways in which
\* the code counts positions among siblings agree.
SelectorsAgree ==
  \A n \in Element(cascade.doc) \cap Newest :
    /\ \A i \in DOMAIN cascade.sheets : \A rule \in ToSet(cascade.sheets[i].rules) :
         \A sel \in ToSet(rule.selectors) :
           LET found == selector_matches_pseudo(sel, cascade.doc, n, sel.pseudo_element, cascade.hover)
               exists == Candidates(sel, cascade.doc, n, cascade.hover) # {}
           IN (found => exists) /\ (exists /\ ~Backtracks(sel) => found)
    /\ is_first_element_child(cascade.doc, n) = (element_index_from_start(cascade.doc, n) = 1)
    /\ is_last_element_child(cascade.doc, n) = (element_index_from_end(cascade.doc, n) = 1)

\* Whether a declaration has a say on a longhand of a node of this style.
Says(d, longhand, style) ==
  LET v == resolve_value(d.value, style.x) IN
  /\ longhand \in Longhands(d.property)
  /\ d.property \in Keeps => v.of \in Usable
  /\ d.property \in Words => v.of \in {"word", "unknown"}

\* The declarations of rules that match a node and its own, each with its rank: style attribute,
\* specificity, then the places of sheet, rule and declaration.
Asked(n) ==
  LET doc == cascade.doc
      Roots == {m \in Ancestors(doc, n) \cup {n} : doc[m].tag = ShadowRoot}
      Own(sheet) == sheet.is_ua \/ IF sheet.scope = NoNode THEN Roots = {}
                                   ELSE sheet.scope \in Roots /\ Roots \subseteq 1..sheet.scope
      Hits(rule) == {k \in DOMAIN rule.selectors : selector_matches_pseudo(
                       rule.selectors[k], doc, n, NoPseudo, cascade.hover)}
  IN UNION {UNION {
       LET rule == cascade.sheets[i].rules[r]
           s == compute_specificity(rule.selectors[Min(Hits(rule))])
       IN {[rank |-> <<0, s[1], s[2], i, r, d>>, of |-> rule.declarations[d]] :
             d \in DOMAIN rule.declarations}
       : r \in {q \in DOMAIN cascade.sheets[i].rules : Hits(cascade.sheets[i].rules[q]) # {}}}
       : i \in {j \in DOMAIN cascade.sheets : Own(cascade.sheets[j])}}
     \cup {[rank |-> <<1, 0, 0, 0, 0, d>>, of |-> doc[n].style[d]] : d \in DOMAIN doc[n].style}

Reaching(asked, longhand, style) == {d \in asked : Says(d.of, longhand, style)}

RankBelow(a, b) == \E k \in 1..6 : a[k] < b[k] /\ \A j \in 1..(k - 1) : a[j] = b[j]

\* The highest of them, and the value it gives where an em is em.
Top(reaching) == CHOOSE d \in reaching : \A e \in reaching : d = e \/ RankBelow(e.rank, d.rank)
Given(d, em, style, parent) ==
  LET v == resolve_value(d.of.value, style.x) IN
  IF v.of \in Usable THEN length_to_px(v, em, parent["font-size"]) ELSE Fallback

\* The font size that those of a rank below give.
FontBelow(asked, rank, own, parent) ==
  LET sizes == {d \in Reaching(asked, "font-size", own) : RankBelow(d.rank, rank)} IN
  IF sizes = {} THEN parent["font-size"] ELSE Given(Top(sizes), parent["font-size"], own, parent)

\* What a node has of a longhand before any declaration: its dir attribute decides, or its parent.
Unstyled(n, longhand, parent) ==
  LET dir == cascade.doc[n].dir IN
  CASE longhand = "direction" /\ dir \in {"rtl", "ltr"} -> IF dir = "rtl" THEN Rtl ELSE Ltr
    [] longhand = "text-align" /\ dir = "rtl" /\ parent["text-align"] = Left -> Right
    [] OTHER -> IF longhand \in Inherited THEN parent[longhand] ELSE Initial[longhand]

\* What a longhand has when the highest that reaches it decides, and else what it has without any.
Winning(n, asked, longhand, own, parent) ==
  LET reaching == Reaching(asked, longhand, own)
      top == Top(reaching)
  IN IF reaching = {} THEN Unstyled(n, longhand, parent)
     ELSE Given(top,
                IF longhand = "font-size" THEN parent["font-size"]
                ELSE FontBelow(asked, top.rank, own, parent),
                own, parent)

\* Each longhand of a computed node is what the highest ranked declaration that reaches it from
\* a sheet of its own tree says, or dir, inherited, or initial.  The rank is that of
\* cascade.rs 694, which knows no origin and no importance; rem is the parent's font size, and
\* an em the font size that declarations ranked below give, not that of the node; the
\* filters' opacities add up, and a duration is lost that comes before the animation it is of.
StylesAgree ==
  \A n \in Element(cascade.doc) \cap Newest :
    LET own == cascade.styles[n].own
        parent == cascade.styles[cascade.doc[n].parent].own
        asked == Asked(n)
        opacities == Reaching(asked, "opacity", own)
        Above(d) == \A e \in opacities : RankBelow(e.rank, d.rank)
        names == Reaching(asked, "animation-name", own)
        filters == {d \in Reaching(asked, "filter", own) : Above(d)}
        Opacity(d) == Given(d, 1, own, parent)
    IN /\ \A f \in Longhand \ {"opacity", "filter", "animation", "animation-duration"} :
            own[f] = Winning(n, asked, f, own, parent)
       /\ own["opacity"] = FoldSet(LAMBDA d, sum : sum + Opacity(d), 0,
                                  filters \cup (IF opacities = {} THEN {} ELSE {Top(opacities)}))
       /\ (own["animation-duration"] # NoValue) =
            \E d \in Reaching(asked, "animation-duration", own), e \in names : RankBelow(e.rank, d.rank)

==============================================================================
