----------------------------- MODULE PageObjects -----------------------------
(***************************************************************************)
(* What a page is made of and what its scripts hold, one part at a time:   *)
(* the parser that reads it, the styles it is given, the shell that paints *)
(* it and takes the user's input, and the objects that observe it, stream, *)
(* abort, fetch, animate, decode and draw.  All of them live on the page's *)
(* thread and meet only through the document, so a run shows one of them,  *)
(* of any kind, in every sequence of its calls.  object is its state.      *)
(***************************************************************************)
EXTENDS Integers, Sequences, FiniteSets, TLC

CONSTANTS
  TableWord, MarkupWord, MarkupMark, MaxTokens, MaxRun,        \* parser, markup
  StyledPages, Longhand, Viewports, Hovers,                    \* cascade
  LaidPages, ViewportWidth, GLYPH, LINE,                       \* boxes
  Control, Role, Form, Sandboxed, MaxTyped, MaxEvents,         \* input
  Hearer, HearerParent, Popover, Dialog,                       \* events, told
  MutationObserver, Watched, Kind, MaxRecords, MaxWatches,      \* mutations
  LayoutObserver, thresholds, FULL,                            \* layout, resize
  MaxChunks, MaxReads, MaxStreams,                             \* streams
  MaxSignals, MaxListeners,                                    \* abort
  MaxSends, MaxDepth,                                          \* xhr
  Options, TickOptions, Rates, MaxAnimations, MaxPromises, MaxTime, FADE,
                                                               \* animations, transitions
  MaxMedia, MaxCodecs, MaxData,                                \* codecs
  Video, MaxBuffers, MaxAppends, MaxCalls,                     \* source
  MaxEncoders, MaxPasses, MaxCommands, Size,                   \* gpu
  Source, Broken,                                              \* gl
  FormPages, FormTexts, NumberOf, Message,                     \* forms
  MatchedPages, MatchedTexts, MatchedPatterns,                 \* patterns
  SelectorDoc                   \* bound: nodes of a document for selectors

VARIABLES kind, object

CC == INSTANCE Cascade WITH cascade <- object, Pages <- StyledPages
LY == INSTANCE Layout WITH lay <- object
PI == INSTANCE PageInput WITH ui <- object, Node <- Control
MO == INSTANCE MutationObservers
        WITH obs <- object, Observer <- MutationObserver, Target <- Watched
ST == INSTANCE Streams WITH streams <- object
AB == INSTANCE AbortSignals WITH abort <- object
XR == INSTANCE XmlHttpRequest WITH xhr <- object
WC == INSTANCE WebCodecs WITH codec <- object
MS == INSTANCE MediaSource WITH mse <- object, Node <- Video
GP == INSTANCE WebGpu WITH gpu <- object

(* Of these there is more than one kind of part, each with a choice of constants. *)

\* Observers O of targets T, of which R are ResizeObservers.
Lay(O, T, R, full) ==
  INSTANCE LayoutObservers WITH lay <- object, Observer <- O, Target <- T, Resize <- R, FULL <- full

\* Animations with options O, at most M of them and V transitions, until time T.
Ani(O, M, T, V) ==
  INSTANCE Animations
    WITH anim <- object, Options <- O, MaxAnimations <- M, MaxTime <- T, MaxTransitions <- V

HP(k) == INSTANCE HtmlParser WITH parse <- object, Word <- k.word, Mark <- k.mark, MaxTokens <- k.tokens
Tables == [word |-> TableWord, mark |-> {"<", ">", "/"}, tokens |-> MaxTokens]
Markup == [word |-> MarkupWord, mark |-> MarkupMark, tokens |-> 2]

ED(k) ==
  INSTANCE EventDispatch
    WITH ev <- object, Element <- Hearer, InitialParent <- HearerParent, ShellType <- k.shell,
         Popover <- k.popover, Dialog <- k.dialog, Lock <- k.lock,
         MaxHandlers <- 2, MaxNested <- k.nested, MaxTold <- k.told
Events == [shell |-> {"click"}, popover |-> {}, dialog |-> Dialog, lock |-> {}, nested |-> 2, told |-> 1]
Told == [shell |-> {}, popover |-> Popover, dialog |-> {}, lock |-> {"fullscreenchange"}, nested |-> 3, told |-> 3]

GO(k) ==
  INSTANCE WebGpuObjects
    WITH objs <- object, MaxObjects <- k.objects, MaxOps <- k.ops, MaxPasses <- k.passes,
         MaxParts <- k.parts, MaxSlot <- 0
GpuObjects == [objects |-> 4, ops |-> 0, passes |-> 0, parts |-> 2]
GpuDraws == [objects |-> 2, ops |-> 3, passes |-> 1, parts |-> 1]

GL(k) ==
  INSTANCE WebGl
    WITH gl <- object, Source <- k.source, Broken <- k.broken, Name <- k.name, Value <- k.value,
         Units <- k.units, MAX_ATTRIBS <- k.attribs, Made <- k.made, MaxHandles <- k.handles
GlPrograms ==
  [source |-> Source, broken |-> Broken, name |-> {}, value |-> {}, units |-> {0}, attribs |-> 0,
   made |-> {"shader", "program"}, handles |-> 3]
GlUniforms ==
  [source |-> {}, broken |-> {}, name |-> {"m", "n"}, value |-> {1}, units |-> {0}, attribs |-> 0,
   made |-> {"program", "stub"}, handles |-> 2]
GlState ==
  [source |-> {}, broken |-> {}, name |-> {"m"}, value |-> {1}, units |-> {0, 1}, attribs |-> 1,
   made |-> {"buffer", "texture", "program"}, handles |-> 2]

FO(k) ==
  INSTANCE Forms
    WITH forms <- object, FormPages <- k.pages, Texts <- k.texts, Patterns <- k.patterns, Message <- k.message
Posted == [pages |-> FormPages, texts |-> FormTexts, patterns |-> {}, message |-> Message]
Matched == [pages |-> MatchedPages, texts |-> MatchedTexts, patterns |-> MatchedPatterns, message |-> {}]

SC(k) ==
  INSTANCE Surfaces
    WITH surf <- object, Canvas <- k.canvas, Paint <- {"red"}, Sizes <- k.sizes, CAP <- k.cap,
         MaxContexts <- k.contexts, MaxSaves <- k.saves, MaxIds <- k.ids
Canvases == [canvas |-> {"c", "d"}, sizes |-> {1, 2, 3}, cap |-> 2, contexts |-> 2, saves |-> 1, ids |-> 0]
Offscreens == [canvas |-> {}, sizes |-> {1, 2}, cap |-> 3, contexts |-> 0, saves |-> 0, ids |-> 4]

ASSUME BoundsAssumption ==
  /\ HP(Tables)!Bounds /\ HP(Markup)!Bounds /\ LY!Bounds /\ PI!Bounds /\ ED(Events)!Bounds /\ ED(Told)!Bounds
  /\ MO!Bounds /\ Lay(LayoutObserver, Watched, {}, FULL)!Bounds /\ Lay(LayoutObserver, {"s"}, {2}, 2)!Bounds
  /\ ST!Bounds /\ AB!Bounds /\ XR!Bounds
  /\ Ani(Options, 1, MaxTime, 1)!Bounds /\ Ani(TickOptions, MaxAnimations, 1, 0)!Bounds
  /\ WC!Bounds /\ MS!Bounds /\ GP!Bounds /\ GO(GpuObjects)!Bounds /\ GO(GpuDraws)!Bounds
  /\ GL(GlPrograms)!Bounds /\ GL(GlUniforms)!Bounds /\ GL(GlState)!Bounds
  /\ SC(Canvases)!Bounds /\ SC(Offscreens)!Bounds

vars == <<kind, object>>

Init ==
  \/ kind = "parser" /\ HP(Tables)!Init
  \/ kind = "markup" /\ HP(Markup)!Init
  \/ kind = "cascade" /\ CC!Init
  \/ kind = "boxes" /\ LY!Init
  \/ kind = "input" /\ PI!Init
  \/ kind = "events" /\ ED(Events)!Init
  \/ kind = "told" /\ ED(Told)!Init
  \/ kind = "mutations" /\ MO!Init
  \/ kind = "layout" /\ Lay(LayoutObserver, Watched, {}, FULL)!Init
  \/ kind = "resize" /\ Lay(LayoutObserver, {"s"}, {2}, 2)!Init
  \/ kind = "streams" /\ ST!Init
  \/ kind = "abort" /\ AB!Init
  \/ kind = "xhr" /\ XR!Init
  \/ kind = "animations" /\ Ani(Options, 1, MaxTime, 1)!Init
  \/ kind = "ticks" /\ Ani(TickOptions, MaxAnimations, 1, 0)!Init
  \/ kind = "codecs" /\ WC!Init
  \/ kind = "source" /\ MS!Init
  \/ kind = "gpu" /\ GP!Init
  \/ kind = "gpu objects" /\ GO(GpuObjects)!Init
  \/ kind = "gpu draws" /\ GO(GpuDraws)!Init
  \/ kind = "gl programs" /\ GL(GlPrograms)!Init
  \/ kind = "gl uniforms" /\ GL(GlUniforms)!Init
  \/ kind = "gl state" /\ GL(GlState)!Init
  \/ kind = "forms" /\ FO(Posted)!Init
  \/ kind = "patterns" /\ FO(Matched)!Init
  \/ kind = "canvases" /\ SC(Canvases)!Init
  \/ kind = "offscreens" /\ SC(Offscreens)!Init

ParserNext == kind = "parser" /\ HP(Tables)!Next /\ UNCHANGED kind
MarkupNext == kind = "markup" /\ HP(Markup)!Next /\ UNCHANGED kind
CascadeNext == kind = "cascade" /\ CC!Next /\ UNCHANGED kind
BoxesNext == kind = "boxes" /\ LY!Next /\ UNCHANGED kind
InputNext == kind = "input" /\ PI!Next /\ UNCHANGED kind
EventsNext == kind = "events" /\ ED(Events)!Next /\ UNCHANGED kind
ToldNext == kind = "told" /\ ED(Told)!Next /\ UNCHANGED kind
MutationsNext == kind = "mutations" /\ MO!Next /\ UNCHANGED kind
LayoutNext == kind = "layout" /\ Lay(LayoutObserver, Watched, {}, FULL)!Next /\ UNCHANGED kind
ResizeNext == kind = "resize" /\ Lay(LayoutObserver, {"s"}, {2}, 2)!Next /\ UNCHANGED kind
StreamsNext == kind = "streams" /\ ST!Next /\ UNCHANGED kind
AbortNext == kind = "abort" /\ AB!Next /\ UNCHANGED kind
XhrNext == kind = "xhr" /\ XR!Next /\ UNCHANGED kind
AnimationsNext == kind = "animations" /\ Ani(Options, 1, MaxTime, 1)!Next /\ UNCHANGED kind
TicksNext == kind = "ticks" /\ Ani(TickOptions, MaxAnimations, 1, 0)!Next /\ UNCHANGED kind
CodecsNext == kind = "codecs" /\ WC!Next /\ UNCHANGED kind
SourceNext == kind = "source" /\ MS!Next /\ UNCHANGED kind
GpuNext == kind = "gpu" /\ GP!Next /\ UNCHANGED kind
GpuObjectsNext == kind = "gpu objects" /\ GO(GpuObjects)!Next /\ UNCHANGED kind
GpuDrawsNext == kind = "gpu draws" /\ GO(GpuDraws)!Next /\ UNCHANGED kind
GlProgramsNext == kind = "gl programs" /\ GL(GlPrograms)!Next /\ UNCHANGED kind
GlUniformsNext == kind = "gl uniforms" /\ GL(GlUniforms)!Next /\ UNCHANGED kind
GlStateNext == kind = "gl state" /\ GL(GlState)!Next /\ UNCHANGED kind
FormsNext == kind = "forms" /\ FO(Posted)!Next /\ UNCHANGED kind
PatternsNext == kind = "patterns" /\ FO(Matched)!Next /\ UNCHANGED kind
CanvasesNext == kind = "canvases" /\ SC(Canvases)!Next /\ UNCHANGED kind
OffscreensNext == kind = "offscreens" /\ SC(Offscreens)!Next /\ UNCHANGED kind

Next ==
  \/ ParserNext \/ MarkupNext \/ CascadeNext \/ BoxesNext \/ InputNext
  \/ EventsNext \/ ToldNext \/ MutationsNext \/ LayoutNext \/ ResizeNext
  \/ StreamsNext \/ AbortNext \/ XhrNext
  \/ AnimationsNext \/ TicksNext \/ CodecsNext \/ SourceNext
  \/ GpuNext \/ GpuObjectsNext \/ GpuDrawsNext
  \/ GlProgramsNext \/ GlUniformsNext \/ GlStateNext
  \/ FormsNext \/ PatternsNext \/ CanvasesNext \/ OffscreensNext

Spec == Init /\ [][Next]_vars

----------------------------------------------------------------------------
(* Each module's properties, of the part of its kind. *)

\* Every part keeps to its types.
TypeOK ==
  /\ kind = "parser" => HP(Tables)!TypeOK
  /\ kind = "markup" => HP(Markup)!TypeOK
  /\ kind = "cascade" => CC!TypeOK
  /\ kind = "boxes" => LY!TypeOK
  /\ kind = "input" => PI!TypeOK
  /\ kind = "events" => ED(Events)!TypeOK
  /\ kind = "told" => ED(Told)!TypeOK
  /\ kind = "mutations" => MO!TypeOK
  /\ kind = "layout" => Lay(LayoutObserver, Watched, {}, FULL)!TypeOK
  /\ kind = "resize" => Lay(LayoutObserver, {"s"}, {2}, 2)!TypeOK
  /\ kind = "streams" => ST!TypeOK
  /\ kind = "abort" => AB!TypeOK
  /\ kind = "xhr" => XR!TypeOK
  /\ kind = "animations" => Ani(Options, 1, MaxTime, 1)!TypeOK
  /\ kind = "ticks" => Ani(TickOptions, MaxAnimations, 1, 0)!TypeOK
  /\ kind = "codecs" => WC!TypeOK
  /\ kind = "source" => MS!TypeOK
  /\ kind = "gpu" => GP!TypeOK
  /\ kind = "gpu objects" => GO(GpuObjects)!TypeOK
  /\ kind = "gpu draws" => GO(GpuDraws)!TypeOK
  /\ kind = "gl programs" => GL(GlPrograms)!TypeOK
  /\ kind = "gl uniforms" => GL(GlUniforms)!TypeOK
  /\ kind = "gl state" => GL(GlState)!TypeOK
  /\ kind = "forms" => FO(Posted)!TypeOK
  /\ kind = "patterns" => FO(Matched)!TypeOK
  /\ kind = "canvases" => SC(Canvases)!TypeOK
  /\ kind = "offscreens" => SC(Offscreens)!TypeOK

\* What is shown follows from markup, styles and state by the rules of the code: the parser
\* encloses what it adds by what is open; a selector matches where CSS says, or misses what
\* takes backtracking to find, and the declaration that ranks highest in the order of
\* cascade.rs 694, without origins, gives a longhand its value; boxes of the last pass hold
\* their content, fill their lines and take their own place; and the pixmap is of the focus,
\* hover and frames of now, a dispatch being taken to tell rightly whether it changed the page.
ShownAsDefined ==
  /\ kind = "parser" => HP(Tables)!EnclosedByOpen /\ HP(Tables)!RawHoldsText
  /\ kind = "markup" => HP(Markup)!EnclosedByOpen /\ HP(Markup)!RawHoldsText
  /\ kind = "cascade" => CC!SelectorsAgree /\ CC!StylesAgree
  /\ kind = "boxes" => LY!LaidOutWhole
  /\ kind = "input" => PI!PaintedAsIs

\* What a script waits for or has set reaches its end whole, once and in order: events
\* and what is told of popovers, dialogs and held elements, the bytes of a media source,
\* the commands of a pass and of a draw, what was set on a program through its own
\* locations, and the fields of a form.  A pattern accepts what it stands for and what a
\* plus gives back; and the surfaces drawn on are within their caps, clones of
\* bitmaps left out, which no cap holds.
HeardWhole ==
  /\ kind = "events" => ED(Events)!HandlersInOrder
  /\ kind = "told" => ED(Told)!ToldAsIs
  /\ kind = "source" => MS!AppendsPlayedOnce
  /\ kind = "gpu" => GP!PassesRunWhole
  /\ kind = "gpu objects" => GO(GpuObjects)!DrawnAsSet
  /\ kind = "gpu draws" => GO(GpuDraws)!DrawnAsSet
  /\ kind = "gl programs" => GL(GlPrograms)!ProgramsApart
  /\ kind = "gl uniforms" => GL(GlUniforms)!ProgramsApart
  /\ kind = "gl state" => GL(GlState)!ProgramsApart
  /\ kind = "forms" => FO(Posted)!FormsAnswered
  /\ kind = "patterns" => FO(Matched)!PatternsMatch
  /\ kind = "canvases" => SC(Canvases)!PoolsSound
  /\ kind = "offscreens" => SC(Offscreens)!PoolsSound

\* What was started is told what became of it: a signal that follows an aborted one; the
\* newest promise of an animation that came to an end or was cancelled; the element in focus,
\* of a composition that starts and ends while it is (a click away ends none, main.rs 1263);
\* a target that came into view or left it; the sends of a request; the chunks of a stream
\* and of the branches of its tee; the inputs of a codec; and an observer, of each record
\* enqueued for what it watches (observers.rs: insertBefore, replaceChild and innerHTML
\* enqueue none).
OutcomesTold ==
  /\ kind = "abort" => AB!FollowersAbort
  /\ kind = "input" => PI!CompositionsBalanced
  /\ kind = "animations" => Ani(Options, 1, MaxTime, 1)!EndingsTold
  /\ kind = "ticks" => Ani(TickOptions, MaxAnimations, 1, 0)!EndingsTold
  /\ kind = "layout" => Lay(LayoutObserver, Watched, {}, FULL)!ToldInView
  /\ kind = "resize" => Lay(LayoutObserver, {"s"}, {2}, 2)!ToldInView
  /\ kind = "xhr" => XR!AnswersWhole
  /\ kind = "streams" => ST!ChunksInOrder
  /\ kind = "codecs" => WC!OutputsMatch
  /\ kind = "mutations" => MO!MutationsHeard

\* An animation's time stands still while it is paused (animations.rs).
PauseKeepsTime ==
  [][/\ kind = "animations" => Ani(Options, 1, MaxTime, 1)!PauseKept
     /\ kind = "ticks" => Ani(TickOptions, MaxAnimations, 1, 0)!PauseKept]_vars

----------------------------------------------------------------------------
(* The constants of the run. *)

\* What starts, ends and separates markup.
MCMarkupMark == {"<", ">", "/", "!", "-", "--", "=", "\"", "space"}

----------------------------------------------------------------------------
(* Selectors: every document of a few nodes, with every selector of three
   compounds; SelectorsAgree compares all of them with the reference. *)

Element(parent, tag) == [parent |-> parent, tag |-> tag, class |-> "", style |-> <<>>, dir |-> ""]

Around(doc, n) ==
  LET up[m \in 0..n] == IF m = 0 THEN {} ELSE {m} \cup up[doc[m].parent] IN up[n]

Documents ==
  LET grown(doc) ==
        {Append(doc, Element(p, t)) :
           p \in {p \in Around(doc, Len(doc)) : doc[p].tag # "#text"}, t \in {"a", "b", "#text"}}
      of[n \in 1..SelectorDoc] ==
        IF n = 1 THEN {<<Element(0, "")>>} ELSE UNION {grown(doc) : doc \in of[n - 1]}
  IN {doc \in of[SelectorDoc] : doc[2].tag # "#text"}

AnyNode == [name |-> "", of |-> ""]
Named(tag) == [tag |-> tag, class |-> "", pc |-> AnyNode]
AorB(i) == IF i % 2 = 0 THEN "a" ELSE "b"
Combinator == <<"Descendant", "Child", "AdjacentSibling", "GeneralSibling">>

Selectors ==
  [i \in 1..64 |->
     LET k == i - 1 IN
     [compounds |-> <<Named(AorB(k)), Named(AorB(k \div 2)), Named("b")>>,
      combinators |-> <<Combinator[1 + ((k \div 4) % 4)], Combinator[1 + (k \div 16)]>>,
      pseudo_element |-> ""]]

Sheet(rules, media, scope, is_ua) ==
  [rules |-> rules, media |-> media, scope |-> scope, is_ua |-> is_ua]

SelectorPages ==
  [doc : Documents, sheets : {<<Sheet(<<[selectors |-> Selectors, declarations |-> <<>>]>>, <<>>, 0, FALSE)>>}]

----------------------------------------------------------------------------
(* Declarations: one chain of nodes, in or out of a shadow tree, with every choice
   of three rules, of the browser, of the page and in a media block. *)

Styled(parent, tag, class, style) ==
  [parent |-> parent, tag |-> tag, class |-> class, style |-> style, dir |-> ""]
Number(n) == [of |-> "px", n |-> n]
Ems(n) == [of |-> "em", n |-> n]
Rems(n) == [of |-> "rem", n |-> n]
Calc(n) == [of |-> "calc", n |-> n]
Keyword(n) == [of |-> "word", n |-> n]
Variable(n) == [of |-> "var", n |-> n]
Sets(property, value) == [property |-> property, value |-> value]

Chains ==
  {<<Styled(0, "", "", <<>>), Styled(1, "a", "", <<>>), Styled(2, tag, "k", <<>>), Styled(3, "b", class, style)>> :
     tag \in {"a", "__shadow_root__"}, class \in {"", "k"},
     style \in {<<>>, <<Sets("color", Number(9)), Sets("font-size", Ems(2))>>}}

One(tag, class, pseudo_element, pc) ==
  [compounds |-> <<[tag |-> tag, class |-> class, pc |-> [name |-> pc, of |-> "b"]]>>,
   combinators |-> <<>>, pseudo_element |-> pseudo_element]
Rule(selectors, declarations) == [selectors |-> selectors, declarations |-> declarations]

RulePool ==
  { Rule(<<One("b", "", "", "")>>,
         <<Sets("color", Number(1)), Sets("width", Ems(3)), Sets("font-size", Number(5)), Sets("margin-left", Rems(3))>>),
    Rule(<<One("", "k", "", "")>>,
         <<Sets("color", Number(2)), Sets("--x", Ems(7)), Sets("filter", Number(1)), Sets("position", Keyword(2)),
           Sets("animation-name", Keyword(1))>>),
    Rule(<<One("", "", "", "has"), One("b", "", "", "hover")>>,
         <<Sets("--x", Variable(6)), Sets("width", Variable(3)), Sets("margin", Calc(4)), Sets("filter", Number(2)),
           Sets("opacity", Number(1)), Sets("animation-duration", Number(1))>>),
    Rule(<<One("b", "", "before", "not"), One("a", "", "before", "first-child")>>,
         <<Sets("content", Number(5)), Sets("color", Variable(0))>>),
    Rule(<<One("", "", "", "only-child")>>,
         <<Sets("--x", Variable(0)), Sets("color", Variable(0)), Sets("width", Variable(0)), Sets("position", Variable(2)),
           Sets("filter", Number(1))>>) }

RulePages ==
  [doc : Chains,
   sheets : {<<Sheet(<<a>>, <<>>, 0, TRUE), Sheet(<<b>>, <<[query |-> {{"wide"}}, rules |-> <<c>>]>>, scope, FALSE)>> :
               a \in RulePool, b \in RulePool, c \in RulePool, scope \in {0, 3}}]

\* A node in another, each with or without dir, and a rule for neither, the outer or both that
\* declares left and left to right (0), or centre and right to left (1).
DirPages ==
  [doc : {<<Styled(0, "", "", <<>>), [Element(1, "a") EXCEPT !.dir = outer], [Element(2, "b") EXCEPT !.dir = inner]>> :
            outer \in {"", "rtl", "ltr", "auto"}, inner \in {"", "rtl", "ltr", "auto"}},
   sheets : {<<Sheet(<<Rule(<<One(tag, "", "", "")>>, <<Sets("text-align", Keyword(n)), Sets("direction", Keyword(n))>>)>>,
                     <<>>, 0, FALSE)>> : tag \in {"p", "a", ""}, n \in {0, 1}}]

MCPages == SelectorPages \cup RulePages \cup DirPages
MCHovers == {{}, {2, 3, 4}}

----------------------------------------------------------------------------
(* Layout: documents of each kind of box, with every choice of their styles. *)

\* A node with nothing set, changed in the fields given.
Plain(parent, tag) ==
  [parent |-> parent, tag |-> tag, display |-> "block", position |-> "static",
   left |-> <<>>, right |-> <<>>, top |-> <<>>, bottom |-> <<>>,
   width |-> <<>>, height |-> <<>>, min_w |-> <<>>, max_w |-> <<>>, min_h |-> <<>>, max_h |-> <<>>,
   border_box |-> FALSE, m |-> 0, e |-> 0, image |-> <<>>,
   text |-> <<>>, ellipsis |-> FALSE, line_clamp |-> <<>>,
   direction |-> "row", wrap |-> FALSE, row_gap |-> 0, col_gap |-> 0,
   justify |-> "start", align_items |-> "stretch", align_content |-> "stretch",
   order |-> 0, grow |-> 0, shrink |-> 1, basis |-> <<>>,
   subgrid |-> FALSE, areas |-> <<>>, columns |-> <<>>, auto_columns |-> <<"auto">>, dense |-> FALSE,
   place |-> [area |-> "", col |-> <<<<>>, <<>>>>, row |-> <<<<>>, <<>>>>],
   justify_self |-> "", align_self |-> "", justify_items |-> "stretch",
   colspan |-> 1, rowspan |-> 1, span |-> 1, hint |-> <<>>, fixed |-> FALSE,
   anchor_name |-> "", anchor_left |-> <<>>, anchor_right |-> <<>>, anchor_top |-> <<>>, anchor_bottom |-> <<>>]
Word(n) == [i \in 1..n |-> "w"]
TextOf(parent, t) == [Plain(parent, "#text") EXCEPT !.text = t]
Px(n) == <<"px", n>>

\* Blocks and lines of text.
BlockPages ==
  { <<Plain(0, "html"), [Plain(1, "div") EXCEPT !.e = e, !.width = w, !.max_w = maxw, !.border_box = TRUE],
       [Plain(2, "div") EXCEPT !.m = 10, !.height = h, !.min_h = <<30>>],
       TextOf(2, t), [Plain(2, "span") EXCEPT !.display = "inline"], TextOf(5, u),
       [Plain(2, "img") EXCEPT !.image = <<30, 40>>, !.display = d], TextOf(2, <<"w">>),
       [Plain(1, "div") EXCEPT !.ellipsis = el, !.line_clamp = lc], TextOf(9, t \o u), TextOf(1, <<" ">>)>> :
    e \in {0, 5}, w \in {<<>>, <<"px", 60>>, <<"%", 50>>}, maxw \in {<<>>, <<40>>},
    h \in {<<>>, <<"px", 20>>},
    t \in {<<"w">>, Word(3) \o <<" ", " ">> \o Word(3)}, u \in {<<>>, <<" ", "w", " ">> \o Word(3)},
    d \in {"inline", "block"}, el \in BOOLEAN, lc \in {<<>>, <<1>>} }

\* A flex container with three items.
FlexPages ==
  { <<Plain(0, "html"), [Plain(1, "div") EXCEPT !.display = "flex", !.direction = dir, !.wrap = wr,
         !.row_gap = 12, !.col_gap = 12, !.justify = j, !.align_items = ai, !.align_content = ac, !.height = h],
       [Plain(2, "a") EXCEPT !.grow = g, !.shrink = sh, !.basis = b, !.order = 1],
       [Plain(2, "b") EXCEPT !.grow = g, !.basis = b2], [Plain(2, "c") EXCEPT !.basis = Px(60), !.grow = g],
       TextOf(3, Word(3)), TextOf(4, <<"w">>), [Plain(5, "div") EXCEPT !.height = Px(24)], TextOf(1, Word(2))>> :
    dir \in {"row", "column"}, wr \in BOOLEAN, j \in {"start", "evenly"},
    ai \in {"stretch", "center"}, ac \in {"stretch", "around"},
    h \in {<<>>, Px(120)}, g \in {0, 1}, sh \in {0, 1}, b \in {Px(60), Px(120)}, b2 \in {Px(60), <<"%", 50>>} }

\* A grid of four items, one of them a grid itself.
Placed(area, c1, c2, r1, r2) == [area |-> area, col |-> <<c1, c2>>, row |-> <<r1, r2>>]
Anywhere == Placed("", <<>>, <<>>, <<>>, <<>>)
GridPages ==
  { <<Plain(0, "html"), [Plain(1, "div") EXCEPT !.display = "grid", !.columns = cols, !.areas = ar, !.dense = d,
         !.row_gap = 6, !.col_gap = 6, !.justify_items = "end", !.align_items = ai],
       [Plain(2, "a") EXCEPT !.place = p1], [Plain(2, "b") EXCEPT !.place = p2, !.display = sub, !.subgrid = TRUE],
       [Plain(2, "c") EXCEPT !.place = p3, !.width = Px(24)], Plain(2, "d"),
       TextOf(3, Word(3)), Plain(4, "div"), Plain(4, "div"),
       TextOf(9, <<"w">>), TextOf(5, <<"w">>), TextOf(6, <<"w">>), TextOf(1, <<"w">>)>> :
    cols \in {<<Px(60), <<"fr", 1>> >>, <<<<"auto">>, <<"minmax", Px(30), <<"fr", 1>>>>, Px(30)>>},
    ar \in {<<>>, <<<<"x", "x">>, <<"y", ".">>>>}, d \in BOOLEAN, ai \in {"start", "center"},
    p1 \in {Anywhere, Placed("x", <<>>, <<>>, <<>>, <<>>),
            Placed("", <<"line", 2>>, <<"line", 4>>, <<"line", 1>>, <<>>)},
    p2 \in {Placed("", <<>>, <<"span", 2>>, <<>>, <<>>), Placed("", <<>>, <<>>, <<>>, <<"span", 2>>)},
    p3 \in {Anywhere, Placed("", <<"name", "y">>, <<>>, <<"name", "y">>, <<>>)},
    sub \in {"block", "grid"} }

\* A table of three rows with a caption, columns and cells that span.
TablePages ==
  { <<Plain(0, "html"), [Plain(1, "table") EXCEPT !.row_gap = 6, !.col_gap = 6, !.fixed = f], Plain(2, "caption"), TextOf(3, Word(2)),
       [Plain(2, "col") EXCEPT !.hint = hn], Plain(2, "tbody"), Plain(6, "tr"), Plain(6, "tr"),
       [Plain(7, "td") EXCEPT !.rowspan = rs], [Plain(7, "td") EXCEPT !.colspan = cs], Plain(8, "td"), Plain(8, "th"),
       TextOf(9, t), TextOf(10, u), TextOf(11, <<"w">>), [Plain(12, "div") EXCEPT !.height = Px(50)],
       Plain(2, "tr"), Plain(17, "td"), TextOf(1, <<"w">>)>> :
    f \in BOOLEAN, hn \in {<<>>, <<30>>}, rs \in {1, 2}, cs \in {1, 2},
    t \in {<<"w">>, <<"w", " ", "w", " ", "w">>}, u \in {<<"w">>, Word(4)} }

\* Boxes positioned by their offsets and by an anchor.
Ref(e) == <<[name |-> "k", edge |-> e]>>
PlacedPages ==
  { <<Plain(0, "html"), [Plain(1, "div") EXCEPT !.position = pos, !.left = l, !.e = 4], TextOf(2, Word(2)),
       [Plain(1, "div") EXCEPT !.position = "absolute", !.left = l2, !.right = <<10>>, !.top = t2,
        !.width = Px(40), !.display = dd],
       Plain(4, "div"), TextOf(5, <<"w">>),
       [Plain(1, "div") EXCEPT !.anchor_name = "k"], TextOf(7, <<"w">>),
       [Plain(2, "div") EXCEPT !.position = "absolute", !.width = Px(20),
         !.anchor_left = al, !.anchor_right = Ref("start"), !.anchor_top = at, !.anchor_bottom = Ref("center")],
       TextOf(9, <<"w">>)>> :
    pos \in {"static", "relative", "absolute"}, l \in {<<>>, <<10>>}, l2 \in {<<>>, <<20>>}, t2 \in {<<>>, <<30>>},
    dd \in {"block", "flex", "grid"}, al \in {<<>>, Ref("end")}, at \in {<<>>, Ref("start")} }

MCLaidPages == {BlockPages, FlexPages, GridPages, TablePages, PlacedPages}

----------------------------------------------------------------------------
MCRole == [t |-> "text", d |-> "plain", l |-> "link", f |-> "frame", g |-> "frame"]
MCHearerParent == [a |-> "none", b |-> "a"]
MCthresholds == [o \in LayoutObserver |-> {o - 1}]

Option(duration, iterations, delay, direction, backwards) ==
  [duration |-> duration, iterations |-> iterations, delay |-> delay,
   direction |-> direction, backwards |-> backwards]
MCOptions == {Option(2, 1, 1, "reverse", FALSE), Option(1, 2, 0, "alternate", TRUE)}
MCTickOptions == {Option(1, 1, 0, "normal", FALSE)}

----------------------------------------------------------------------------
(* Forms: one of controls in the form and below it, one that is posted, with a control that
   is in no form; and a control for every pattern of a few tokens. *)

Tagged(parent, tag, attrs) == [parent |-> parent, tag |-> tag, attrs |-> attrs]

MCFormPages ==
  {<<Tagged(0, "form", "action" :> "/go"), Tagged(1, "div", <<>>),
     Tagged(2, "input", "name" :> "m" @@ "type" :> "email" @@ "required" :> ""),
     Tagged(2, "button", "name" :> "b"),
     Tagged(1, "input", "name" :> "n" @@ "type" :> "number" @@ "min" :> 1 @@ "max" :> 3 @@ "step" :> 2)>>,
   <<Tagged(0, "form", "action" :> "/go" @@ "method" :> "POST"),
     Tagged(1, "textarea", "name" :> "t" @@ "minlength" :> 2 @@ "maxlength" :> 3),
     Tagged(0, "input", "type" :> "url")>>}

MCFormTexts == {<<>>, <<"a">>, <<"http://", "a">>, <<"a", "@", "b", ".">>, <<"0">>, <<"2">>, <<"3">>, <<"4">>}
MCNumberOf == <<"0">> :> 0 @@ <<"2">> :> 2 @@ <<"3">> :> 3 @@ <<"4">> :> 4

MCMatchedPages == {<<Tagged(0, "input", "value" :> <<>>)>>}
MCMatchedTexts == UNION {[1..n -> {"a", "b"}] : n \in 0..3}
MCMatchedPatterns ==
  UNION {[1..n -> {"a", ".", "*", "+", "?"}] : n \in 1..3}
    \cup {<<a, p, b, q>> : a, b \in {"a", "."}, p, q \in {"*", "+", "?"}}

==============================================================================
