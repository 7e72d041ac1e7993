----------------------------- MODULE HtmlParser -----------------------------
(***************************************************************************)
(* src/src/html/tokenizer.rs and tree_builder.rs: from characters to       *)
(* tokens, and from each token to the tree.  The page chooses the input    *)
(* one lexeme at a time: a punctuation mark, white space, or a whole run   *)
(* of letters (Word); "--" is one lexeme, so no "-" or "--" follows "-".   *)
(* Attribute names, values, entities and the wording of texts and comments *)
(* are left out; the states that read them are kept.                       *)
(***************************************************************************)
EXTENDS Sequences, FiniteSetsExt

CONSTANTS
    Word,       \* runs of letters: tag names, attribute names, text
    Mark,       \* the punctuation marks and white space of the input
    MaxTokens,  \* bound: tokens made from the input
    MaxRun      \* bound: lexemes read between two tokens

Bounds == {MaxTokens, MaxRun} \subseteq Nat

VARIABLE parse

document == 1
html == 2
head == 3
body == 4

Lexeme == Word \cup Mark
None == "none"
Unknown == "unknown-element"
RawTag == {"script", "style", "textarea", "title"}
HeadTag == {"title", "meta", "link", "base", "style", "script"}
is_void == {"area", "base", "br", "col", "embed", "hr", "img", "input", "link", "meta",
            "source", "track", "wbr"}
is_table_related == {"table", "tbody", "thead", "tfoot", "tr", "td", "th", "caption", "col",
                     "colgroup", "script", "style", "template"}

-----------------------------------------------------------------------------
(* The tree builder.                                                       *)

(* open is a history: the elements that were open when the node was made.  *)
Made(tag, parent, kids, open) == [tag |-> tag, parent |-> parent, kids |-> kids, open |-> open]

new ==
    [nodes |-> << Made("#document", 0, <<html>>, <<>>),
                  Made("html", document, <<head, body>>, <<document>>),
                  Made("head", html, <<>>, <<document, html>>),
                  Made("body", html, <<>>, <<document, html>>) >>,
     stack |-> <<document, html, head>>, in_head |-> TRUE]

current(t) == t.stack[Len(t.stack)]
at_head_level(t) == t.in_head /\ current(t) = head
Tag(t, n) == t.nodes[n].tag

(* A new node becomes the i-th child of parent.                            *)
InsertedAt(t, tag, parent, i) ==
    LET kids == t.nodes[parent].kids
        with == SubSeq(kids, 1, i - 1) \o <<Len(t.nodes) + 1>> \o SubSeq(kids, i, Len(kids))
    IN  [t EXCEPT !.nodes = Append([@ EXCEPT ![parent].kids = with],
                                   Made(tag, parent, <<>>, t.stack))]

Appended(t, tag, parent) == InsertedAt(t, tag, parent, Len(t.nodes[parent].kids) + 1)

move_to_body(t) == [t EXCEPT !.in_head = FALSE, !.stack = <<document, html, body>>]

(* The innermost open element with one of these tags, 0 when there is none. *)
Innermost(t, tags) == Max({0} \cup {i \in DOMAIN t.stack : Tag(t, t.stack[i]) \in tags})

is_table_insertion_mode(t) ==
    LET part == Innermost(t, {"table", "tbody", "thead", "tfoot", "tr", "colgroup"})
    IN  part > Innermost(t, {"td", "th", "caption"})

(* A misplaced element in a table goes before the innermost open table.    *)
Placed(t, tag) ==
    LET table == Innermost(t, {"table"})
        before == t.stack[table]
        parent == t.nodes[before].parent
    IN  IF ~is_table_insertion_mode(t) \/ tag \in is_table_related
        THEN Appended(t, tag, current(t))
        ELSE IF table = 0 THEN Appended(t, tag, body)
        ELSE InsertedAt(t, tag, parent,
               CHOOSE i \in DOMAIN t.nodes[parent].kids : t.nodes[parent].kids[i] = before)

Pushed(t, tag, self_closing) ==
    LET placed == Placed(t, tag)
    IN  IF tag \in is_void \/ self_closing THEN placed
        ELSE [placed EXCEPT !.stack = Append(@, Len(placed.nodes))]

handle_start(t, tag, self_closing) ==
    CASE tag = "html" -> t
      [] tag = "head" ->
            IF t.in_head THEN t ELSE [t EXCEPT !.in_head = TRUE, !.stack = <<document, html, head>>]
      [] tag = "body" -> move_to_body(t)
      [] OTHER -> Pushed(IF at_head_level(t) /\ tag \notin HeadTag THEN move_to_body(t) ELSE t,
                         tag, self_closing)

(* Closing an element closes what is open inside it.                       *)
Closed(t, i) == SubSeq(t.stack, 1, i - 1)

handle_end(t, tag) ==
    LET i == Innermost(t, {tag})
    IN  CASE tag \in {"html", "body"} -> t
          [] tag = "head" -> IF t.in_head THEN move_to_body(t) ELSE t
          [] OTHER -> IF i = 0 THEN t ELSE [t EXCEPT !.stack = Closed(t, i)]

(* Text, blank when it is white space only, and the other tokens.          *)
TextTaken(t, blank) ==
    IF ~at_head_level(t) THEN Appended(t, "#text", current(t))
    ELSE IF blank THEN t ELSE Appended(move_to_body(t), "#text", body)

process(t, token) ==
    CASE token.type = "doctype" -> InsertedAt(t, "#doctype", document, 1)
      [] token.type = "comment" -> Appended(t, "#comment", current(t))
      [] token.type = "text" -> TextTaken(t, token.blank)
      [] token.type = "start" -> handle_start(t, token.name, token.self_closing)
      [] token.type = "end" -> handle_end(t, token.name)

-----------------------------------------------------------------------------
(* The tokenizer.  char is the lexeme under the cursor.                    *)

NoTag == [name |-> None, self_closing |-> FALSE, is_end |-> FALSE]

Init ==
    parse = [state |-> "Data", char |-> None, text |-> None, tag |-> NoTag, raw |-> None,
             tokens |-> 0, run |-> 0, ended |-> FALSE, tree |-> new]

Advanced(p) == [p EXCEPT !.char = None]
Goto(p, state) == [p EXCEPT !.state = state]

Emitted(p, token) ==
    [p EXCEPT !.tree = process(@, token), !.tokens = @ + 1, !.run = 0]

flush_text(p) ==
    IF p.text = None THEN p
    ELSE [Emitted(p, [type |-> "text", blank |-> p.text = "blank"]) EXCEPT !.text = None]

(* The start tag of a raw element switches to raw text.                    *)
Raw(tag) == tag.name \in RawTag /\ ~tag.self_closing

emit_tag(p) ==
    LET tag == p.tag
        done == [p EXCEPT !.tag = NoTag, !.state = "Data"]
    IN  IF tag.is_end THEN [Emitted(done, [type |-> "end", name |-> tag.name]) EXCEPT !.raw = None]
        ELSE [Emitted(done, [type |-> "start", name |-> tag.name,
                             self_closing |-> tag.self_closing])
                EXCEPT !.raw = IF Raw(tag) THEN tag.name ELSE @]

(* text_buf: empty, white space only, or some text.                        *)
Text(p, c) == [p EXCEPT !.text = IF c = "space" /\ @ # "some" THEN "blank" ELSE "some"]

(* step: what the character under the cursor does in each state.           *)
InData(p, c) ==
    IF c = "<" THEN Goto(Advanced(flush_text(p)), "TagOpen") ELSE Advanced(Text(p, c))

TagOpen(p, c) ==
    CASE c = "/" -> Goto(Advanced(p), "EndTagOpen")
      [] c = "!" -> Goto(Advanced(p), "MarkupDeclarationOpen")
      [] c \in Word -> Goto([p EXCEPT !.tag = NoTag], "TagName")
      [] OTHER -> Goto(Text(p, "<"), "Data")

EndTagOpen(p, c) ==
    IF c \in Word THEN Goto([p EXCEPT !.tag = [NoTag EXCEPT !.is_end = TRUE]], "TagName")
    ELSE Goto(Advanced(Text(p, "</")), "Data")

Ends(p, c) == IF c = "/" THEN Goto(Advanced(p), "SelfClosingStartTag") ELSE emit_tag(Advanced(p))

TagName(p, c) ==
    CASE c = "space" -> Goto(Advanced(p), "BeforeAttributeName")
      [] c \in {"/", ">"} -> Ends(p, c)
      [] OTHER -> [Advanced(p) EXCEPT !.tag.name = IF @ = None THEN c ELSE Unknown]

BeforeAttributeName(p, c) ==
    CASE c = "space" -> Advanced(p)
      [] c \in {"/", ">"} -> Ends(p, c)
      [] OTHER -> Goto(p, "AttributeName")

AttributeName(p, c) ==
    CASE c = "space" -> Goto(Advanced(p), "AfterAttributeName")
      [] c = "=" -> Goto(Advanced(p), "BeforeAttributeValue")
      [] c \in {"/", ">"} -> Goto(p, "BeforeAttributeName")
      [] OTHER -> Advanced(p)

AfterAttributeName(p, c) ==
    CASE c = "space" -> Advanced(p)
      [] c = "=" -> Goto(Advanced(p), "BeforeAttributeValue")
      [] c \in {"/", ">"} -> Ends(p, c)
      [] OTHER -> Goto(p, "AttributeName")

BeforeAttributeValue(p, c) ==
    CASE c = "space" -> Advanced(p)
      [] c = "\"" -> Goto(Advanced(p), "AttributeValueQuoted")
      [] c = ">" -> Ends(p, c)
      [] OTHER -> Goto(p, "AttributeValueUnquoted")

(* The two quotes have a state each in the code, alike but for the quote.  *)
AttributeValueQuoted(p, c) ==
    IF c = "\"" THEN Goto(Advanced(p), "AfterAttributeValueQuoted") ELSE Advanced(p)

AttributeValueUnquoted(p, c) ==
    CASE c = "space" -> Goto(Advanced(p), "BeforeAttributeName")
      [] c = ">" -> Ends(p, c)
      [] OTHER -> Advanced(p)

AfterAttributeValueQuoted(p, c) ==
    CASE c = "space" -> Goto(Advanced(p), "BeforeAttributeName")
      [] c \in {"/", ">"} -> Ends(p, c)
      [] OTHER -> Goto(p, "BeforeAttributeName")

SelfClosingStartTag(p, c) ==
    IF c = ">" THEN emit_tag([Advanced(p) EXCEPT !.tag.self_closing = TRUE])
    ELSE Goto(p, "BeforeAttributeName")

MarkupDeclarationOpen(p, c) ==
    CASE c = "--" -> Goto(Advanced(p), "Comment")
      [] c = "doctype" -> Goto(Advanced(p), "Doctype")
      [] OTHER -> Goto(p, "BogusComment")

Comment(p, c) ==
    CASE c = "-" -> Goto(Advanced(p), "CommentEndDash")
      [] c = "--" -> Goto(Advanced(p), "CommentEnd")
      [] OTHER -> Advanced(p)

CommentEnd(p, c) ==
    CASE c = ">" -> Goto(Emitted(Advanced(p), [type |-> "comment"]), "Data")
      [] c \in {"-", "--"} -> Advanced(p)
      [] OTHER -> Goto(p, "Comment")

BogusComment(p, c) ==
    IF c = ">" THEN Goto(Emitted(Advanced(p), [type |-> "comment"]), "Data") ELSE Advanced(p)

(* The five doctype states: everything up to ">".                          *)
Doctype(p, c) ==
    IF c = ">" THEN Goto(Emitted(Advanced(p), [type |-> "doctype"]), "Data") ELSE Advanced(p)

step(p, c) ==
    CASE p.state = "Data" -> InData(p, c)
      [] p.state = "TagOpen" -> TagOpen(p, c)
      [] p.state = "EndTagOpen" -> EndTagOpen(p, c)
      [] p.state = "TagName" -> TagName(p, c)
      [] p.state = "BeforeAttributeName" -> BeforeAttributeName(p, c)
      [] p.state = "AttributeName" -> AttributeName(p, c)
      [] p.state = "AfterAttributeName" -> AfterAttributeName(p, c)
      [] p.state = "BeforeAttributeValue" -> BeforeAttributeValue(p, c)
      [] p.state = "AttributeValueQuoted" -> AttributeValueQuoted(p, c)
      [] p.state = "AttributeValueUnquoted" -> AttributeValueUnquoted(p, c)
      [] p.state = "AfterAttributeValueQuoted" -> AfterAttributeValueQuoted(p, c)
      [] p.state = "SelfClosingStartTag" -> SelfClosingStartTag(p, c)
      [] p.state = "MarkupDeclarationOpen" -> MarkupDeclarationOpen(p, c)
      [] p.state = "Comment" -> Comment(p, c)
      [] p.state = "CommentEndDash" -> Goto(p, "Comment")
      [] p.state = "CommentEnd" -> CommentEnd(p, c)
      [] p.state = "BogusComment" -> BogusComment(p, c)
      [] p.state = "Doctype" -> Doctype(p, c)

(* peek: the input's next lexeme comes under the cursor.                   *)
Peek ==
    /\ parse.char = None /\ parse.raw = None /\ ~parse.ended
    /\ parse.tokens < MaxTokens /\ parse.run < MaxRun
    /\ \E c \in Lexeme :
        /\ ~(parse.state = "CommentEndDash" /\ c \in {"-", "--"})
        /\ ~(parse.state = "TagName" /\ parse.tag.name # None /\ c \in Word)
        /\ parse' = [parse EXCEPT !.char = c, !.run = @ + 1]

Step ==
    /\ parse.char # None /\ parse.raw = None
    /\ parse' = step(parse, parse.char)

(* scan_raw_text: up to the element's end tag, or all the rest.            *)
RawText ==
    /\ parse.raw # None /\ ~parse.ended
    /\ \E some, ended \in BOOLEAN :
        LET read == IF some THEN Emitted(parse, [type |-> "text", blank |-> FALSE]) ELSE parse
            tail == IF ended THEN read ELSE Emitted(read, [type |-> "end", name |-> parse.raw])
        IN  parse' = [tail EXCEPT !.raw = None, !.ended = ended]

(* The input is over: the text read so far is the last token.              *)
EndOfInput ==
    /\ parse.char = None /\ parse.raw = None /\ ~parse.ended
    /\ parse' = [flush_text(parse) EXCEPT !.ended = TRUE]

Next == Peek \/ Step \/ RawText \/ EndOfInput

Spec == Init /\ [][Next]_parse

-----------------------------------------------------------------------------
Node(t) == 1 .. Len(t.nodes)
Ancestor(t) == [n \in Node(t) |-> t.nodes[n].parent]

(* The path from the document down to n's parent.                          *)
PathTo(t) ==
    LET path[n \in Node(t)] ==
            IF n = document THEN <<>> ELSE Append(path[t.nodes[n].parent], t.nodes[n].parent)
    IN  path

Fostered(t, n) == t.nodes[n].open # <<>> /\ t.nodes[n].parent # t.nodes[n].open[Len(t.nodes[n].open)]

TypeOK ==
    /\ parse.char \in Lexeme \cup {None} /\ parse.text \in {None, "blank", "some"}
    /\ parse.raw \in RawTag \cup {None}
    /\ parse.tokens \in 0 .. MaxTokens + 2 /\ parse.run \in 0 .. MaxRun
    /\ \A i \in DOMAIN parse.tree.stack : parse.tree.stack[i] \in Node(parse.tree)
    /\ \A n \in Node(parse.tree) : parse.tree.nodes[n].parent \in 0 .. n

(* An element contains what is written between its tags: the ancestors of  *)
(* a node are the elements that were open when it was read, outermost      *)
(* first.  Only an element misplaced in a table, and what it contains, is  *)
(* elsewhere: it stands before the table, whose parent is its parent; and  *)
(* the doctype stands first.                                               *)
EnclosedByOpen ==
    LET t == parse.tree
        path == PathTo(t)
        moved == { n \in Node(t) : Tag(t, n) = "#doctype" \/ Fostered(t, n) }
    IN  /\ \A n \in Node(t) :
            n > body /\ n \notin moved /\ Range(path[n]) \cap moved = {} =>
                path[n] = SelectSeq(t.nodes[n].open, LAMBDA m : m \notin moved)
        /\ \A n \in moved : Tag(t, n) # "#doctype" =>
            \E table \in Range(t.nodes[n].open) :
                /\ Tag(t, table) = "table" /\ t.nodes[n].parent = t.nodes[table].parent
                /\ LET kids == t.nodes[t.nodes[n].parent].kids
                   IN  \E i, j \in DOMAIN kids : i < j /\ kids[i] = n /\ kids[j] = table

(* A script, a style sheet, a title and a text area hold one text at most  *)
(* and no element: nothing in it is taken for markup, and the raw text is  *)
(* read while that element is the innermost open one.                      *)
RawHoldsText ==
    LET t == parse.tree
    IN  /\ parse.raw # None => Tag(t, current(t)) = parse.raw
        /\ \A n \in Node(t) : Tag(t, n) \in RawTag =>
            /\ Len(t.nodes[n].kids) <= 1
            /\ \A k \in Range(t.nodes[n].kids) : Tag(t, k) = "#text"
=============================================================================
