-------------------------------- MODULE Dom --------------------------------
(***************************************************************************)
(* The arena DOM (src/src/dom/mod.rs) under the JavaScript bindings that   *)
(* mutate it (src/src/js/dom.rs).                                          *)
(*                                                                         *)
(* Every node is a slot of one append-only vector and every reference is   *)
(* an index.  The arena is one record: the number of slots in use and the  *)
(* five link fields as functions over all slots of the model, the slots    *)
(* not allocated yet holding no links (alloc pushes a node without links). *)
(* Node kinds, tags, attributes and text are left out: no link depends on  *)
(* them.  An action is one binding call, which the code runs to its end    *)
(* under a single borrow of the Dom.                                       *)
(***************************************************************************)
EXTENDS Integers, FiniteSets, Sequences

CONSTANTS
  MaxNodes,       \* bound: slots the arena may grow to
  Fragments,      \* arenas html::parse may hand to the innerHTML setter
  Disciplined     \* TRUE when scripts keep off the calls of Rejected below

None == -1
NodeId == 0..(MaxNodes - 1)
Link == [NodeId -> NodeId \cup {None}]
Document == 0

Arena == [size : 1..MaxNodes, parent : Link, first_child : Link,
          last_child : Link, next_sibling : Link, prev_sibling : Link]

ASSUME SizeAssumption == MaxNodes \in Nat \ {0}
ASSUME DisciplineAssumption == Disciplined \in BOOLEAN

VARIABLE dom
vars == <<dom>>

----------------------------------------------------------------------------
(* The invariants of an arena. *)

Allocated(d) == 0..(d.size - 1)

\* The siblings that x claims to follow and to precede agree with x.
NeighboursAgree(d, x) ==
  /\ d.next_sibling[x] # None =>
       /\ d.prev_sibling[d.next_sibling[x]] = x
       /\ d.parent[d.next_sibling[x]] = d.parent[x]
  /\ d.prev_sibling[x] # None =>
       /\ d.next_sibling[d.prev_sibling[x]] = x
       /\ d.parent[d.prev_sibling[x]] = d.parent[x]
  /\ d.parent[x] = None =>
       d.next_sibling[x] = None /\ d.prev_sibling[x] = None

\* The first and last child of a parent are the children at the list's ends.
EndsAgree(d, x) ==
  /\ d.parent[x] # None =>
       /\ d.prev_sibling[x] = None => d.first_child[d.parent[x]] = x
       /\ d.next_sibling[x] = None => d.last_child[d.parent[x]] = x
  /\ d.first_child[x] # None =>
       /\ d.parent[d.first_child[x]] = x
       /\ d.prev_sibling[d.first_child[x]] = None
  /\ d.last_child[x] # None =>
       /\ d.parent[d.last_child[x]] = x
       /\ d.next_sibling[d.last_child[x]] = None
  /\ d.first_child[x] = None <=> d.last_child[x] = None

Linked(d) == \A x \in NodeId : NeighboursAgree(d, x) /\ EndsAgree(d, x)

\* A slot that was never allocated is linked to nothing.
FreshUnlinked(d) ==
  \A x \in NodeId \ Allocated(d) : d.parent[x] = None /\ d.first_child[x] = None

\* No set of nodes is closed under f: following f from any node ends.
WellFounded(f) ==
  \A S \in SUBSET NodeId : S # {} => \E x \in S : f[x] \notin S

WellFormed(d) ==
  /\ d \in Arena
  /\ Linked(d)
  /\ FreshUnlinked(d)
  /\ WellFounded(d.parent)
  /\ WellFounded(d.prev_sibling)
  /\ WellFounded(d.next_sibling)

\* The parser's output is an arena of the same kind, built by the same
\* operations.
ASSUME FragmentsAssumption == \A fr \in Fragments : WellFormed(fr)

----------------------------------------------------------------------------
(* Operations of Dom (dom/mod.rs), as functions of the arena. *)

Empty == [x \in NodeId |-> None]
New == [size |-> 1, parent |-> Empty, first_child |-> Empty,
        last_child |-> Empty, next_sibling |-> Empty, prev_sibling |-> Empty]

Alloc(d) == [d EXCEPT !.size = @ + 1]

AppendChild(d, parent, child) ==
  LET last == d.last_child[parent] IN
  [d EXCEPT
     !.parent = [@ EXCEPT ![child] = parent],
     !.prev_sibling = [@ EXCEPT ![child] = last],
     !.next_sibling = [x \in NodeId |-> IF x = last THEN child
                                        ELSE IF x = child THEN None ELSE @[x]],
     !.first_child = [x \in NodeId |-> IF x = parent /\ last = None
                                       THEN child ELSE @[x]],
     !.last_child = [@ EXCEPT ![parent] = child]]

\* Mutant of InsertBefore: the node before the reference keeps pointing at it.
InsertBeforeOneWay(d, parent, new, reference) ==
  LET prev == d.prev_sibling[reference] IN
  [d EXCEPT
     !.parent = [@ EXCEPT ![new] = parent],
     !.prev_sibling = [x \in NodeId |-> IF x = reference THEN new
                                        ELSE IF x = new THEN prev ELSE @[x]],
     !.next_sibling = [@ EXCEPT ![new] = reference],
     !.first_child = [x \in NodeId |-> IF x = parent /\ prev = None
                                       THEN new ELSE @[x]]]

InsertBefore(d, parent, new, reference) ==
  LET prev == d.prev_sibling[reference] IN
  [d EXCEPT
     !.parent = [@ EXCEPT ![new] = parent],
     !.prev_sibling = [x \in NodeId |-> IF x = reference THEN new
                                        ELSE IF x = new THEN prev ELSE @[x]],
     !.next_sibling = [x \in NodeId |-> IF x = prev THEN new
                                        ELSE IF x = new THEN reference ELSE @[x]],
     !.first_child = [x \in NodeId |-> IF x = parent /\ prev = None
                                       THEN new ELSE @[x]]]

\* Mutant of Detach: the parent's first_child is not moved on.
DetachStaleFirst(d, child) ==
  LET parent == d.parent[child]
      prev == d.prev_sibling[child]
      next == d.next_sibling[child]
  IN IF parent = None THEN d ELSE
     [d EXCEPT
        !.parent = [@ EXCEPT ![child] = None],
        !.prev_sibling = [x \in NodeId |-> IF x = child THEN None
                                           ELSE IF x = next THEN prev ELSE @[x]],
        !.next_sibling = [x \in NodeId |-> IF x = child THEN None
                                           ELSE IF x = prev THEN next ELSE @[x]],
        !.last_child = [x \in NodeId |-> IF x = parent /\ next = None
                                         THEN prev ELSE @[x]]]

Detach(d, child) ==
  LET parent == d.parent[child]
      prev == d.prev_sibling[child]
      next == d.next_sibling[child]
  IN IF parent = None THEN d ELSE
     [d EXCEPT
        !.parent = [@ EXCEPT ![child] = None],
        !.prev_sibling = [x \in NodeId |-> IF x = child THEN None
                                           ELSE IF x = next THEN prev ELSE @[x]],
        !.next_sibling = [x \in NodeId |-> IF x = child THEN None
                                           ELSE IF x = prev THEN next ELSE @[x]],
        !.first_child = [x \in NodeId |-> IF x = parent /\ prev = None
                                          THEN next ELSE @[x]],
        !.last_child = [x \in NodeId |-> IF x = parent /\ next = None
                                         THEN prev ELSE @[x]]]

\* The walk from descendant through the parents meets ancestor (inclusive).
Contains(d, ancestor, descendant) ==
  \A U \in SUBSET NodeId :
     /\ descendant \in U
     /\ \A x \in U : d.parent[x] # None => d.parent[x] \in U
     => ancestor \in U

\* What the children iterator yields: first child, then next siblings.
Children(d, parent) ==
  {c \in NodeId : \A U \in SUBSET NodeId :
     /\ d.first_child[parent] # None => d.first_child[parent] \in U
     /\ \A x \in U : d.next_sibling[x] # None => d.next_sibling[x] \in U
     => c \in U}

\* Unlink every child of parent; the slots stay, the arena never shrinks.
Unlink(d, parent) ==
  LET kids == Children(d, parent) IN
  [d EXCEPT
     !.parent = [x \in NodeId |-> IF x \in kids THEN None ELSE @[x]],
     !.prev_sibling = [x \in NodeId |-> IF x \in kids THEN None ELSE @[x]],
     !.next_sibling = [x \in NodeId |-> IF x \in kids THEN None ELSE @[x]],
     !.first_child = [@ EXCEPT ![parent] = None],
     !.last_child = [@ EXCEPT ![parent] = None]]

\* Mutant of SetTextContent: the text node is linked before it is allocated.
SetTextUnallocated(d, parent, text) ==
  LET bare == Unlink(d, parent) IN
  IF text = "" THEN bare ELSE AppendChild(bare, parent, bare.size)

SetTextContent(d, parent, text) ==
  LET bare == Unlink(d, parent) IN
  IF text = "" THEN bare ELSE AppendChild(Alloc(bare), parent, bare.size)

Subtree(d, root) == {x \in NodeId : Contains(d, root, x)}

Injective(f) == \A x, y \in DOMAIN f : f[x] = f[y] => x = y

\* The ways clone_subtree and adopt_subtree may lay out the subtree of root,
\* its copy rooted at top and the rest in the slots up to size: a slot is
\* allocated after its parent's, and after all of its earlier siblings' subtrees.
Layouts(d, src, root, top, size) ==
  LET sub == Subtree(src, root)
      slots == {top} \cup d.size..(size - 1)
  IN {f \in [sub -> slots] :
        /\ f[root] = top
        /\ Injective(f)
        /\ \A y \in slots : \E x \in sub : f[x] = y
        /\ \A x \in sub \ {root} :
             /\ f[src.parent[x]] < f[x]
             /\ src.next_sibling[x] # None =>
                  \A y \in Subtree(src, x) : f[y] < f[src.next_sibling[x]]}

Image(f, x) == IF x = None THEN None ELSE f[x]
Origin(f, y) == CHOOSE x \in DOMAIN f : f[x] = y

\* The links old, except that each node of copies has its origin's link in src,
\* carried over by f.
CopyLinks(old, link, f, copies) ==
  [y \in NodeId |-> IF y \in copies THEN Image(f, link[Origin(f, y)]) ELSE old[y]]

\* Copy the descendants of root in src onto their images under f, below f[root];
\* the arena grows to size.
Graft(d, src, root, f, size) ==
  LET copies == {f[x] : x \in DOMAIN f \ {root}}
      parents == copies \cup {f[root]}
  IN [size |-> size,
      parent |-> CopyLinks(d.parent, src.parent, f, copies),
      prev_sibling |-> CopyLinks(d.prev_sibling, src.prev_sibling, f, copies),
      next_sibling |-> CopyLinks(d.next_sibling, src.next_sibling, f, copies),
      first_child |-> CopyLinks(d.first_child, src.first_child, f, parents),
      last_child |-> CopyLinks(d.last_child, src.last_child, f, parents)]

----------------------------------------------------------------------------
(* The binding calls (js/dom.rs).  Node arguments are handles a script holds, *)
(* which name any allocated slot: handles outlive the tree position, and a    *)
(* plain object passed for a node reads as node 0, the document.              *)

\* Calls a disciplined script keeps off: re-inserting a node under itself, or
\* relative to itself.
Rejected(parent, new, reference) ==
  Contains(dom, new, parent) \/ new = reference

\* Detach a node on its way to another place.
Lift(d, node) == IF d.parent[node] # None THEN Detach(d, node) ELSE d

\* document.createElement, createTextNode, and the shallow cloneNode.
CreateNode ==
  /\ dom.size < MaxNodes
  /\ dom' = Alloc(dom)

\* Mutants of JsAppendChild: no contains guard; no detaching first.
AppendUnguarded(parent, child) ==
  dom' = AppendChild(Lift(dom, child), parent, child)
AppendWithoutDetach(parent, child) ==
  dom' = IF Contains(dom, child, parent) THEN dom
         ELSE AppendChild(dom, parent, child)

JsAppendChild(parent, child) ==
  dom' = IF Contains(dom, child, parent) THEN dom
         ELSE AppendChild(Lift(dom, child), parent, child)

JsRemoveChild(parent, child) ==
  dom' = IF dom.parent[child] = parent THEN Detach(dom, child) ELSE dom

JsInsertBefore(parent, new, reference) ==
  dom' = IF reference = None
         THEN IF Contains(dom, new, parent) THEN dom
              ELSE AppendChild(Lift(dom, new), parent, new)
         ELSE IF dom.parent[reference] # parent THEN dom
         ELSE InsertBefore(Lift(dom, new), parent, new, reference)

\* Mutant of JsReplaceChild: the new child is appended, not put in old's place.
ReplaceAtEnd(parent, new, old) ==
  dom' = IF dom.parent[old] # parent THEN dom
         ELSE Detach(AppendChild(Lift(dom, new), parent, new), old)

JsReplaceChild(parent, new, old) ==
  dom' = IF dom.parent[old] # parent THEN dom
         ELSE Detach(InsertBefore(Lift(dom, new), parent, new, old), old)

\* The textContent setter, and the selection edits that rewrite a text node.
JsSetTextContent(node, text) ==
  /\ text # "" => dom.size < MaxNodes
  /\ dom' = SetTextContent(dom, node, text)

\* cloneNode(true); the copy is a detached tree.
JsCloneDeep(node) ==
  \E size \in dom.size + 1 .. MaxNodes :
    /\ size = dom.size + Cardinality(Subtree(dom, node))
    /\ \E f \in Layouts(dom, dom, node, dom.size, size) :
         dom' = Graft(dom, dom, node, f, size)

\* The innerHTML setter: every child detached, the parsed nodes adopted.
JsSetInnerHtml(target, parsed) ==
  \E size \in dom.size..MaxNodes :
    /\ size = dom.size + Cardinality(Subtree(parsed, Document)) - 1
    /\ \E f \in Layouts(dom, parsed, Document, target, size) :
         dom' = Graft(Unlink(dom, target), parsed, Document, f, size)

Init == dom = New

Next ==
  \/ CreateNode
  \/ \E node \in Allocated(dom) :
       \/ \E text \in {"", "text"} : JsSetTextContent(node, text)
       \/ \E parsed \in Fragments : JsSetInnerHtml(node, parsed)
       \/ JsCloneDeep(node)
       \/ \E child \in Allocated(dom) :
            JsAppendChild(node, child) \/ JsRemoveChild(node, child)
       \/ \E new \in Allocated(dom), reference \in Allocated(dom) \cup {None} :
            /\ Disciplined => ~Rejected(node, new, reference)
            /\ JsInsertBefore(node, new, reference)
       \/ \E new, old \in Allocated(dom) :
            /\ Disciplined => ~Rejected(node, new, old)
            /\ JsReplaceChild(node, new, old)

Spec == Init /\ [][Next]_vars

----------------------------------------------------------------------------
(* Properties. *)

\* The arena keeps its shape, and no link indexes past the end of the vector
\* (Dom::node indexes nodes without a check).
TypeOK ==
  /\ dom \in Arena
  /\ \A x \in NodeId :
       {dom.parent[x], dom.first_child[x], dom.last_child[x],
        dom.next_sibling[x], dom.prev_sibling[x]} \subseteq Allocated(dom) \cup {None}

\* Parent, child and sibling pointers never contradict each other, whatever
\* sequence of insertions, moves, removals and copies scripts make, and nothing
\* points at a slot that was not allocated (dom/mod.rs keeps them by hand).
LinksAgree == Linked(dom) /\ FreshUnlinked(dom)

\* The children iterator yields exactly the nodes whose parent pointer names
\* the parent: no child is lost from its list, none appears in a foreign one.
ChildrenComplete ==
  \A p \in NodeId : Children(dom, p) = {c \in NodeId : dom.parent[c] = p}

\* No node is its own ancestor, so that contains and every walk up the tree
\* ends.
Acyclic == WellFounded(dom.parent)

\* No sibling list closes on itself, so that the children iterator ends.
SiblingsEnd == WellFounded(dom.prev_sibling) /\ WellFounded(dom.next_sibling)

----------------------------------------------------------------------------
(* The arena's links implement the forest of OrderedTree: the children of  *)
(* a node are what the Children iterator of dom/mod.rs yields, in order.   *)

\* The sequence the children iterator yields: first child, then next siblings.
ChildrenInOrder(d, parent) ==
  LET From[x \in NodeId \cup {None}] ==
        IF x = None THEN <<>> ELSE <<x>> \o From[d.next_sibling[x]]
  IN From[d.first_child[parent]]

Tree == INSTANCE OrderedTree WITH
          size <- dom.size,
          kids <- [p \in NodeId |-> ChildrenInOrder(dom, p)]

\* Each binding call is one operation of the forest: a moved subtree goes to
\* the position asked for, and every other child keeps its parent and its order
\* (js/dom.rs appendChild, insertBefore, replaceChild, removeChild, innerHTML,
\* textContent, cloneNode over the pointer surgery of dom/mod.rs).
ImplementsTree == Tree!Spec

----------------------------------------------------------------------------
(* The fragments the runs let scripts parse: nothing, one node, two siblings, *)
(* and a node with a child, each below the node whose children are adopted.   *)
One == AppendChild(Alloc(New), Document, 1)
Two == AppendChild(Alloc(One), Document, 2)
Nested == AppendChild(Alloc(One), 1, 2)
ParsedFragments == {New, One, Two, Nested}

============================================================================
