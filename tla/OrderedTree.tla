----------------------------- MODULE OrderedTree -----------------------------
(***************************************************************************)
(* What the DOM promises its callers: a forest in which every node has a   *)
(* sequence of children, and operations that move, remove, replace or copy *)
(* whole subtrees and leave every other child where it was.  No links.     *)
(***************************************************************************)
EXTENDS Integers, SequencesExt

CONSTANT MaxNodes      \* bound: nodes ever created

NodeId == 0..(MaxNodes - 1)

VARIABLES
  size,                \* nodes created so far
  kids                 \* the children of each node, in document order
vars == <<size, kids>>

----------------------------------------------------------------------------
Created == 0..(size - 1)
Roots == {x \in NodeId : \A p \in NodeId : ~Contains(kids[p], x)}

\* The nodes reached from root through children, root included.
Family(root) ==
  {x \in NodeId : \A U \in SUBSET NodeId :
     root \in U /\ (\A p \in U : \A k \in ToSet(kids[p]) : k \in U) => x \in U}

Position(s, k) == CHOOSE i \in DOMAIN s : s[i] = k

\* The sequences of children once node is taken out of its list.
Without(node) ==
  [p \in NodeId |-> IF Contains(kids[p], node)
                    THEN RemoveAt(kids[p], Position(kids[p], node))
                    ELSE kids[p]]

----------------------------------------------------------------------------
\* A call that is refused.
Refuse == UNCHANGED vars

Create ==
  /\ size < MaxNodes
  /\ size' = size + 1
  /\ UNCHANGED kids

\* The last child of p.
Append_(p, c) ==
  /\ UNCHANGED size
  /\ kids' = [Without(c) EXCEPT ![p] = Append(@, c)]
  /\ p \notin Family(c)

\* The child of p just before another child r.
Insert(p, c, r) ==
  /\ UNCHANGED size
  /\ kids' = [Without(c) EXCEPT ![p] = InsertAt(@, Position(@, r), c)]
  /\ p \notin Family(c)

\* c takes the place of another child r under p, and r leaves the tree.
Replace(p, c, r) ==
  /\ UNCHANGED size
  /\ kids' = [Without(c) EXCEPT ![p] = [@ EXCEPT ![Position(@, r)] = c]]
  /\ p \notin Family(c)

Remove_(c) ==
  /\ UNCHANGED size
  /\ kids' = Without(c)

\* New nodes size .. n-1 exist; only the new ones and p have new children, each
\* new node is in one list at most, and p's children are all new.
Populate(p, n) ==
  /\ size' = n
  /\ kids' \in [NodeId -> Seq(NodeId)]
  /\ \A q \in NodeId \ (size..(n - 1) \cup {p}) : kids'[q] = kids[q]
  /\ \A q \in NodeId \cap (size..(n - 1) \cup {p}) :
       /\ IsInjective(kids'[q])
       /\ ToSet(kids'[q]) \subseteq size..(n - 1)
       /\ \A k \in ToSet(kids'[q]) : k > q
       /\ \A r \in NodeId \ {q} : ToSet(kids'[q]) \cap ToSet(kids'[r]) = {}

\* A new node on top of an isomorphic copy of the family of node.
Copy(node) ==
  /\ size' \in size + 1 .. MaxNodes
  /\ LET new == size..(size' - 1)
         family == Family(node)
     IN \E f \in [family -> new] :
          /\ f[node] = size
          /\ \A y \in new : \E x \in family : f[x] = y
          /\ \A x, y \in family : f[x] = f[y] => x = y
          /\ kids' = [q \in NodeId |-> IF q \in new
                        THEN LET x == CHOOSE x \in family : f[x] = q
                             IN [i \in DOMAIN kids[x] |-> f[kids[x][i]]]
                        ELSE kids[q]]

----------------------------------------------------------------------------
Init == size = 1 /\ kids = [p \in NodeId |-> <<>>]

Next ==
  \/ Refuse \/ Create
  \/ \E c \in Created : Remove_(c) \/ Copy(c)
  \/ \E p, c \in Created : Append_(p, c)
  \/ \E p \in Created : \E r \in ToSet(kids[p]) : \E c \in Created \ {r} :
       Insert(p, c, r) \/ Replace(p, c, r)
  \/ \E p \in Created : \E n \in size..MaxNodes : Populate(p, n)

Spec == Init /\ [][Next]_vars

============================================================================
