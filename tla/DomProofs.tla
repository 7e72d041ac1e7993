------------------------------ MODULE DomProofs ------------------------------
(***************************************************************************)
(* The arena invariants of Dom, proved for every arena size and every set  *)
(* of well-formed parsed fragments, and that the arena's links implement   *)
(* the forest of OrderedTree.                                              *)
(***************************************************************************)
EXTENDS Dom, TLAPS

\* None is no slot; the document is one.
LEMMA NodeIds == None \notin NodeId /\ Document \in NodeId /\ NodeId \subseteq Int
  BY SizeAssumption DEF None, NodeId, Document

\* The fields of a well-formed arena are link functions.
LEMMA ArenaFields ==
  ASSUME NEW d, d \in Arena
  PROVE  /\ d.size \in 1..MaxNodes
         /\ d.parent \in Link /\ d.first_child \in Link /\ d.last_child \in Link
         /\ d.next_sibling \in Link /\ d.prev_sibling \in Link
         /\ Allocated(d) \subseteq NodeId
  BY SizeAssumption DEF Arena, Allocated, NodeId

\* Dropping links keeps a relation well-founded.
LEMMA FewerLinks ==
  ASSUME NEW f, NEW g, WellFounded(f),
         \A x \in NodeId : g[x] = f[x] \/ g[x] = None
  PROVE  WellFounded(g)
<1> SUFFICES ASSUME NEW S \in SUBSET NodeId, S # {}
             PROVE  \E x \in S : g[x] \notin S
  BY DEF WellFounded
<1>1. PICK x \in S : f[x] \notin S
  BY DEF WellFounded
<1> QED BY <1>1, NodeIds

\* The children iterator (dom/mod.rs Children) yields exactly the nodes whose
\* parent pointer names the parent.
LEMMA ChildrenAreAll ==
  ASSUME NEW d, WellFormed(d), NEW p \in NodeId
  PROVE  Children(d, p) = {c \in NodeId : d.parent[c] = p}
<1>0. /\ d \in Arena /\ Linked(d) /\ WellFounded(d.prev_sibling)
      /\ d.parent \in Link /\ d.first_child \in Link /\ d.next_sibling \in Link
      /\ d.prev_sibling \in Link
  BY ArenaFields DEF WellFormed
<1>1. ASSUME NEW c \in NodeId, c \in Children(d, p) PROVE d.parent[c] = p
  <2> DEFINE U == {x \in NodeId : d.parent[x] = p}
  <2>1. d.first_child[p] # None => d.first_child[p] \in U
    BY <1>0 DEF Linked, EndsAgree, Link
  <2>2. \A x \in U : d.next_sibling[x] # None => d.next_sibling[x] \in U
    BY <1>0 DEF Linked, NeighboursAgree, Link
  <2>3. U \in SUBSET NodeId
    OBVIOUS
  <2>4. c \in U
    BY <1>1, <2>1, <2>2, <2>3 DEF Children
  <2> QED BY <2>4
<1>2. ASSUME NEW c \in NodeId, d.parent[c] = p PROVE c \in Children(d, p)
  <2> SUFFICES ASSUME NEW U \in SUBSET NodeId,
                      d.first_child[p] # None => d.first_child[p] \in U,
                      \A x \in U : d.next_sibling[x] # None => d.next_sibling[x] \in U,
                      c \notin U
               PROVE  FALSE
    BY DEF Children
  <2> DEFINE S == {x \in NodeId : d.parent[x] = p /\ x \notin U}
  <2>1. PICK x \in S : d.prev_sibling[x] \notin S
    BY <1>0, <1>2 DEF WellFounded
  <2>2. CASE d.prev_sibling[x] = None
    BY <2>2, <1>0, NodeIds DEF Linked, EndsAgree
  <2>3. CASE d.prev_sibling[x] # None
    <3>1. d.prev_sibling[x] \in NodeId /\ d.parent[d.prev_sibling[x]] = p
      BY <2>3, <1>0 DEF Linked, NeighboursAgree, Link
    <3>2. d.prev_sibling[x] \in U /\ d.next_sibling[d.prev_sibling[x]] = x
      BY <3>1, <2>1, <2>3, <1>0 DEF Linked, NeighboursAgree
    <3> QED BY <3>2, NodeIds
  <2> QED BY <2>2, <2>3
<1> QED BY <1>1, <1>2 DEF Children

\* Only allocated nodes have children.
LEMMA ParentsAllocated ==
  ASSUME NEW d, WellFormed(d), NEW x \in NodeId, d.parent[x] # None
  PROVE  d.parent[x] \in Allocated(d)
<1>0. /\ d \in Arena /\ FreshUnlinked(d) /\ d.parent \in Link
  BY ArenaFields DEF WellFormed
<1> DEFINE p == d.parent[x]
<1>1. p \in NodeId
  BY <1>0 DEF Link
<1>2. x \in Children(d, p)
  BY <1>1, ChildrenAreAll
<1>3. SUFFICES ASSUME d.first_child[p] = None PROVE FALSE
  BY <1>0, <1>1 DEF FreshUnlinked
<1>4. {} \in SUBSET NodeId
  OBVIOUS
<1> QED BY <1>2, <1>3, <1>4 DEF Children

----------------------------------------------------------------------------
(* Detaching a node. *)

\* Dom::detach keeps every invariant of the arena, whatever node it is given.
LEMMA DetachPreserves ==
  ASSUME NEW d, WellFormed(d), NEW c \in NodeId
  PROVE  WellFormed(Detach(d, c))
<1> DEFINE p == d.parent[c]
           pv == d.prev_sibling[c]
           nx == d.next_sibling[c]
           e == Detach(d, c)
<1>0. /\ d \in Arena /\ Linked(d) /\ FreshUnlinked(d)
      /\ WellFounded(d.parent) /\ WellFounded(d.prev_sibling)
      /\ WellFounded(d.next_sibling)
  BY DEF WellFormed
<1>1. CASE p = None
  BY <1>1 DEF Detach
<1>2. CASE p # None
  <2>t. /\ d.size \in 1..MaxNodes
        /\ d.parent \in Link /\ d.first_child \in Link /\ d.last_child \in Link
        /\ d.next_sibling \in Link /\ d.prev_sibling \in Link
        /\ p \in NodeId /\ pv \in NodeId \cup {None} /\ nx \in NodeId \cup {None}
    BY <1>0, <1>2, ArenaFields DEF Link
  <2>f. /\ e.size = d.size
        /\ e.parent = [d.parent EXCEPT ![c] = None]
        /\ e.prev_sibling = [x \in NodeId |-> IF x = c THEN None
                               ELSE IF x = nx THEN pv ELSE d.prev_sibling[x]]
        /\ e.next_sibling = [x \in NodeId |-> IF x = c THEN None
                               ELSE IF x = pv THEN nx ELSE d.next_sibling[x]]
        /\ e.first_child = [x \in NodeId |-> IF x = p /\ pv = None
                               THEN nx ELSE d.first_child[x]]
        /\ e.last_child = [x \in NodeId |-> IF x = p /\ nx = None
                               THEN pv ELSE d.last_child[x]]
    BY <1>0, <1>2 DEF Detach, Arena
  <2>g. \A y \in NodeId :
          /\ e.parent[y] = IF y = c THEN None ELSE d.parent[y]
          /\ e.prev_sibling[y] = IF y = c THEN None
                                 ELSE IF y = nx THEN pv ELSE d.prev_sibling[y]
          /\ e.next_sibling[y] = IF y = c THEN None
                                 ELSE IF y = pv THEN nx ELSE d.next_sibling[y]
          /\ e.first_child[y] = IF y = p /\ pv = None THEN nx ELSE d.first_child[y]
          /\ e.last_child[y] = IF y = p /\ nx = None THEN pv ELSE d.last_child[y]
    BY <2>t, <2>f DEF Link
  <2>a. e \in Arena
    BY <1>0, <1>2, <2>t DEF Detach, Arena, Link
  <2>n. /\ pv # None => d.parent[pv] = p /\ d.next_sibling[pv] = c
        /\ nx # None => d.parent[nx] = p /\ d.prev_sibling[nx] = c
        /\ pv # c /\ nx # c
    <3>1. /\ pv # None => d.parent[pv] = p /\ d.next_sibling[pv] = c
          /\ nx # None => d.parent[nx] = p /\ d.prev_sibling[nx] = c
      BY <1>0, <2>t DEF Linked, NeighboursAgree
    <3>2. pv # c
      <4>1. {c} \in SUBSET NodeId /\ {c} # {}
        OBVIOUS
      <4>2. PICK x \in {c} : d.prev_sibling[x] \notin {c}
        BY <1>0, <4>1 DEF WellFounded
      <4> QED BY <4>2
    <3> QED BY <3>1, <3>2, <2>t, NodeIds
  <2>1. ASSUME NEW x \in NodeId PROVE NeighboursAgree(e, x)
    <3>1. /\ NeighboursAgree(d, x) /\ NeighboursAgree(d, c)
          /\ pv # None => NeighboursAgree(d, pv)
          /\ nx # None => NeighboursAgree(d, nx)
      BY <1>0, <2>t DEF Linked
    <3> QED BY <3>1, <2>t, <2>f, <2>n, NodeIds DEF NeighboursAgree, Link
  <2>2. ASSUME NEW x \in NodeId PROVE EndsAgree(e, x)
    <3>1. /\ EndsAgree(d, x) /\ EndsAgree(d, c) /\ EndsAgree(d, p)
          /\ NeighboursAgree(d, x) /\ NeighboursAgree(d, c)
          /\ pv # None => EndsAgree(d, pv)
          /\ nx # None => EndsAgree(d, nx)
      BY <1>0, <2>t DEF Linked
    <3>2. /\ d.first_child[x] \in NodeId \cup {None} /\ d.last_child[x] \in NodeId \cup {None}
          /\ d.parent[x] \in NodeId \cup {None}
      BY <2>t DEF Link
    <3> HIDE DEF e
    <3>3. ASSUME e.parent[x] # None
          PROVE  /\ e.prev_sibling[x] = None => e.first_child[e.parent[x]] = x
                 /\ e.next_sibling[x] = None => e.last_child[e.parent[x]] = x
      <4>1. x # c /\ e.parent[x] = d.parent[x] /\ d.parent[x] \in NodeId
        BY <3>2, <3>3, <2>g
      <4>2. ASSUME e.prev_sibling[x] = None PROVE e.first_child[e.parent[x]] = x
        <5>1. (x = nx /\ pv = None) \/ (x # nx /\ d.prev_sibling[x] = None)
          BY <4>1, <4>2, <2>g
        <5>2. d.first_child[d.parent[x]] = x \/ (d.parent[x] = p /\ x = nx)
          BY <5>1, <4>1, <3>1, <2>n, NodeIds DEF EndsAgree
        <5>3. pv = None => d.first_child[p] = c
          BY <1>2, <3>1 DEF EndsAgree
        <5> QED BY <5>1, <5>2, <5>3, <4>1, <2>g, <2>t
      <4>3. ASSUME e.next_sibling[x] = None PROVE e.last_child[e.parent[x]] = x
        <5>1. (x = pv /\ nx = None) \/ (x # pv /\ d.next_sibling[x] = None)
          BY <4>1, <4>3, <2>g
        <5>2. d.last_child[d.parent[x]] = x \/ (d.parent[x] = p /\ x = pv)
          BY <5>1, <4>1, <3>1, <2>n, NodeIds DEF EndsAgree
        <5>3. nx = None => d.last_child[p] = c
          BY <1>2, <3>1 DEF EndsAgree
        <5> QED BY <5>1, <5>2, <5>3, <4>1, <2>g, <2>t
      <4> QED BY <4>2, <4>3
    <3>4. ASSUME e.first_child[x] # None
          PROVE  /\ e.parent[e.first_child[x]] = x
                 /\ e.prev_sibling[e.first_child[x]] = None
      <4>1. CASE x = p /\ pv = None
        BY <4>1, <3>4, <2>g, <2>n, <2>t
      <4>2. CASE ~(x = p /\ pv = None)
        <5> DEFINE k == d.first_child[x]
        <5>1. e.first_child[x] = k /\ k \in NodeId
          BY <4>2, <3>2, <3>4, <2>g
        <5>2. d.parent[k] = x /\ d.prev_sibling[k] = None
          BY <5>1, <3>4, <3>1 DEF EndsAgree
        <5>3. k # c
          BY <5>2, <4>2
        <5>4. k # nx
          BY <5>2, <5>1, <2>n, NodeIds
        <5> QED BY <5>1, <5>2, <5>3, <5>4, <2>g
      <4> QED BY <4>1, <4>2
    <3>5. ASSUME e.last_child[x] # None
          PROVE  /\ e.parent[e.last_child[x]] = x
                 /\ e.next_sibling[e.last_child[x]] = None
      <4>1. CASE x = p /\ nx = None
        BY <4>1, <3>5, <2>g, <2>n, <2>t
      <4>2. CASE ~(x = p /\ nx = None)
        <5> DEFINE k == d.last_child[x]
        <5>1. e.last_child[x] = k /\ k \in NodeId
          BY <4>2, <3>2, <3>5, <2>g
        <5>2. d.parent[k] = x /\ d.next_sibling[k] = None
          BY <5>1, <3>5, <3>1 DEF EndsAgree
        <5>3. k # c
          BY <5>2, <4>2
        <5>4. k # pv
          BY <5>2, <5>1, <2>n, NodeIds
        <5> QED BY <5>1, <5>2, <5>3, <5>4, <2>g
      <4> QED BY <4>1, <4>2
    <3>6. e.first_child[x] = None <=> e.last_child[x] = None
      <4>1. CASE x # p
        BY <4>1, <3>1, <2>g DEF EndsAgree
      <4>2. CASE x = p
        <5>1. /\ pv = None => d.first_child[p] = c
              /\ nx = None => d.last_child[p] = c
          BY <1>2, <3>1 DEF EndsAgree
        <5>2. d.first_child[p] = None <=> d.last_child[p] = None
          BY <3>1 DEF EndsAgree
        <5> QED BY <4>2, <5>1, <5>2, <2>g, <2>t, NodeIds
      <4> QED BY <4>1, <4>2
    <3> QED BY <3>3, <3>4, <3>5, <3>6 DEF EndsAgree
  <2>3. FreshUnlinked(e)
    <3>1. EndsAgree(d, c)
      BY <1>0 DEF Linked
    <3>2. Allocated(e) = Allocated(d)
      BY <2>f DEF Allocated
    <3>3. ASSUME NEW x \in NodeId, x \notin Allocated(d)
          PROVE  e.parent[x] = None /\ e.first_child[x] = None
      BY <3>1, <3>3, <1>0, <1>2, <2>t, <2>f, NodeIds DEF FreshUnlinked, EndsAgree, Link
    <3> QED BY <3>2, <3>3 DEF FreshUnlinked
  <2>4. WellFounded(e.parent)
    BY <1>0, <2>f, <2>t, FewerLinks DEF Link
  <2>5. WellFounded(e.prev_sibling)
    <3> SUFFICES ASSUME NEW S \in SUBSET NodeId, S # {}
                 PROVE  \E x \in S : e.prev_sibling[x] \notin S
      BY DEF WellFounded
    <3>1. CASE c \in S
      BY <3>1, <2>f, NodeIds
    <3>2. CASE c \notin S /\ nx \notin S
      <4>1. PICK x \in S : d.prev_sibling[x] \notin S
        BY <1>0 DEF WellFounded
      <4>2. e.prev_sibling[x] = d.prev_sibling[x]
        BY <3>2, <2>f
      <4> QED BY <4>1, <4>2
    <3>3. CASE c \notin S /\ nx \in S
      <4>1. PICK x \in S \cup {c} : d.prev_sibling[x] \notin S \cup {c}
        BY <1>0 DEF WellFounded
      <4>2. nx # None /\ d.prev_sibling[nx] = c
        BY <3>3, <2>n, NodeIds
      <4>3. e.prev_sibling[nx] = pv
        BY <3>3, <2>f
      <4>4. CASE x = c
        BY <4>1, <4>3, <4>4, <3>3
      <4>5. CASE x # c
        <5>1. x \in S /\ x # nx
          BY <4>1, <4>2, <4>5
        <5>2. e.prev_sibling[x] = d.prev_sibling[x]
          BY <5>1, <4>5, <2>f
        <5> QED BY <5>1, <5>2, <4>1
      <4> QED BY <4>4, <4>5
    <3> QED BY <3>1, <3>2, <3>3
  <2>6. WellFounded(e.next_sibling)
    <3> SUFFICES ASSUME NEW S \in SUBSET NodeId, S # {}
                 PROVE  \E x \in S : e.next_sibling[x] \notin S
      BY DEF WellFounded
    <3>1. CASE c \in S
      BY <3>1, <2>f, NodeIds
    <3>2. CASE c \notin S /\ pv \notin S
      <4>1. PICK x \in S : d.next_sibling[x] \notin S
        BY <1>0 DEF WellFounded
      <4>2. e.next_sibling[x] = d.next_sibling[x]
        BY <3>2, <2>f
      <4> QED BY <4>1, <4>2
    <3>3. CASE c \notin S /\ pv \in S
      <4>1. PICK x \in S \cup {c} : d.next_sibling[x] \notin S \cup {c}
        BY <1>0 DEF WellFounded
      <4>2. pv # None /\ d.next_sibling[pv] = c
        BY <3>3, <2>n, NodeIds
      <4>3. e.next_sibling[pv] = nx
        BY <3>3, <2>f
      <4>4. CASE x = c
        BY <4>1, <4>3, <4>4, <3>3
      <4>5. CASE x # c
        <5>1. x \in S /\ x # pv
          BY <4>1, <4>2, <4>5
        <5>2. e.next_sibling[x] = d.next_sibling[x]
          BY <5>1, <4>5, <2>f
        <5> QED BY <5>1, <5>2, <4>1
      <4> QED BY <4>4, <4>5
    <3> QED BY <3>1, <3>2, <3>3
  <2> QED BY <2>a, <2>1, <2>2, <2>3, <2>4, <2>5, <2>6 DEF WellFormed, Linked
<1> QED BY <1>1, <1>2, <1>0 DEF WellFormed

----------------------------------------------------------------------------
(* Linking a node that has no parent. *)

\* The walk up from descendant that contains makes meets no node outside a set
\* closed under parent.
LEMMA ContainsUp ==
  ASSUME NEW d, d.parent \in Link, NEW a \in NodeId, NEW x \in NodeId,
         d.parent[x] # None, Contains(d, a, d.parent[x])
  PROVE  Contains(d, a, x)
<1> SUFFICES ASSUME NEW U \in SUBSET NodeId, x \in U,
                    \A y \in U : d.parent[y] # None => d.parent[y] \in U
             PROVE  a \in U
  BY DEF Contains
<1>1. d.parent[x] \in U
  OBVIOUS
<1> QED BY <1>1 DEF Contains

\* contains is inclusive.
LEMMA ContainsSelf ==
  ASSUME NEW d, NEW x \in NodeId
  PROVE  Contains(d, x, x)
  BY DEF Contains

\* Hanging a parentless node c below a node p outside c's own subtree closes no
\* cycle: the guard of appendChild (js/dom.rs 1184) is what it takes.
LEMMA LinkingStaysWellFounded ==
  ASSUME NEW d, d.parent \in Link, WellFounded(d.parent),
         NEW c \in NodeId, NEW p \in NodeId, ~Contains(d, c, p)
  PROVE  WellFounded([d.parent EXCEPT ![c] = p])
<1> DEFINE g == [d.parent EXCEPT ![c] = p]
           Below == {y \in NodeId : Contains(d, c, y)}
<1> SUFFICES ASSUME NEW S \in SUBSET NodeId, S # {}
             PROVE  \E x \in S : g[x] \notin S
  BY DEF WellFounded
<1>0. /\ c \in Below /\ p \notin Below
      /\ g[c] = p /\ \A x \in NodeId : x # c => g[x] = d.parent[x]
  BY ContainsSelf DEF Link
<1>1. CASE S \subseteq Below
  <2>1. PICK x \in S : d.parent[x] \notin S
    BY DEF WellFounded
  <2>2. CASE x = c
    BY <2>2, <1>0, <1>1
  <2>3. CASE x # c
    BY <2>3, <2>1, <1>0
  <2> QED BY <2>2, <2>3
<1>2. CASE ~(S \subseteq Below)
  <2>1. PICK x \in S \ Below : d.parent[x] \notin S \ Below
    BY <1>2 DEF WellFounded
  <2>2. x # c /\ g[x] = d.parent[x]
    BY <2>1, <1>0
  <2>3. d.parent[x] \notin Below
    <3>1. CASE d.parent[x] = None
      BY <3>1, NodeIds
    <3>2. CASE d.parent[x] # None
      BY <3>2, <2>1, ContainsUp DEF Link
    <3> QED BY <3>1, <3>2
  <2> QED BY <2>1, <2>2, <2>3
<1> QED BY <1>1, <1>2

\* Dom::append_child keeps the invariants when the child has no parent and is
\* not above the new parent.
LEMMA AppendPreserves ==
  ASSUME NEW d, WellFormed(d), NEW p \in Allocated(d), NEW c \in Allocated(d),
         d.parent[c] = None, ~Contains(d, c, p)
  PROVE  WellFormed(AppendChild(d, p, c))
<1> DEFINE lt == d.last_child[p]
           e == AppendChild(d, p, c)
<1>0. /\ d \in Arena /\ Linked(d) /\ FreshUnlinked(d)
      /\ WellFounded(d.parent) /\ WellFounded(d.prev_sibling)
      /\ WellFounded(d.next_sibling)
      /\ p \in NodeId /\ c \in NodeId
  BY ArenaFields DEF WellFormed
<1>t. /\ d.size \in 1..MaxNodes
      /\ d.parent \in Link /\ d.first_child \in Link /\ d.last_child \in Link
      /\ d.next_sibling \in Link /\ d.prev_sibling \in Link
      /\ lt \in NodeId \cup {None}
  BY <1>0, ArenaFields DEF Link
<1>f. /\ e.size = d.size
      /\ e.parent = [d.parent EXCEPT ![c] = p]
      /\ e.prev_sibling = [d.prev_sibling EXCEPT ![c] = lt]
      /\ e.next_sibling = [x \in NodeId |-> IF x = lt THEN c
                             ELSE IF x = c THEN None ELSE d.next_sibling[x]]
      /\ e.first_child = [x \in NodeId |-> IF x = p /\ lt = None
                             THEN c ELSE d.first_child[x]]
      /\ e.last_child = [d.last_child EXCEPT ![p] = c]
  BY <1>0 DEF AppendChild, Arena
<1>a. e \in Arena
  BY <1>0, <1>t DEF AppendChild, Arena, Link
<1>n. /\ lt # None => d.parent[lt] = p /\ d.next_sibling[lt] = None
      /\ lt # c /\ p # c
      /\ d.next_sibling[c] = None /\ d.prev_sibling[c] = None
  BY <1>0, <1>t, NodeIds, ContainsSelf DEF Linked, NeighboursAgree, EndsAgree
<1>1. ASSUME NEW x \in NodeId PROVE NeighboursAgree(e, x)
  <2>1. /\ NeighboursAgree(d, x)
        /\ lt # None => NeighboursAgree(d, lt)
    BY <1>0, <1>t DEF Linked
  <2> QED BY <2>1, <1>0, <1>t, <1>f, <1>n, NodeIds DEF NeighboursAgree, Link
<1>2. ASSUME NEW x \in NodeId PROVE EndsAgree(e, x)
  <2>1. /\ EndsAgree(d, x) /\ EndsAgree(d, c) /\ EndsAgree(d, p)
        /\ NeighboursAgree(d, x)
        /\ lt # None => EndsAgree(d, lt)
    BY <1>0, <1>t DEF Linked
  <2> QED BY <2>1, <1>0, <1>t, <1>f, <1>n, NodeIds DEF EndsAgree, NeighboursAgree, Link
<1>3. FreshUnlinked(e)
  <2>1. Allocated(e) = Allocated(d)
    BY <1>f DEF Allocated
  <2> QED BY <2>1, <1>0, <1>t, <1>f DEF FreshUnlinked, Link
<1>4. WellFounded(e.parent)
  BY <1>0, <1>t, <1>f, LinkingStaysWellFounded
<1>5. WellFounded(e.prev_sibling)
  <2> SUFFICES ASSUME NEW S \in SUBSET NodeId, S # {}
               PROVE  \E x \in S : e.prev_sibling[x] \notin S
    BY DEF WellFounded
  <2>0. /\ e.prev_sibling[c] = lt
        /\ \A x \in NodeId : x # c => e.prev_sibling[x] = d.prev_sibling[x]
    BY <1>0, <1>f, <1>t DEF Link
  <2>1. CASE S = {c}
    BY <2>1, <2>0, <1>n
  <2>2. CASE S # {c}
    <3>0. S \ {c} \in SUBSET NodeId /\ S \ {c} # {}
      BY <2>2
    <3>1. PICK x \in S \ {c} : d.prev_sibling[x] \notin S \ {c}
      BY <3>0, <1>0 DEF WellFounded
    <3>2. NeighboursAgree(d, x)
      BY <1>0 DEF Linked
    <3>3. d.prev_sibling[x] # c
      BY <3>2, <3>1, <1>n, <1>0, NodeIds DEF NeighboursAgree
    <3> QED BY <3>1, <3>3, <2>0
  <2> QED BY <2>1, <2>2
<1>6. WellFounded(e.next_sibling)
  <2> SUFFICES ASSUME NEW S \in SUBSET NodeId, S # {}
               PROVE  \E x \in S : e.next_sibling[x] \notin S
    BY DEF WellFounded
  <2>0. /\ lt \in NodeId => e.next_sibling[lt] = c
        /\ e.next_sibling[c] = None
        /\ \A x \in NodeId : x # lt /\ x # c => e.next_sibling[x] = d.next_sibling[x]
    BY <1>0, <1>f, <1>n
  <2>1. CASE c \in S
    <3>1. None \notin S
      BY NodeIds
    <3> QED BY <2>1, <2>0, <3>1
  <2>2. CASE c \notin S /\ lt \in S
    <3>1. e.next_sibling[lt] = c
      BY <2>2, <2>0
    <3> QED BY <2>2, <3>1
  <2>3. CASE c \notin S /\ lt \notin S
    <3>1. PICK x \in S : d.next_sibling[x] \notin S
      BY <1>0 DEF WellFounded
    <3>2. e.next_sibling[x] = d.next_sibling[x]
      BY <2>3, <2>0
    <3> QED BY <3>1, <3>2
  <2> QED BY <2>1, <2>2, <2>3
<1> QED BY <1>a, <1>1, <1>2, <1>3, <1>4, <1>5, <1>6 DEF WellFormed, Linked

\* Dom::insert_before keeps the invariants when the new child has no parent, is
\* not above the new parent, and the reference is another child of the parent.
LEMMA InsertPreserves ==
  ASSUME NEW d, WellFormed(d), NEW p \in Allocated(d), NEW c \in Allocated(d),
         NEW r \in NodeId, d.parent[c] = None, d.parent[r] = p, ~Contains(d, c, p)
  PROVE  WellFormed(InsertBefore(d, p, c, r))
<1> DEFINE pv == d.prev_sibling[r]
           e == InsertBefore(d, p, c, r)
<1>0. /\ d \in Arena /\ Linked(d) /\ FreshUnlinked(d)
      /\ WellFounded(d.parent) /\ WellFounded(d.prev_sibling)
      /\ WellFounded(d.next_sibling)
      /\ p \in NodeId /\ c \in NodeId
  BY ArenaFields DEF WellFormed
<1>t. /\ d.size \in 1..MaxNodes
      /\ d.parent \in Link /\ d.first_child \in Link /\ d.last_child \in Link
      /\ d.next_sibling \in Link /\ d.prev_sibling \in Link
      /\ pv \in NodeId \cup {None}
  BY <1>0, ArenaFields DEF Link
<1>f. /\ e.size = d.size
      /\ e.parent = [d.parent EXCEPT ![c] = p]
      /\ e.prev_sibling = [x \in NodeId |-> IF x = r THEN c
                             ELSE IF x = c THEN pv ELSE d.prev_sibling[x]]
      /\ e.next_sibling = [x \in NodeId |-> IF x = pv THEN c
                             ELSE IF x = c THEN r ELSE d.next_sibling[x]]
      /\ e.first_child = [x \in NodeId |-> IF x = p /\ pv = None
                             THEN c ELSE d.first_child[x]]
      /\ e.last_child = d.last_child
  BY <1>0 DEF InsertBefore, Arena
<1>a. e \in Arena
  BY <1>0, <1>t DEF InsertBefore, Arena, Link
<1>n. /\ pv # None => d.parent[pv] = p /\ d.next_sibling[pv] = r
      /\ pv # c /\ p # c /\ r # c /\ pv # r
      /\ d.next_sibling[c] = None /\ d.prev_sibling[c] = None
  <2>1. /\ pv # None => d.parent[pv] = p /\ d.next_sibling[pv] = r
        /\ d.next_sibling[c] = None /\ d.prev_sibling[c] = None
    BY <1>0, <1>t DEF Linked, NeighboursAgree
  <2>2. p # c /\ r # c /\ pv # c
    BY <2>1, <1>0, NodeIds, ContainsSelf
  <2>3. PICK x \in {r} : d.prev_sibling[x] \notin {r}
    <3>1. {r} \in SUBSET NodeId /\ {r} # {}
      OBVIOUS
    <3> QED BY <1>0, <3>1 DEF WellFounded
  <2> QED BY <2>1, <2>2, <2>3
<1>1. ASSUME NEW x \in NodeId PROVE NeighboursAgree(e, x)
  <2>1. /\ NeighboursAgree(d, x) /\ NeighboursAgree(d, r)
        /\ pv # None => NeighboursAgree(d, pv)
    BY <1>0, <1>t DEF Linked
  <2> QED BY <2>1, <1>0, <1>t, <1>f, <1>n, NodeIds DEF NeighboursAgree, Link
<1>2. ASSUME NEW x \in NodeId PROVE EndsAgree(e, x)
  <2>1. /\ EndsAgree(d, x) /\ EndsAgree(d, c) /\ EndsAgree(d, p) /\ EndsAgree(d, r)
        /\ NeighboursAgree(d, x) /\ NeighboursAgree(d, r)
        /\ pv # None => EndsAgree(d, pv)
    BY <1>0, <1>t DEF Linked
  <2> QED BY <2>1, <1>0, <1>t, <1>f, <1>n, NodeIds DEF EndsAgree, NeighboursAgree, Link
<1>3. FreshUnlinked(e)
  <2>1. Allocated(e) = Allocated(d)
    BY <1>f DEF Allocated
  <2> QED BY <2>1, <1>0, <1>t, <1>f DEF FreshUnlinked, Link
<1>4. WellFounded(e.parent)
  BY <1>0, <1>t, <1>f, LinkingStaysWellFounded
<1>5. WellFounded(e.prev_sibling)
  <2> SUFFICES ASSUME NEW S \in SUBSET NodeId, S # {}
               PROVE  \E x \in S : e.prev_sibling[x] \notin S
    BY DEF WellFounded
  <2>0. /\ e.prev_sibling[r] = c /\ e.prev_sibling[c] = pv
        /\ \A x \in NodeId : x # r /\ x # c => e.prev_sibling[x] = d.prev_sibling[x]
    BY <1>0, <1>f, <1>n
  <2>1. CASE S = {c}
    BY <2>1, <2>0, <1>n
  <2>2. CASE S # {c}
    <3>0. S \ {c} \in SUBSET NodeId /\ S \ {c} # {}
      BY <2>2
    <3>1. PICK x \in S \ {c} : d.prev_sibling[x] \notin S \ {c}
      BY <3>0, <1>0 DEF WellFounded
    <3>2. d.prev_sibling[x] # c
      BY <3>1, <1>0, <1>n, NodeIds DEF Linked, NeighboursAgree
    <3>3. CASE x = r
      BY <3>3, <3>1, <3>2, <2>0, <1>n
    <3>4. CASE x # r
      BY <3>4, <3>1, <3>2, <2>0
    <3> QED BY <3>3, <3>4
  <2> QED BY <2>1, <2>2
<1>6. WellFounded(e.next_sibling)
  <2> SUFFICES ASSUME NEW S \in SUBSET NodeId, S # {}
               PROVE  \E x \in S : e.next_sibling[x] \notin S
    BY DEF WellFounded
  <2>0. /\ pv # None => e.next_sibling[pv] = c
        /\ e.next_sibling[c] = r
        /\ \A x \in NodeId : x # pv /\ x # c => e.next_sibling[x] = d.next_sibling[x]
    BY <1>0, <1>f, <1>n, <1>t
  <2>1. CASE S = {c}
    BY <2>1, <2>0, <1>n
  <2>2. CASE S # {c}
    <3>0. S \ {c} \in SUBSET NodeId /\ S \ {c} # {}
      BY <2>2
    <3>1. PICK x \in S \ {c} : d.next_sibling[x] \notin S \ {c}
      BY <3>0, <1>0 DEF WellFounded
    <3>2. NeighboursAgree(d, x)
      BY <1>0 DEF Linked
    <3>3. d.next_sibling[x] # c
      BY <3>2, <3>1, <1>n, <1>0, NodeIds DEF NeighboursAgree
    <3>4. CASE x = pv
      BY <3>4, <3>1, <3>3, <2>0, <1>n, NodeIds
    <3>5. CASE x # pv
      BY <3>5, <3>1, <3>3, <2>0
    <3> QED BY <3>4, <3>5
  <2> QED BY <2>1, <2>2
<1> QED BY <1>a, <1>1, <1>2, <1>3, <1>4, <1>5, <1>6 DEF WellFormed, Linked

----------------------------------------------------------------------------
(* Wiping a node's children, allocating, and grafting copies. *)

\* set_text_content's unlinking loop, and the innerHTML setter's detaching loop,
\* leave a well-formed arena in which the parent has no children.
LEMMA UnlinkPreserves ==
  ASSUME NEW d, WellFormed(d), NEW p \in NodeId
  PROVE  /\ WellFormed(Unlink(d, p))
         /\ Unlink(d, p).size = d.size
         /\ Unlink(d, p).first_child[p] = None
<1> DEFINE kids == Children(d, p)
           e == Unlink(d, p)
<1>0. /\ d \in Arena /\ Linked(d) /\ FreshUnlinked(d)
      /\ WellFounded(d.parent) /\ WellFounded(d.prev_sibling)
      /\ WellFounded(d.next_sibling)
  BY DEF WellFormed
<1>t. /\ d.size \in 1..MaxNodes
      /\ d.parent \in Link /\ d.first_child \in Link /\ d.last_child \in Link
      /\ d.next_sibling \in Link /\ d.prev_sibling \in Link
  BY <1>0, ArenaFields
<1>k. \A x \in NodeId : x \in kids <=> d.parent[x] = p
  BY ChildrenAreAll
<1>f. /\ e.size = d.size
      /\ e.parent = [x \in NodeId |-> IF x \in kids THEN None ELSE d.parent[x]]
      /\ e.prev_sibling = [x \in NodeId |-> IF x \in kids THEN None
                             ELSE d.prev_sibling[x]]
      /\ e.next_sibling = [x \in NodeId |-> IF x \in kids THEN None
                             ELSE d.next_sibling[x]]
      /\ e.first_child = [d.first_child EXCEPT ![p] = None]
      /\ e.last_child = [d.last_child EXCEPT ![p] = None]
  BY <1>0 DEF Unlink, Arena
<1>a. e \in Arena
  BY <1>0, <1>t, <1>f DEF Unlink, Arena, Link
<1>1. ASSUME NEW x \in NodeId PROVE NeighboursAgree(e, x)
  <2>1. NeighboursAgree(d, x)
    BY <1>0 DEF Linked
  <2> QED BY <2>1, <1>t, <1>f, <1>k, NodeIds DEF NeighboursAgree, Link
<1>2. ASSUME NEW x \in NodeId PROVE EndsAgree(e, x)
  <2>1. EndsAgree(d, x) /\ NeighboursAgree(d, x)
    BY <1>0 DEF Linked
  <2>2. e.parent[x] # None => e.parent[x] = d.parent[x] /\ x \notin kids /\ e.parent[x] # p
    BY <1>f, <1>k
  <2>3. e.parent[x] # None =>
          /\ e.prev_sibling[x] = None => e.first_child[e.parent[x]] = x
          /\ e.next_sibling[x] = None => e.last_child[e.parent[x]] = x
    BY <2>1, <2>2, <1>f, <1>t DEF EndsAgree, Link
  <2>4. CASE x = p
    BY <2>3, <2>4, <1>f, <1>t DEF EndsAgree, Link
  <2>5. CASE x # p
    <3>1. e.first_child[x] = d.first_child[x] /\ e.last_child[x] = d.last_child[x]
      BY <2>5, <1>f, <1>t DEF Link
    <3>2. /\ d.first_child[x] # None => d.first_child[x] \in NodeId \ kids
          /\ d.last_child[x] # None => d.last_child[x] \in NodeId \ kids
      BY <2>1, <2>5, <1>k, <1>t DEF EndsAgree, Link
    <3> QED BY <2>1, <2>3, <3>1, <3>2, <1>f DEF EndsAgree
  <2> QED BY <2>4, <2>5
<1>3. FreshUnlinked(e)
  <2>1. Allocated(e) = Allocated(d)
    BY <1>f DEF Allocated
  <2> QED BY <2>1, <1>0, <1>t, <1>f DEF FreshUnlinked, Link
<1>4. WellFounded(e.parent)
  BY <1>0, <1>f, FewerLinks
<1>5. WellFounded(e.prev_sibling) /\ WellFounded(e.next_sibling)
  BY <1>0, <1>f, FewerLinks
<1> QED BY <1>a, <1>1, <1>2, <1>3, <1>4, <1>5, <1>f, <1>t DEF WellFormed, Linked, Link

\* Dom::alloc keeps the invariants and its new slot is nobody's relative.
LEMMA AllocPreserves ==
  ASSUME NEW d, WellFormed(d), d.size < MaxNodes
  PROVE  /\ WellFormed(Alloc(d))
         /\ d.size \in Allocated(Alloc(d)) /\ Allocated(d) \subseteq Allocated(Alloc(d))
         /\ Alloc(d).parent[d.size] = None
         /\ \A p \in Allocated(d) : ~Contains(Alloc(d), d.size, p)
<1> DEFINE e == Alloc(d)
<1>0. /\ d \in Arena /\ Linked(d) /\ FreshUnlinked(d)
      /\ WellFounded(d.parent) /\ WellFounded(d.prev_sibling)
      /\ WellFounded(d.next_sibling)
  BY DEF WellFormed
<1>t. /\ d.size \in 1..MaxNodes /\ d.parent \in Link /\ d.last_child \in Link
      /\ d.first_child \in Link
  BY <1>0, ArenaFields
<1>f. /\ e.size = d.size + 1 /\ e.parent = d.parent
      /\ e.prev_sibling = d.prev_sibling /\ e.next_sibling = d.next_sibling
      /\ e.first_child = d.first_child /\ e.last_child = d.last_child
  BY <1>0 DEF Alloc, Arena
<1>a. e \in Arena
  BY <1>0, <1>t, SizeAssumption DEF Alloc, Arena
<1>1. Linked(e)
  BY <1>0, <1>f DEF Linked, NeighboursAgree, EndsAgree
<1>2. /\ d.size \in Allocated(e) /\ Allocated(d) \subseteq Allocated(e)
      /\ d.size \in NodeId \ Allocated(d)
  BY <1>t, <1>f, SizeAssumption DEF Allocated, NodeId
<1>3. FreshUnlinked(e) /\ e.parent[d.size] = None
  BY <1>0, <1>2, <1>f DEF FreshUnlinked
<1>4. ASSUME NEW p \in Allocated(d) PROVE ~Contains(e, d.size, p)
  <2> DEFINE U == Allocated(d)
  <2>1. U \in SUBSET NodeId /\ p \in U /\ d.size \notin U
    BY <1>0, <1>2, ArenaFields
  <2>2. ASSUME NEW x \in U, e.parent[x] # None PROVE e.parent[x] \in U
    BY <2>1, <2>2, <1>f, ParentsAllocated
  <2> QED BY <2>1, <2>2 DEF Contains
<1> QED BY <1>a, <1>0, <1>1, <1>2, <1>3, <1>4, <1>f DEF WellFormed

\* A node of a subtree other than its root has its parent in the subtree.
LEMMA SubtreeUp ==
  ASSUME NEW d, d.parent \in Link, NEW r \in NodeId, NEW x \in NodeId,
         Contains(d, r, x), x # r
  PROVE  d.parent[x] \in NodeId /\ Contains(d, r, d.parent[x])
<1>1. d.parent[x] # None
  <2> SUFFICES ASSUME d.parent[x] = None PROVE FALSE
    OBVIOUS
  <2>1. {x} \in SUBSET NodeId /\ \A y \in {x} : d.parent[y] # None => d.parent[y] \in {x}
    OBVIOUS
  <2> QED BY <2>1 DEF Contains
<1>2. d.parent[x] \in NodeId
  BY <1>1 DEF Link
<1>3. ASSUME NEW U \in SUBSET NodeId, d.parent[x] \in U,
             \A y \in U : d.parent[y] # None => d.parent[y] \in U
      PROVE  r \in U
  <2> DEFINE V == U \cup {x}
  <2>1. V \in SUBSET NodeId /\ \A y \in V : d.parent[y] # None => d.parent[y] \in V
    BY <1>3
  <2> QED BY <2>1 DEF Contains
<1> QED BY <1>2, <1>3 DEF Contains

\* No node has its parent below it.
LEMMA ParentNotBelow ==
  ASSUME NEW d, d.parent \in Link, WellFounded(d.parent), NEW r \in NodeId,
         d.parent[r] # None
  PROVE  ~Contains(d, r, d.parent[r])
<1> DEFINE S == {y \in NodeId : Contains(d, r, y)}
<1>1. r \in S
  BY ContainsSelf
<1>2. PICK z \in S : d.parent[z] \notin S
  BY <1>1 DEF WellFounded
<1>3. z = r
  BY <1>2, SubtreeUp
<1> QED BY <1>2, <1>3 DEF Link

\* Siblings and children of a subtree's nodes stay in it, and only its root has
\* relatives outside.
LEMMA SubtreeLinks ==
  ASSUME NEW d, WellFormed(d), NEW r \in NodeId, NEW x \in Subtree(d, r)
  PROVE  /\ x # r => /\ d.parent[x] \in Subtree(d, r)
                     /\ d.next_sibling[x] \in (Subtree(d, r) \ {r}) \cup {None}
                     /\ d.prev_sibling[x] \in (Subtree(d, r) \ {r}) \cup {None}
         /\ d.first_child[x] \in (Subtree(d, r) \ {r}) \cup {None}
         /\ d.last_child[x] \in (Subtree(d, r) \ {r}) \cup {None}
<1>0. /\ d \in Arena /\ Linked(d) /\ WellFounded(d.parent)
      /\ d.parent \in Link /\ d.first_child \in Link /\ d.last_child \in Link
      /\ d.next_sibling \in Link /\ d.prev_sibling \in Link
      /\ x \in NodeId /\ Contains(d, r, x)
  BY ArenaFields DEF WellFormed, Subtree
<1>1. ASSUME NEW y \in NodeId, NEW q \in NodeId, d.parent[y] = q, Contains(d, r, q)
      PROVE  y \in Subtree(d, r) \ {r}
  <2>1. Contains(d, r, y)
    BY <1>1, <1>0, ContainsUp, NodeIds
  <2>2. y # r
    BY <1>1, <1>0, ParentNotBelow, NodeIds
  <2> QED BY <2>1, <2>2 DEF Subtree
<1>2. NeighboursAgree(d, x) /\ EndsAgree(d, x)
  BY <1>0 DEF Linked
<1>3. ASSUME x # r PROVE d.parent[x] \in NodeId /\ Contains(d, r, d.parent[x])
  BY <1>3, <1>0, SubtreeUp
<1>4. ASSUME x # r
      PROVE  /\ d.next_sibling[x] \in (Subtree(d, r) \ {r}) \cup {None}
             /\ d.prev_sibling[x] \in (Subtree(d, r) \ {r}) \cup {None}
  <2>1. /\ d.next_sibling[x] # None => d.next_sibling[x] \in NodeId
                                       /\ d.parent[d.next_sibling[x]] = d.parent[x]
        /\ d.prev_sibling[x] # None => d.prev_sibling[x] \in NodeId
                                       /\ d.parent[d.prev_sibling[x]] = d.parent[x]
    BY <1>0, <1>2 DEF NeighboursAgree, Link
  <2> QED BY <2>1, <1>1, <1>3, <1>4
<1>5. /\ d.first_child[x] # None => d.first_child[x] \in NodeId
                                    /\ d.parent[d.first_child[x]] = x
      /\ d.last_child[x] # None => d.last_child[x] \in NodeId
                                   /\ d.parent[d.last_child[x]] = x
  BY <1>0, <1>2 DEF EndsAgree, Link
<1> QED BY <1>0, <1>1, <1>3, <1>4, <1>5 DEF Subtree

\* Nothing in a well-formed arena points at a slot not allocated, nor at a child
\* of a childless node.
LEMMA NotPointedAt ==
  ASSUME NEW d, WellFormed(d), NEW y \in NodeId
  PROVE  /\ d.parent[y] \in Allocated(d) \cup {None}
         /\ d.next_sibling[y] \in Allocated(d) \cup {None}
         /\ d.prev_sibling[y] \in Allocated(d) \cup {None}
         /\ d.first_child[y] \in Allocated(d) \cup {None}
         /\ d.last_child[y] \in Allocated(d) \cup {None}
<1>0. /\ d \in Arena /\ Linked(d) /\ FreshUnlinked(d)
      /\ d.parent \in Link /\ d.first_child \in Link /\ d.last_child \in Link
      /\ d.next_sibling \in Link /\ d.prev_sibling \in Link
  BY ArenaFields DEF WellFormed
<1>1. ASSUME NEW z \in NodeId, d.parent[z] # None PROVE z \in Allocated(d)
  BY <1>0, <1>1 DEF FreshUnlinked
<1>2. NeighboursAgree(d, y) /\ EndsAgree(d, y)
  BY <1>0 DEF Linked
<1>3. d.parent[y] \in Allocated(d) \cup {None}
  BY ParentsAllocated
<1>4. /\ d.next_sibling[y] \in Allocated(d) \cup {None}
      /\ d.prev_sibling[y] \in Allocated(d) \cup {None}
  BY <1>0, <1>1, <1>2 DEF NeighboursAgree, Link
<1>5. /\ d.first_child[y] \in Allocated(d) \cup {None}
      /\ d.last_child[y] \in Allocated(d) \cup {None}
  BY <1>0, <1>1, <1>2, NodeIds DEF EndsAgree, Link
<1> QED BY <1>3, <1>4, <1>5

\* A node without a first child is nobody's parent.
LEMMA ChildlessParent ==
  ASSUME NEW d, WellFormed(d), NEW p \in NodeId, d.first_child[p] = None,
         NEW x \in NodeId
  PROVE  d.parent[x] # p
<1> SUFFICES ASSUME d.parent[x] = p PROVE FALSE
  OBVIOUS
<1>1. x \in Children(d, p)
  BY ChildrenAreAll
<1>2. {} \in SUBSET NodeId
  OBVIOUS
<1> QED BY <1>1, <1>2 DEF Children

\* Copies: what clone_subtree and adopt_subtree write, link by link.
LEMMA CopiedLinks ==
  ASSUME NEW f, Injective(f), NEW old \in Link, NEW link,
         NEW copies, copies \subseteq {f[x] : x \in DOMAIN f}
  PROVE  LET g == CopyLinks(old, link, f, copies)
         IN /\ \A x \in DOMAIN f : f[x] \in copies /\ f[x] \in NodeId
                                     => g[f[x]] = Image(f, link[x])
            /\ \A y \in NodeId \ copies : g[y] = old[y]
<1>1. ASSUME NEW x \in DOMAIN f PROVE Origin(f, f[x]) = x
  BY DEF Origin, Injective
<1> QED BY <1>1 DEF CopyLinks

\* What Graft writes into d to make it e: the copies carry their origins' links
\* over by f, and no other link changes.
Grafted(d, s, r, top, size, f, e) ==
  LET sub == Subtree(s, r)
      copies == {f[x] : x \in DOMAIN f \ {r}} IN
  /\ DOMAIN f = sub /\ sub \subseteq NodeId /\ r \in sub
  /\ f[r] = top /\ Injective(f) /\ top \in NodeId
  /\ \A x \in sub : f[x] \in NodeId
  /\ \A x \in sub \ {r} : f[x] \in d.size..(size - 1) /\ f[x] # top
  /\ \A x, y \in sub : f[x] = f[y] => x = y
  /\ e.size = size
  /\ \A x \in sub \ {r} : /\ e.parent[f[x]] = Image(f, s.parent[x])
                          /\ e.prev_sibling[f[x]] = Image(f, s.prev_sibling[x])
                          /\ e.next_sibling[f[x]] = Image(f, s.next_sibling[x])
  /\ \A x \in sub : /\ e.first_child[f[x]] = Image(f, s.first_child[x])
                    /\ e.last_child[f[x]] = Image(f, s.last_child[x])
  /\ \A y \in NodeId \ copies : /\ e.parent[y] = d.parent[y]
                                /\ e.prev_sibling[y] = d.prev_sibling[y]
                                /\ e.next_sibling[y] = d.next_sibling[y]
  /\ \A y \in NodeId \ (copies \cup {top}) : /\ e.first_child[y] = d.first_child[y]
                                             /\ e.last_child[y] = d.last_child[y]

\* Graft does.
LEMMA GraftLinks ==
  ASSUME NEW d, WellFormed(d), NEW s, WellFormed(s), NEW r \in NodeId,
         NEW size \in d.size..MaxNodes, NEW top \in 0..(size - 1),
         NEW f \in Layouts(d, s, r, top, size)
  PROVE  Grafted(d, s, r, top, size, f, Graft(d, s, r, f, size))
<1> DEFINE sub == Subtree(s, r)
           copies == {f[x] : x \in DOMAIN f \ {r}}
           e == Graft(d, s, r, f, size)
<1>d. /\ d.size \in 1..MaxNodes /\ size \in 1..MaxNodes
      /\ d.parent \in Link /\ d.first_child \in Link /\ d.last_child \in Link
      /\ d.next_sibling \in Link /\ d.prev_sibling \in Link
  BY ArenaFields DEF WellFormed
<1>l. /\ DOMAIN f = sub /\ sub \subseteq NodeId /\ r \in sub
      /\ f[r] = top /\ Injective(f) /\ top \in NodeId
      /\ \A x \in sub : f[x] \in NodeId
      /\ \A x \in sub \ {r} : f[x] \in d.size..(size - 1) /\ f[x] # top
      /\ \A x, y \in sub : f[x] = f[y] => x = y
  <2>1. /\ f \in [sub -> {top} \cup d.size..(size - 1)] /\ f[r] = top /\ Injective(f)
    BY DEF Layouts
  <2>2. sub \subseteq NodeId /\ r \in sub
    BY ContainsSelf DEF Subtree
  <2>3. {top} \cup d.size..(size - 1) \subseteq NodeId
    BY <1>d, SizeAssumption DEF NodeId
  <2>4. \A x, y \in sub : f[x] = f[y] => x = y
    BY <2>1 DEF Injective
  <2> QED BY <2>1, <2>2, <2>3, <2>4
<1>c. \A x \in sub \ {r} : f[x] \in copies
  BY <1>l
<1>f. /\ e.size = size
      /\ e.parent = CopyLinks(d.parent, s.parent, f, copies)
      /\ e.prev_sibling = CopyLinks(d.prev_sibling, s.prev_sibling, f, copies)
      /\ e.next_sibling = CopyLinks(d.next_sibling, s.next_sibling, f, copies)
      /\ e.first_child = CopyLinks(d.first_child, s.first_child, f, copies \cup {top})
      /\ e.last_child = CopyLinks(d.last_child, s.last_child, f, copies \cup {top})
  BY <1>l DEF Graft
<1>n. /\ \A x \in sub \ {r} : /\ e.parent[f[x]] = Image(f, s.parent[x])
                              /\ e.prev_sibling[f[x]] = Image(f, s.prev_sibling[x])
                              /\ e.next_sibling[f[x]] = Image(f, s.next_sibling[x])
      /\ \A x \in sub : /\ e.first_child[f[x]] = Image(f, s.first_child[x])
                        /\ e.last_child[f[x]] = Image(f, s.last_child[x])
  <2>1. copies \subseteq {f[x] : x \in DOMAIN f}
        /\ copies \cup {top} \subseteq {f[x] : x \in DOMAIN f}
    BY <1>l
  <2>2. \A x \in sub : f[x] \in copies \cup {top}
    BY <1>l, <1>c
  <2> HIDE DEF copies
  <2>3. \A x \in sub \ {r} : f[x] \in NodeId /\ f[x] \in copies
    BY <1>l, <1>c
  <2>4. \A x \in sub \ {r} : e.parent[f[x]] = Image(f, s.parent[x])
    BY <2>1, <2>3, <1>l, <1>d, <1>f, CopiedLinks
  <2>5. \A x \in sub \ {r} : e.prev_sibling[f[x]] = Image(f, s.prev_sibling[x])
    BY <2>1, <2>3, <1>l, <1>d, <1>f, CopiedLinks
  <2>6. \A x \in sub \ {r} : e.next_sibling[f[x]] = Image(f, s.next_sibling[x])
    BY <2>1, <2>3, <1>l, <1>d, <1>f, CopiedLinks
  <2>7. \A x \in sub : e.first_child[f[x]] = Image(f, s.first_child[x])
    BY <2>1, <2>2, <1>l, <1>d, <1>f, CopiedLinks
  <2>8. \A x \in sub : e.last_child[f[x]] = Image(f, s.last_child[x])
    BY <2>1, <2>2, <1>l, <1>d, <1>f, CopiedLinks
  <2> QED BY <2>4, <2>5, <2>6, <2>7, <2>8
<1>o. /\ \A y \in NodeId \ copies : /\ e.parent[y] = d.parent[y]
                                    /\ e.prev_sibling[y] = d.prev_sibling[y]
                                    /\ e.next_sibling[y] = d.next_sibling[y]
      /\ \A y \in NodeId \ (copies \cup {top}) : /\ e.first_child[y] = d.first_child[y]
                                                 /\ e.last_child[y] = d.last_child[y]
  BY <1>f DEF CopyLinks
<1> HIDE DEF e
<1> QED BY <1>l, <1>f, <1>n, <1>o DEF Grafted, e

\* Grafting the copy of a well-formed subtree below a childless node keeps the
\* invariants: the copies form a tree of their own on fresh slots.
LEMMA GraftPreserves ==
  ASSUME NEW d, WellFormed(d), NEW s, WellFormed(s), NEW r \in NodeId,
         NEW size \in d.size..MaxNodes, NEW top \in 0..(size - 1),
         d.first_child[top] = None, NEW f \in Layouts(d, s, r, top, size)
  PROVE  WellFormed(Graft(d, s, r, f, size))
<1> DEFINE sub == Subtree(s, r)
           copies == {f[x] : x \in DOMAIN f \ {r}}
           e == Graft(d, s, r, f, size)
<1>d. /\ d \in Arena /\ Linked(d) /\ FreshUnlinked(d)
      /\ WellFounded(d.parent) /\ WellFounded(d.prev_sibling)
      /\ WellFounded(d.next_sibling)
      /\ d.size \in 1..MaxNodes /\ size \in 1..MaxNodes
      /\ d.parent \in Link /\ d.first_child \in Link /\ d.last_child \in Link
      /\ d.next_sibling \in Link /\ d.prev_sibling \in Link
  BY ArenaFields DEF WellFormed
<1>s. /\ s \in Arena /\ Linked(s)
      /\ WellFounded(s.parent) /\ WellFounded(s.prev_sibling)
      /\ WellFounded(s.next_sibling)
      /\ s.parent \in Link /\ s.first_child \in Link /\ s.last_child \in Link
      /\ s.next_sibling \in Link /\ s.prev_sibling \in Link
  BY ArenaFields DEF WellFormed
<1>g. Grafted(d, s, r, top, size, f, e)
  BY GraftLinks
<1>l. /\ DOMAIN f = sub /\ sub \subseteq NodeId /\ r \in sub
      /\ f[r] = top /\ Injective(f) /\ top \in NodeId
      /\ \A x \in sub : f[x] \in NodeId
      /\ \A x \in sub \ {r} : f[x] \in d.size..(size - 1) /\ f[x] # top
      /\ \A x, y \in sub : f[x] = f[y] => x = y
  BY <1>g DEF Grafted
<1>c. /\ copies \subseteq NodeId /\ top \notin copies
      /\ \A y \in copies : \E x \in sub \ {r} : y = f[x]
      /\ \A x \in sub \ {r} : f[x] \in copies
      /\ \A y \in copies : y \notin Allocated(d)
  BY <1>l, <1>d DEF Allocated
<1>i. /\ Image(f, None) = None
      /\ \A x \in sub : Image(f, x) = f[x] /\ f[x] # None
  BY <1>l, NodeIds DEF Image
<1>n. /\ e.size = size
      /\ \A x \in sub \ {r} : /\ e.parent[f[x]] = Image(f, s.parent[x])
                              /\ e.prev_sibling[f[x]] = Image(f, s.prev_sibling[x])
                              /\ e.next_sibling[f[x]] = Image(f, s.next_sibling[x])
      /\ \A x \in sub : /\ e.first_child[f[x]] = Image(f, s.first_child[x])
                        /\ e.last_child[f[x]] = Image(f, s.last_child[x])
      /\ \A y \in NodeId \ copies : /\ e.parent[y] = d.parent[y]
                                    /\ e.prev_sibling[y] = d.prev_sibling[y]
                                    /\ e.next_sibling[y] = d.next_sibling[y]
      /\ \A y \in NodeId \ (copies \cup {top}) : /\ e.first_child[y] = d.first_child[y]
                                                 /\ e.last_child[y] = d.last_child[y]
  BY <1>g DEF Grafted
<1>x. \A x \in sub :
        /\ x # r => /\ s.parent[x] \in sub
                    /\ s.next_sibling[x] \in (sub \ {r}) \cup {None}
                    /\ s.prev_sibling[x] \in (sub \ {r}) \cup {None}
        /\ s.first_child[x] \in (sub \ {r}) \cup {None}
        /\ s.last_child[x] \in (sub \ {r}) \cup {None}
  BY SubtreeLinks
<1>p. \A y \in NodeId : /\ d.parent[y] \in (NodeId \ (copies \cup {top})) \cup {None}
                        /\ d.next_sibling[y] \in (NodeId \ copies) \cup {None}
                        /\ d.prev_sibling[y] \in (NodeId \ copies) \cup {None}
                        /\ d.first_child[y] \in (NodeId \ copies) \cup {None}
                        /\ d.last_child[y] \in (NodeId \ copies) \cup {None}
  <2> TAKE y \in NodeId
  <2>1. Allocated(d) \subseteq NodeId \ copies
    BY <1>c, <1>d, ArenaFields
  <2>2. d.parent[y] # top
    BY <1>l, ChildlessParent
  <2> HIDE DEF copies
  <2> QED BY <2>1, <2>2, NotPointedAt
<1> HIDE DEF copies, sub, e
<1>a. e \in Arena
  <2>1. \A y \in NodeId : /\ e.parent[y] \in NodeId \cup {None}
                          /\ e.prev_sibling[y] \in NodeId \cup {None}
                          /\ e.next_sibling[y] \in NodeId \cup {None}
    <3> TAKE y \in NodeId
    <3>1. CASE y \in copies
      <4>1. PICK x \in sub \ {r} : y = f[x]
        BY <3>1, <1>c
      <4> QED BY <4>1, <1>n, <1>x, <1>i, <1>l
    <3>2. CASE y \notin copies
      BY <3>2, <1>n, <1>d DEF Link
    <3> QED BY <3>1, <3>2
  <2>2. \A y \in NodeId : /\ e.first_child[y] \in NodeId \cup {None}
                          /\ e.last_child[y] \in NodeId \cup {None}
    <3> TAKE y \in NodeId
    <3>1. CASE y \in copies \cup {top}
      <4>1. PICK x \in sub : y = f[x]
        BY <3>1, <1>c, <1>l
      <4> QED BY <4>1, <1>n, <1>x, <1>i, <1>l
    <3>2. CASE y \notin copies \cup {top}
      BY <3>2, <1>n, <1>d DEF Link
    <3> QED BY <3>1, <3>2
  <2>3. /\ e.parent \in Link /\ e.first_child \in Link /\ e.last_child \in Link
        /\ e.next_sibling \in Link /\ e.prev_sibling \in Link
    <3>1. /\ e.parent = CopyLinks(d.parent, s.parent, f, copies)
          /\ e.prev_sibling = CopyLinks(d.prev_sibling, s.prev_sibling, f, copies)
          /\ e.next_sibling = CopyLinks(d.next_sibling, s.next_sibling, f, copies)
          /\ e.first_child = CopyLinks(d.first_child, s.first_child, f, copies \cup {top})
          /\ e.last_child = CopyLinks(d.last_child, s.last_child, f, copies \cup {top})
      BY <1>l DEF Graft, e, copies
    <3> QED BY <2>1, <2>2, <3>1 DEF CopyLinks, Link
  <2> QED BY <2>3, <1>d DEF Arena, Graft, e
<1>1. ASSUME NEW y \in NodeId PROVE NeighboursAgree(e, y)
  <2>1. CASE y \in copies
    <3>1. PICK x \in sub \ {r} : y = f[x]
      BY <2>1, <1>c
    <3>2. NeighboursAgree(s, x) /\ x \in NodeId
      BY <1>s, <1>l DEF Linked
    <3>3. /\ s.parent[x] \in sub /\ e.parent[y] = f[s.parent[x]] /\ e.parent[y] # None
      BY <3>1, <1>n, <1>x, <1>i
    <3>4. ASSUME e.next_sibling[y] # None
          PROVE  /\ e.prev_sibling[e.next_sibling[y]] = y
                 /\ e.parent[e.next_sibling[y]] = e.parent[y]
      <4> DEFINE k == s.next_sibling[x]
      <4>1. k \in sub \ {r} /\ e.next_sibling[y] = f[k]
        BY <3>1, <3>4, <1>n, <1>x, <1>i
      <4>2. k # None
        BY <4>1, <1>l, NodeIds
      <4>3. s.prev_sibling[k] = x /\ s.parent[k] = s.parent[x]
        BY <4>2, <3>2 DEF NeighboursAgree
      <4>4. e.prev_sibling[f[k]] = f[x] /\ e.parent[f[k]] = f[s.parent[x]]
        BY <4>1, <4>3, <3>1, <3>3, <1>n, <1>i
      <4> QED BY <4>1, <4>4, <3>1, <3>3
    <3>5. ASSUME e.prev_sibling[y] # None
          PROVE  /\ e.next_sibling[e.prev_sibling[y]] = y
                 /\ e.parent[e.prev_sibling[y]] = e.parent[y]
      <4> DEFINE k == s.prev_sibling[x]
      <4>1. k \in sub \ {r} /\ e.prev_sibling[y] = f[k]
        BY <3>1, <3>5, <1>n, <1>x, <1>i
      <4>2. k # None
        BY <4>1, <1>l, NodeIds
      <4>3. s.next_sibling[k] = x /\ s.parent[k] = s.parent[x]
        BY <4>2, <3>2 DEF NeighboursAgree
      <4>4. e.next_sibling[f[k]] = f[x] /\ e.parent[f[k]] = f[s.parent[x]]
        BY <4>1, <4>3, <3>1, <3>3, <1>n, <1>i
      <4> QED BY <4>1, <4>4, <3>1, <3>3
    <3> QED BY <3>3, <3>4, <3>5 DEF NeighboursAgree
  <2>2. CASE y \notin copies
    <3>1. NeighboursAgree(d, y)
      BY <1>d DEF Linked
    <3>2. /\ e.parent[y] = d.parent[y] /\ e.next_sibling[y] = d.next_sibling[y]
          /\ e.prev_sibling[y] = d.prev_sibling[y]
      BY <2>2, <1>n
    <3>3. \A z \in (NodeId \ copies) : /\ e.parent[z] = d.parent[z]
                                       /\ e.next_sibling[z] = d.next_sibling[z]
                                       /\ e.prev_sibling[z] = d.prev_sibling[z]
      BY <1>n
    <3>4. /\ d.next_sibling[y] # None => d.next_sibling[y] \in NodeId \ copies
          /\ d.prev_sibling[y] # None => d.prev_sibling[y] \in NodeId \ copies
      BY <1>p
    <3> QED BY <3>1, <3>2, <3>3, <3>4 DEF NeighboursAgree
  <2> QED BY <2>1, <2>2
<1>2. ASSUME NEW y \in NodeId PROVE EndsAgree(e, y)
  <2>1. e.parent[y] # None =>
          /\ e.prev_sibling[y] = None => e.first_child[e.parent[y]] = y
          /\ e.next_sibling[y] = None => e.last_child[e.parent[y]] = y
    <3>1. CASE y \in copies
      <4>1. PICK x \in sub \ {r} : y = f[x]
        BY <3>1, <1>c
      <4>2. EndsAgree(s, x) /\ x \in NodeId
        BY <1>s, <1>l DEF Linked
      <4>3. /\ s.parent[x] \in sub /\ s.parent[x] # None /\ e.parent[y] = f[s.parent[x]]
        <5>1. e.parent[y] = Image(f, s.parent[x])
          BY <4>1, <1>n
        <5>2. s.parent[x] \in sub /\ Image(f, s.parent[x]) = f[s.parent[x]]
          BY <4>1, <1>x, <1>i
        <5>3. s.parent[x] # None
          BY <5>2, <1>l, NodeIds
        <5> QED BY <5>1, <5>2, <5>3
      <4>4. /\ e.prev_sibling[y] = None => s.prev_sibling[x] = None
            /\ e.next_sibling[y] = None => s.next_sibling[x] = None
        BY <4>1, <1>n, <1>x, <1>i
      <4> QED BY <4>1, <4>2, <4>3, <4>4, <1>n, <1>i DEF EndsAgree
    <3>2. CASE y \notin copies
      <4>1. EndsAgree(d, y)
        BY <1>d DEF Linked
      <4> QED BY <3>2, <4>1, <1>n, <1>p DEF EndsAgree
    <3> QED BY <3>1, <3>2
  <2>2. /\ e.first_child[y] # None =>
             /\ e.parent[e.first_child[y]] = y
             /\ e.prev_sibling[e.first_child[y]] = None
        /\ e.last_child[y] # None =>
             /\ e.parent[e.last_child[y]] = y
             /\ e.next_sibling[e.last_child[y]] = None
        /\ e.first_child[y] = None <=> e.last_child[y] = None
    <3>1. CASE y \in copies \cup {top}
      <4>1. PICK x \in sub : y = f[x]
        BY <3>1, <1>c, <1>l
      <4>2. EndsAgree(s, x) /\ x \in NodeId
        BY <1>s, <1>l DEF Linked
      <4>3. /\ e.first_child[y] = Image(f, s.first_child[x])
            /\ e.last_child[y] = Image(f, s.last_child[x])
            /\ s.first_child[x] \in (sub \ {r}) \cup {None}
            /\ s.last_child[x] \in (sub \ {r}) \cup {None}
        BY <4>1, <1>n, <1>x
      <4>4. ASSUME s.first_child[x] # None
            PROVE  /\ e.first_child[y] # None
                   /\ e.parent[e.first_child[y]] = y
                   /\ e.prev_sibling[e.first_child[y]] = None
        BY <4>1, <4>2, <4>3, <4>4, <1>n, <1>i DEF EndsAgree
      <4>5. ASSUME s.last_child[x] # None
            PROVE  /\ e.last_child[y] # None
                   /\ e.parent[e.last_child[y]] = y
                   /\ e.next_sibling[e.last_child[y]] = None
        BY <4>1, <4>2, <4>3, <4>5, <1>n, <1>i DEF EndsAgree
      <4>6. s.first_child[x] = None <=> s.last_child[x] = None
        BY <4>2 DEF EndsAgree
      <4> QED BY <4>3, <4>4, <4>5, <4>6, <1>i
    <3>2. CASE y \notin copies \cup {top}
      <4>1. EndsAgree(d, y)
        BY <1>d DEF Linked
      <4>2. /\ d.first_child[y] # None => d.first_child[y] \in NodeId \ copies
            /\ d.last_child[y] # None => d.last_child[y] \in NodeId \ copies
        BY <1>p
      <4>3. e.first_child[y] = d.first_child[y] /\ e.last_child[y] = d.last_child[y]
        BY <3>2, <1>n
      <4>4. /\ d.first_child[y] # None =>
                 /\ e.parent[d.first_child[y]] = d.parent[d.first_child[y]]
                 /\ e.prev_sibling[d.first_child[y]] = d.prev_sibling[d.first_child[y]]
            /\ d.last_child[y] # None =>
                 /\ e.parent[d.last_child[y]] = d.parent[d.last_child[y]]
                 /\ e.next_sibling[d.last_child[y]] = d.next_sibling[d.last_child[y]]
        BY <4>2, <1>n
      <4> QED BY <4>1, <4>3, <4>4 DEF EndsAgree
    <3> QED BY <3>1, <3>2
  <2> QED BY <2>1, <2>2 DEF EndsAgree
<1>3. FreshUnlinked(e)
  <2>1. Allocated(d) \subseteq Allocated(e) /\ top \in Allocated(e)
        /\ copies \subseteq Allocated(e)
    <3>1. e.size = size
      BY <1>n
    <3> QED BY <3>1, <1>d, <1>c, <1>l DEF Allocated
  <2>2. ASSUME NEW y \in NodeId, y \notin Allocated(e)
        PROVE  e.parent[y] = None /\ e.first_child[y] = None
    <3>1. y \notin copies /\ y # top /\ y \notin Allocated(d)
      BY <2>1, <2>2
    <3>2. e.parent[y] = d.parent[y] /\ e.first_child[y] = d.first_child[y]
      BY <3>1, <1>n
    <3> QED BY <3>1, <3>2, <1>d DEF FreshUnlinked
  <2> QED BY <2>2 DEF FreshUnlinked
<1>4. WellFounded(e.parent)
  <2> SUFFICES ASSUME NEW S \in SUBSET NodeId, S # {}
               PROVE  \E y \in S : e.parent[y] \notin S
    BY DEF WellFounded
  <2>1. CASE S \subseteq copies
    <3> DEFINE T == {x \in sub \ {r} : f[x] \in S}
    <3>0. PICK y \in S, z \in sub \ {r} : y = f[z]
      BY <2>1, <1>c
    <3>1. T \in SUBSET NodeId /\ T # {}
      BY <3>0, <1>l
    <3>2. PICK x \in T : s.parent[x] \notin T
      BY <3>1, <1>s DEF WellFounded
    <3>3. s.parent[x] \in sub /\ e.parent[f[x]] = f[s.parent[x]]
      BY <3>2, <1>n, <1>x, <1>i
    <3>4. f[s.parent[x]] \notin S
      BY <3>2, <3>3, <2>1, <1>c, <1>l
    <3> QED BY <3>2, <3>3, <3>4
  <2>2. CASE ~(S \subseteq copies)
    <3>0. S \ copies \in SUBSET NodeId /\ S \ copies # {}
      BY <2>2
    <3>1. PICK y \in S \ copies : d.parent[y] \notin S \ copies
      BY <3>0, <1>d DEF WellFounded
    <3>2. e.parent[y] = d.parent[y]
      BY <3>1, <1>n
    <3>3. d.parent[y] \notin S
      <4>1. d.parent[y] \in (NodeId \ copies) \cup {None}
        BY <3>1, <1>p
      <4> QED BY <4>1, <3>1, NodeIds
    <3> QED BY <3>1, <3>2, <3>3
  <2> QED BY <2>1, <2>2
<1>5. WellFounded(e.prev_sibling)
  <2> SUFFICES ASSUME NEW S \in SUBSET NodeId, S # {}
               PROVE  \E y \in S : e.prev_sibling[y] \notin S
    BY DEF WellFounded
  <2>1. CASE S \subseteq copies
    <3> DEFINE T == {x \in sub \ {r} : f[x] \in S}
    <3>0. PICK y \in S, z \in sub \ {r} : y = f[z]
      BY <2>1, <1>c
    <3>1. T \in SUBSET NodeId /\ T # {}
      BY <3>0, <1>l
    <3>2. PICK x \in T : s.prev_sibling[x] \notin T
      BY <3>1, <1>s DEF WellFounded
    <3>3. /\ s.prev_sibling[x] \in (sub \ {r}) \cup {None}
          /\ e.prev_sibling[f[x]] = Image(f, s.prev_sibling[x])
      BY <3>2, <1>n, <1>x
    <3>4. Image(f, s.prev_sibling[x]) \notin S
      BY <3>2, <3>3, <1>i, NodeIds
    <3> QED BY <3>2, <3>3, <3>4
  <2>2. CASE ~(S \subseteq copies)
    <3>0. S \ copies \in SUBSET NodeId /\ S \ copies # {}
      BY <2>2
    <3>1. PICK y \in S \ copies : d.prev_sibling[y] \notin S \ copies
      BY <3>0, <1>d DEF WellFounded
    <3>2. e.prev_sibling[y] = d.prev_sibling[y]
      BY <3>1, <1>n
    <3>3. d.prev_sibling[y] \notin S
      <4>1. d.prev_sibling[y] \in (NodeId \ copies) \cup {None}
        BY <3>1, <1>p
      <4> QED BY <4>1, <3>1, NodeIds
    <3> QED BY <3>1, <3>2, <3>3
  <2> QED BY <2>1, <2>2
<1>6. WellFounded(e.next_sibling)
  <2> SUFFICES ASSUME NEW S \in SUBSET NodeId, S # {}
               PROVE  \E y \in S : e.next_sibling[y] \notin S
    BY DEF WellFounded
  <2>1. CASE S \subseteq copies
    <3> DEFINE T == {x \in sub \ {r} : f[x] \in S}
    <3>0. PICK y \in S, z \in sub \ {r} : y = f[z]
      BY <2>1, <1>c
    <3>1. T \in SUBSET NodeId /\ T # {}
      BY <3>0, <1>l
    <3>2. PICK x \in T : s.next_sibling[x] \notin T
      BY <3>1, <1>s DEF WellFounded
    <3>3. /\ s.next_sibling[x] \in (sub \ {r}) \cup {None}
          /\ e.next_sibling[f[x]] = Image(f, s.next_sibling[x])
      BY <3>2, <1>n, <1>x
    <3>4. Image(f, s.next_sibling[x]) \notin S
      BY <3>2, <3>3, <1>i, NodeIds
    <3> QED BY <3>2, <3>3, <3>4
  <2>2. CASE ~(S \subseteq copies)
    <3>0. S \ copies \in SUBSET NodeId /\ S \ copies # {}
      BY <2>2
    <3>1. PICK y \in S \ copies : d.next_sibling[y] \notin S \ copies
      BY <3>0, <1>d DEF WellFounded
    <3>2. e.next_sibling[y] = d.next_sibling[y]
      BY <3>1, <1>n
    <3>3. d.next_sibling[y] \notin S
      <4>1. d.next_sibling[y] \in (NodeId \ copies) \cup {None}
        BY <3>1, <1>p
      <4> QED BY <4>1, <3>1, NodeIds
    <3> QED BY <3>1, <3>2, <3>3
  <2> QED BY <2>1, <2>2
<1> QED BY <1>a, <1>1, <1>2, <1>3, <1>4, <1>5, <1>6 DEF WellFormed, Linked, e

----------------------------------------------------------------------------
(* The binding calls. *)

\* Detaching takes nothing out of the set of nodes above a node.
LEMMA LiftFacts ==
  ASSUME NEW d, WellFormed(d), NEW c \in NodeId
  PROVE  /\ WellFormed(Lift(d, c))
         /\ Lift(d, c).size = d.size
         /\ Lift(d, c).parent = [d.parent EXCEPT ![c] = None]
         /\ \A p \in NodeId : ~Contains(d, c, p) => ~Contains(Lift(d, c), c, p)
<1> DEFINE e == Lift(d, c)
<1>1. WellFormed(e)
  BY DetachPreserves DEF Lift
<1>2. d \in Arena /\ d.parent \in Link
  BY ArenaFields DEF WellFormed
<1>3. e.size = d.size /\ e.parent = [d.parent EXCEPT ![c] = None]
  <2>1. CASE d.parent[c] = None
    BY <2>1, <1>2 DEF Lift, Link
  <2>2. CASE d.parent[c] # None
    BY <2>2, <1>2 DEF Lift, Detach, Arena
  <2> QED BY <2>1, <2>2
<1>4. ASSUME NEW p \in NodeId, Contains(e, c, p) PROVE Contains(d, c, p)
  <2> SUFFICES ASSUME NEW U \in SUBSET NodeId, p \in U,
                      \A y \in U : d.parent[y] # None => d.parent[y] \in U
               PROVE  c \in U
    BY DEF Contains
  <2>1. \A y \in U : e.parent[y] # None => e.parent[y] \in U
    BY <1>2, <1>3 DEF Link
  <2> QED BY <2>1, <1>4 DEF Contains
<1> QED BY <1>1, <1>3, <1>4

\* What appendChild does once its contains guard has passed.
LEMMA MoveToEnd ==
  ASSUME NEW d, WellFormed(d), NEW p \in Allocated(d), NEW c \in Allocated(d),
         ~Contains(d, c, p)
  PROVE  WellFormed(AppendChild(Lift(d, c), p, c))
<1>1. p \in NodeId /\ c \in NodeId /\ d.parent \in Link
  BY ArenaFields DEF WellFormed
<1>2. Allocated(Lift(d, c)) = Allocated(d)
  BY <1>1, LiftFacts DEF Allocated
<1>3. Lift(d, c).parent[c] = None
  <2>1. Lift(d, c).parent = [d.parent EXCEPT ![c] = None]
    BY <1>1, LiftFacts
  <2> QED BY <2>1, <1>1 DEF Link
<1> QED BY <1>1, <1>2, <1>3, LiftFacts, AppendPreserves

\* What insertBefore does once its reference has been found under the parent.
LEMMA MoveBefore ==
  ASSUME NEW d, WellFormed(d), NEW p \in Allocated(d), NEW c \in Allocated(d),
         NEW r \in NodeId, d.parent[r] = p, c # r, ~Contains(d, c, p)
  PROVE  WellFormed(InsertBefore(Lift(d, c), p, c, r))
<1>1. p \in NodeId /\ c \in NodeId /\ d.parent \in Link
  BY ArenaFields DEF WellFormed
<1>2. Allocated(Lift(d, c)) = Allocated(d)
  BY <1>1, LiftFacts DEF Allocated
<1>3. Lift(d, c).parent[c] = None /\ Lift(d, c).parent[r] = p
  <2>1. Lift(d, c).parent = [d.parent EXCEPT ![c] = None]
    BY <1>1, LiftFacts
  <2> QED BY <2>1, <1>1 DEF Link
<1> QED BY <1>1, <1>2, <1>3, LiftFacts, InsertPreserves

\* An arena with the document alone is well formed.
LEMMA NewWellFormed == WellFormed(New)
<1>1. New \in Arena
  BY SizeAssumption DEF New, Arena, Empty, Link
<1>2. Linked(New) /\ FreshUnlinked(New)
  BY DEF New, Empty, Linked, NeighboursAgree, EndsAgree, FreshUnlinked
<1>3. WellFounded(Empty)
  BY NodeIds DEF WellFounded, Empty
<1> QED BY <1>1, <1>2, <1>3 DEF WellFormed, New

\* One step of a disciplined script keeps the arena well formed.
LEMMA StepPreserves ==
  ASSUME Disciplined, WellFormed(dom), [Next]_vars
  PROVE  WellFormed(dom')
<1>t. dom \in Arena /\ dom.size \in 1..MaxNodes /\ Allocated(dom) \subseteq NodeId
  BY ArenaFields DEF WellFormed
<1>1. CASE CreateNode
  BY <1>1, AllocPreserves DEF CreateNode
<1>2. ASSUME NEW node \in Allocated(dom), NEW text \in {"", "text"},
             JsSetTextContent(node, text)
      PROVE  WellFormed(dom')
  <2> DEFINE bare == Unlink(dom, node)
  <2>1. WellFormed(bare) /\ bare.size = dom.size /\ bare.first_child[node] = None
    BY <1>t, UnlinkPreserves
  <2>2. CASE text = ""
    BY <2>1, <2>2, <1>2 DEF JsSetTextContent, SetTextContent
  <2>3. CASE text # ""
    <3>1. bare.size < MaxNodes /\ node \in Allocated(bare)
      BY <2>1, <2>3, <1>2 DEF JsSetTextContent, Allocated
    <3> HIDE DEF bare
    <3>2. WellFormed(AppendChild(Alloc(bare), node, bare.size))
      BY <3>1, <2>1, AllocPreserves, AppendPreserves
    <3> QED BY <3>2, <2>3, <1>2 DEF JsSetTextContent, SetTextContent, bare
  <2> QED BY <2>2, <2>3
<1>3. ASSUME NEW node \in Allocated(dom), NEW parsed \in Fragments,
             JsSetInnerHtml(node, parsed)
      PROVE  WellFormed(dom')
  <2> DEFINE bare == Unlink(dom, node)
  <2>1. WellFormed(bare) /\ bare.size = dom.size /\ bare.first_child[node] = None
    BY <1>t, UnlinkPreserves
  <2>2. WellFormed(parsed)
    BY FragmentsAssumption
  <2>a. PICK size \in dom.size..MaxNodes :
               \E f \in Layouts(dom, parsed, Document, node, size) :
                 dom' = Graft(bare, parsed, Document, f, size)
    BY <1>3 DEF JsSetInnerHtml
  <2>3. PICK f \in Layouts(dom, parsed, Document, node, size) :
               dom' = Graft(bare, parsed, Document, f, size)
    BY <2>a
  <2>4. f \in Layouts(bare, parsed, Document, node, size)
    BY <2>1, <2>3 DEF Layouts
  <2>5. node \in 0..(size - 1) /\ size \in bare.size..MaxNodes
    BY <2>1, <1>t DEF Allocated
  <2> HIDE DEF bare
  <2> QED BY <2>1, <2>2, <2>3, <2>4, <2>5, NodeIds, GraftPreserves
<1>4. ASSUME NEW node \in Allocated(dom), JsCloneDeep(node)
      PROVE  WellFormed(dom')
  <2>a. PICK size \in dom.size + 1 .. MaxNodes :
               \E f \in Layouts(dom, dom, node, dom.size, size) :
                 dom' = Graft(dom, dom, node, f, size)
    BY <1>4 DEF JsCloneDeep
  <2>1. PICK f \in Layouts(dom, dom, node, dom.size, size) :
               dom' = Graft(dom, dom, node, f, size)
    BY <2>a
  <2>2. size \in dom.size..MaxNodes /\ dom.size \in 0..(size - 1)
    BY <1>t
  <2>3. dom.first_child[dom.size] = None
    <3>1. dom.size \in NodeId \ Allocated(dom)
      BY <1>t, <2>2, SizeAssumption DEF NodeId, Allocated
    <3> QED BY <3>1 DEF WellFormed, FreshUnlinked
  <2> QED BY <1>t, <2>1, <2>2, <2>3, GraftPreserves
<1>5. ASSUME NEW node \in Allocated(dom), NEW child \in Allocated(dom),
             JsAppendChild(node, child)
      PROVE  WellFormed(dom')
  BY <1>5, MoveToEnd DEF JsAppendChild
<1>6. ASSUME NEW node \in Allocated(dom), NEW child \in Allocated(dom),
             JsRemoveChild(node, child)
      PROVE  WellFormed(dom')
  BY <1>6, <1>t, DetachPreserves DEF JsRemoveChild
<1>7. ASSUME NEW node \in Allocated(dom), NEW new \in Allocated(dom),
             NEW reference \in Allocated(dom) \cup {None},
             ~Rejected(node, new, reference), JsInsertBefore(node, new, reference)
      PROVE  WellFormed(dom')
  <2>1. ~Contains(dom, new, node) /\ new # reference
    BY <1>7 DEF Rejected
  <2>2. CASE reference = None
    BY <2>1, <2>2, <1>7, MoveToEnd DEF JsInsertBefore
  <2>3. CASE reference # None
    BY <2>1, <2>3, <1>7, <1>t, MoveBefore DEF JsInsertBefore
  <2> QED BY <2>2, <2>3
<1>8. ASSUME NEW node \in Allocated(dom), NEW new \in Allocated(dom),
             NEW old \in Allocated(dom),
             ~Rejected(node, new, old), JsReplaceChild(node, new, old)
      PROVE  WellFormed(dom')
  <2>1. ~Contains(dom, new, node) /\ new # old
    BY <1>8 DEF Rejected
  <2>2. CASE dom.parent[old] # node
    BY <2>2, <1>8 DEF JsReplaceChild
  <2>3. CASE dom.parent[old] = node
    <3>1. WellFormed(InsertBefore(Lift(dom, new), node, new, old))
      BY <2>1, <2>3, <1>t, MoveBefore
    <3> QED BY <3>1, <2>3, <1>8, <1>t, DetachPreserves DEF JsReplaceChild
  <2> QED BY <2>2, <2>3
<1>9. CASE UNCHANGED vars
  BY <1>9 DEF vars
<1> QED BY <1>1, <1>2, <1>3, <1>4, <1>5, <1>6, <1>7, <1>8, <1>9 DEF Next

----------------------------------------------------------------------------
(* The children of a node in order: what the iterator's links yield. *)

\* The i-th node of s; past the end, no node.
At(s, i) == IF i \in 1..Len(s) THEN s[i] ELSE None

\* Following next from x yields s.
Walk(next, x, s) ==
  /\ s \in Seq(NodeId)
  /\ x = At(s, 1)
  /\ \A i \in 1..Len(s) : next[s[i]] = At(s, i + 1)

\* A walk goes on from any node that leads to its start.
LEMMA WalkFrom ==
  ASSUME NEW next, NEW x \in NodeId, NEW s, Walk(next, next[x], s)
  PROVE  Walk(next, x, <<x>> \o s)
<1> DEFINE t == <<x>> \o s
<1>1. s \in Seq(NodeId) /\ Len(s) \in Nat
  BY DEF Walk
<1>2. /\ t \in Seq(NodeId) /\ Len(t) = Len(s) + 1 /\ t[1] = x
      /\ \A i \in 1..Len(s) : t[i + 1] = s[i]
  BY <1>1
<1> HIDE DEF t
<1>3. \A i \in 1..(Len(s) + 1) : At(t, i + 1) = At(s, i)
  BY <1>1, <1>2 DEF At
<1>4. ASSUME NEW i \in 1..Len(t) PROVE next[t[i]] = At(t, i + 1)
  <2>1. CASE i = 1
    BY <1>1, <1>2, <1>3, <2>1 DEF Walk
  <2>2. CASE i # 1
    <3>1. i - 1 \in 1..Len(s) /\ (i - 1) + 1 = i
      BY <1>1, <1>2, <2>2
    <3>2. t[i] = s[i - 1] /\ next[s[i - 1]] = At(s, i)
      BY <1>2, <3>1 DEF Walk
    <3> QED BY <1>1, <1>2, <1>3, <3>1, <3>2
  <2> QED BY <2>1, <2>2
<1>5. At(t, 1) = x
  BY <1>1, <1>2 DEF At
<1> QED BY <1>2, <1>4, <1>5 DEF Walk, t

\* A walk from a node is that node and a walk from the next one.
LEMMA WalkStarts ==
  ASSUME NEW next, NEW x \in NodeId, NEW s, Walk(next, x, s)
  PROVE  s # <<>> /\ s = <<x>> \o Tail(s) /\ Walk(next, next[x], Tail(s))
<1> DEFINE t == Tail(s)
<1>1. s \in Seq(NodeId) /\ Len(s) \in Nat
  BY DEF Walk
<1>2. Len(s) > 0 /\ s[1] = x
  BY <1>1, NodeIds DEF Walk, At
<1>3. /\ t \in Seq(NodeId) /\ Len(t) = Len(s) - 1
      /\ \A i \in 1..Len(t) : t[i] = s[i + 1]
  BY <1>1, <1>2
<1>4. s = <<x>> \o t
  BY <1>1, <1>2
<1> HIDE DEF t
<1>5. \A i \in 1..Len(s) : At(t, i) = At(s, i + 1)
  BY <1>1, <1>2, <1>3 DEF At
<1>6. next[x] = At(t, 1)
  BY <1>1, <1>2, <1>5 DEF Walk
<1>7. ASSUME NEW i \in 1..Len(t) PROVE next[t[i]] = At(t, i + 1)
  <2>1. i + 1 \in 1..Len(s) /\ t[i] = s[i + 1]
    BY <1>1, <1>3
  <2>2. next[s[i + 1]] = At(s, (i + 1) + 1)
    BY <2>1 DEF Walk
  <2> QED BY <2>1, <2>2, <1>5
<1> QED BY <1>2, <1>3, <1>4, <1>6, <1>7 DEF Walk, t

\* The empty walk is the one from no node.
LEMMA WalkNowhere ==
  ASSUME NEW next, NEW s
  PROVE  /\ Walk(next, None, s) => s = <<>>
         /\ Walk(next, None, <<>>)
<1>1. ASSUME Walk(next, None, s) PROVE s = <<>>
  <2>1. s \in Seq(NodeId) /\ Len(s) \in Nat /\ None = At(s, 1)
    BY <1>1 DEF Walk
  <2>2. Len(s) = 0
    BY <2>1, NodeIds DEF At
  <2> QED BY <2>1, <2>2
<1>2. Walk(next, None, <<>>)
  BY DEF Walk, At
<1> QED BY <1>1, <1>2

\* Links that end yield one walk from each start.
LEMMA WalkUnique ==
  ASSUME NEW next \in Link, WellFounded(next), NEW x \in NodeId \cup {None},
         NEW s, NEW t, Walk(next, x, s), Walk(next, x, t)
  PROVE  s = t
<1> DEFINE S == {y \in NodeId : \E u, v \in Seq(NodeId) :
                   Walk(next, y, u) /\ Walk(next, y, v) /\ u # v}
<1>1. S = {}
  <2> SUFFICES ASSUME S # {} PROVE FALSE
    OBVIOUS
  <2>1. PICK y \in S : next[y] \notin S
    BY DEF WellFounded
  <2>2. PICK u \in Seq(NodeId), v \in Seq(NodeId) :
               Walk(next, y, u) /\ Walk(next, y, v) /\ u # v
    BY <2>1
  <2>3. /\ u = <<y>> \o Tail(u) /\ Walk(next, next[y], Tail(u))
        /\ v = <<y>> \o Tail(v) /\ Walk(next, next[y], Tail(v))
    BY <2>1, <2>2, WalkStarts
  <2>4. Tail(u) = Tail(v)
    <3>1. CASE next[y] = None
      BY <3>1, <2>3, WalkNowhere
    <3>2. CASE next[y] \in NodeId
      <4>1. Tail(u) \in Seq(NodeId) /\ Tail(v) \in Seq(NodeId)
        BY <2>3 DEF Walk
      <4> QED BY <3>2, <2>1, <2>3, <4>1
    <3> QED BY <3>1, <3>2, <2>1 DEF Link
  <2> QED BY <2>2, <2>3, <2>4
<1>2. CASE x = None
  BY <1>2, WalkNowhere
<1>3. CASE x \in NodeId
  BY <1>1, <1>3 DEF Walk
<1> QED BY <1>2, <1>3

\* And there is one from each start.
LEMMA WalkExists ==
  ASSUME NEW next \in Link, WellFounded(next), NEW x \in NodeId \cup {None}
  PROVE  \E s : Walk(next, x, s)
<1> DEFINE S == {y \in NodeId : ~\E s : Walk(next, y, s)}
<1>1. \E s : Walk(next, None, s)
  BY WalkNowhere
<1>2. S = {}
  <2> SUFFICES ASSUME S # {} PROVE FALSE
    OBVIOUS
  <2>1. PICK y \in S : next[y] \notin S
    BY DEF WellFounded
  <2>2. PICK s : Walk(next, next[y], s)
    BY <1>1, <2>1 DEF Link
  <2> QED BY <2>1, <2>2, WalkFrom
<1> QED BY <1>1, <1>2

\* The children iterator's sequence is the walk from the first child.
LEMMA OrderIsWalk ==
  ASSUME NEW d, WellFormed(d), NEW p \in NodeId
  PROVE  Walk(d.next_sibling, d.first_child[p], ChildrenInOrder(d, p))
<1> DEFINE next == d.next_sibling
           F(g) == [x \in NodeId \cup {None} |->
                      IF x = None THEN <<>> ELSE <<x>> \o g[d.next_sibling[x]]]
           From == CHOOSE g : g = F(g)
           walks == [x \in NodeId \cup {None} |-> CHOOSE s : Walk(next, x, s)]
<1>0. /\ next \in Link /\ WellFounded(next) /\ d.first_child[p] \in NodeId \cup {None}
  BY ArenaFields DEF WellFormed, Link
<1>1. ASSUME NEW x \in NodeId \cup {None} PROVE Walk(next, x, walks[x])
  BY <1>0, WalkExists
<1>2. walks = F(walks)
  <2>1. ASSUME NEW x \in NodeId
        PROVE  walks[x] = <<x>> \o walks[next[x]]
    <3>1. Walk(next, x, walks[x]) /\ Walk(next, next[x], walks[next[x]])
      BY <1>0, <1>1 DEF Link
    <3> HIDE DEF walks, next
    <3>2. Walk(next, x, <<x>> \o walks[next[x]])
      BY <3>1, WalkFrom
    <3> QED BY <1>0, <3>1, <3>2, WalkUnique
  <2>2. walks[None] = <<>>
    <3>1. Walk(next, None, walks[None])
      BY <1>1
    <3> QED BY <3>1, WalkNowhere
  <2>3. walks = [x \in NodeId \cup {None} |-> walks[x]]
    OBVIOUS
  <2>4. ASSUME NEW x \in NodeId \cup {None}
        PROVE  walks[x] = IF x = None THEN <<>> ELSE <<x>> \o walks[next[x]]
    <3> HIDE DEF walks
    <3> QED BY <2>1, <2>2
  <2> HIDE DEF walks
  <2> QED BY <2>3, <2>4
<1>3. From = F(From)
  <2> HIDE DEF walks, F
  <2> QED BY <1>2
<1>4. ChildrenInOrder(d, p) = From[d.first_child[p]]
  BY DEF ChildrenInOrder
<1>5. ASSUME NEW x \in NodeId \cup {None} PROVE Walk(next, x, From[x])
  <2> HIDE DEF From
  <2>0. From[None] = <<>> /\ \A y \in NodeId : From[y] = <<y>> \o From[next[y]]
    BY <1>3, NodeIds
  <2> DEFINE S == {y \in NodeId : ~Walk(next, y, From[y])}
  <2>1. Walk(next, None, From[None])
    BY <2>0, WalkNowhere
  <2>2. S = {}
    <3> SUFFICES ASSUME S # {} PROVE FALSE
      OBVIOUS
    <3>1. PICK y \in S : next[y] \notin S
      BY <1>0 DEF WellFounded
    <3>2. Walk(next, next[y], From[next[y]])
      BY <2>1, <3>1, <1>0 DEF Link
    <3> QED BY <2>0, <3>1, <3>2, WalkFrom
  <2> QED BY <2>1, <2>2
<1> HIDE DEF From
<1> QED BY <1>0, <1>4, <1>5

\* A sequence the links spell out is that sequence.
LEMMA WalkIsOrder ==
  ASSUME NEW d, WellFormed(d), NEW p \in NodeId, NEW s,
         Walk(d.next_sibling, d.first_child[p], s)
  PROVE  ChildrenInOrder(d, p) = s
<1>1. /\ d.next_sibling \in Link /\ WellFounded(d.next_sibling)
      /\ d.first_child[p] \in NodeId \cup {None}
  BY ArenaFields DEF WellFormed, Link
<1> QED BY <1>1, OrderIsWalk, WalkUnique

\* K lists the children of p, each once, in the order of the sibling links, from
\* the first child on.
ListOf(d, p, K) ==
  /\ K \in Seq(NodeId) /\ Len(K) \in Nat
  /\ d.first_child[p] = At(K, 1)
  /\ \A i \in 1..Len(K) : K[i] \in NodeId /\ d.parent[K[i]] = p
  /\ \A i \in 1..Len(K) : d.next_sibling[K[i]] = At(K, i + 1)
  /\ \A i \in 1..Len(K) : d.prev_sibling[K[i]] = At(K, i - 1)
  /\ \A i, j \in 1..Len(K) : K[i] = K[j] => i = j
  /\ \A c \in NodeId : d.parent[c] = p => \E i \in 1..Len(K) : K[i] = c

\* What the children iterator yields is that list.
LEMMA ListFacts ==
  ASSUME NEW d, WellFormed(d), NEW p \in NodeId
  PROVE  ListOf(d, p, ChildrenInOrder(d, p))
<1> DEFINE K == ChildrenInOrder(d, p)
<1>0. /\ Linked(d) /\ WellFounded(d.prev_sibling)
      /\ d.parent \in Link /\ d.first_child \in Link /\ d.next_sibling \in Link
      /\ d.prev_sibling \in Link
  BY ArenaFields DEF WellFormed
<1>1. Walk(d.next_sibling, d.first_child[p], K)
  BY OrderIsWalk
<1> HIDE DEF K
<1>2. /\ K \in Seq(NodeId) /\ Len(K) \in Nat /\ d.first_child[p] = At(K, 1)
      /\ \A i \in 1..Len(K) : K[i] \in NodeId /\ d.next_sibling[K[i]] = At(K, i + 1)
  BY <1>1 DEF Walk
<1>3. Len(K) > 0 => d.prev_sibling[K[1]] = None /\ d.parent[K[1]] = p
  <2> HAVE Len(K) > 0
  <2>1. d.first_child[p] = K[1] /\ K[1] \in NodeId
    BY <1>2 DEF At
  <2> QED BY <1>0, <2>1, NodeIds DEF Linked, EndsAgree
<1>4. ASSUME NEW i \in 1..Len(K), i > 1
      PROVE  /\ i - 1 \in 1..Len(K)
             /\ d.prev_sibling[K[i]] = K[i - 1]
             /\ d.parent[K[i]] = d.parent[K[i - 1]]
  <2>1. i - 1 \in 1..Len(K) /\ (i - 1) + 1 = i
    BY <1>2, <1>4
  <2>2. K[i - 1] \in NodeId /\ d.next_sibling[K[i - 1]] = K[i] /\ K[i] \in NodeId
    BY <1>2, <2>1 DEF At
  <2>3. NeighboursAgree(d, K[i - 1])
    BY <1>0, <2>2 DEF Linked
  <2>4. d.prev_sibling[K[i]] = K[i - 1] /\ d.parent[K[i]] = d.parent[K[i - 1]]
    BY <2>2, <2>3, NodeIds DEF NeighboursAgree
  <2> QED BY <2>1, <2>4
<1>5. ASSUME NEW i \in 1..Len(K) PROVE d.parent[K[i]] = p
  <2> DEFINE S == {x \in NodeId : d.parent[x] # p /\ \E j \in 1..Len(K) : K[j] = x}
  <2>1. SUFFICES ASSUME S # {} PROVE FALSE
    BY <1>2
  <2>2. PICK x \in S : d.prev_sibling[x] \notin S
    BY <1>0, <2>1 DEF WellFounded
  <2>3. PICK j \in 1..Len(K) : K[j] = x
    BY <2>2
  <2>4. j # 1
    BY <1>2, <1>3, <2>2, <2>3
  <2>5. /\ j - 1 \in 1..Len(K) /\ d.prev_sibling[x] = K[j - 1]
        /\ d.parent[K[j - 1]] = d.parent[x]
    BY <1>2, <1>4, <2>3, <2>4
  <2> QED BY <1>2, <2>2, <2>5
<1>6. ASSUME NEW i \in 1..Len(K) PROVE d.prev_sibling[K[i]] = At(K, i - 1)
  <2>1. CASE i = 1
    BY <1>2, <1>3, <2>1 DEF At
  <2>2. CASE i # 1
    BY <1>2, <1>4, <2>2 DEF At
  <2> QED BY <2>1, <2>2
<1>7. ASSUME NEW i \in 1..Len(K), NEW j \in 1..Len(K), K[i] = K[j] PROVE i = j
  <2> DEFINE S == {x \in NodeId : \E m, n \in 1..Len(K) : K[m] = x /\ K[n] = x /\ m # n}
  <2>1. SUFFICES ASSUME S # {} PROVE FALSE
    BY <1>2, <1>7
  <2>2. PICK x \in S : d.prev_sibling[x] \notin S
    BY <1>0, <2>1 DEF WellFounded
  <2>3. PICK m \in 1..Len(K), n \in 1..Len(K) : K[m] = x /\ K[n] = x /\ m # n
    BY <2>2
  <2>4. At(K, m - 1) = At(K, n - 1)
    <3>1. d.prev_sibling[x] = At(K, m - 1) /\ d.prev_sibling[x] = At(K, n - 1)
      BY <1>6, <2>3
    <3> QED BY <3>1
  <2>5. m > 1 /\ n > 1
    <3>1. \A k \in 1..Len(K) : At(K, k - 1) = IF k = 1 THEN None ELSE K[k - 1]
      BY <1>2 DEF At
    <3>2. \A k \in 1..Len(K) : k # 1 => K[k - 1] \in NodeId
      BY <1>2, <1>4
    <3>3. \A k \in 1..Len(K) : At(K, k - 1) = None <=> k = 1
      <4> TAKE k \in 1..Len(K)
      <4>1. CASE k = 1
        BY <3>1, <4>1
      <4>2. CASE k # 1
        <5>1. At(K, k - 1) = K[k - 1]
          BY <3>1, <4>2
        <5>2. K[k - 1] \in NodeId
          BY <3>2, <4>2
        <5> QED BY <4>2, <5>1, <5>2, NodeIds
      <4> QED BY <4>1, <4>2
    <3>4. (At(K, m - 1) = None <=> m = 1) /\ (At(K, n - 1) = None <=> n = 1)
      BY <3>3
    <3>5. m = 1 <=> n = 1
      BY <2>4, <3>4
    <3> QED BY <1>2, <2>3, <3>5
  <2>6. m - 1 \in 1..Len(K) /\ n - 1 \in 1..Len(K) /\ m - 1 # n - 1
    BY <2>3, <2>5
  <2>7. K[m - 1] = K[n - 1] /\ K[m - 1] \in NodeId /\ d.prev_sibling[x] = K[m - 1]
    BY <1>2, <1>4, <2>3, <2>4, <2>5, <2>6 DEF At
  <2> QED BY <2>2, <2>6, <2>7
<1>8. ASSUME NEW c \in NodeId, d.parent[c] = p PROVE \E i \in 1..Len(K) : K[i] = c
  <2> DEFINE S == {x \in NodeId : d.parent[x] = p /\ ~\E i \in 1..Len(K) : K[i] = x}
  <2>1. SUFFICES ASSUME S # {} PROVE FALSE
    BY <1>8
  <2>2. PICK x \in S : d.prev_sibling[x] \notin S
    BY <1>0, <2>1 DEF WellFounded
  <2>3. NeighboursAgree(d, x) /\ EndsAgree(d, x)
    BY <1>0 DEF Linked
  <2>4. CASE d.prev_sibling[x] = None
    <3>1. At(K, 1) = x
      BY <1>2, <2>2, <2>3, <2>4, NodeIds DEF EndsAgree
    <3> QED BY <1>2, <2>2, <3>1, NodeIds DEF At
  <2>5. CASE d.prev_sibling[x] # None
    <3> DEFINE y == d.prev_sibling[x]
    <3>1. y \in NodeId /\ d.parent[y] = p /\ d.next_sibling[y] = x
      BY <1>0, <2>2, <2>3, <2>5 DEF NeighboursAgree, Link
    <3>2. PICK i \in 1..Len(K) : K[i] = y
      BY <2>2, <3>1
    <3>3. At(K, i + 1) = x /\ x \in NodeId
      BY <1>2, <3>1, <3>2
    <3> QED BY <1>2, <2>2, <3>3, NodeIds DEF At
  <2> QED BY <2>4, <2>5
<1> QED BY <1>2, <1>5, <1>6, <1>7, <1>8 DEF ListOf, K

\* The last child is the end of the list.
LEMMA LastInList ==
  ASSUME NEW d, WellFormed(d), NEW p \in NodeId
  PROVE  d.last_child[p] = At(ChildrenInOrder(d, p), Len(ChildrenInOrder(d, p)))
<1> DEFINE K == ChildrenInOrder(d, p)
           n == Len(K)
<1>0. Linked(d) /\ d.last_child \in Link
  BY ArenaFields DEF WellFormed
<1>1. /\ K \in Seq(NodeId) /\ n \in Nat /\ d.first_child[p] = At(K, 1)
      /\ \A i \in 1..n : K[i] \in NodeId /\ d.parent[K[i]] = p
      /\ \A i \in 1..n : d.next_sibling[K[i]] = At(K, i + 1)
  BY ListFacts DEF ListOf
<1> SUFFICES d.last_child[p] = At(K, n)
  OBVIOUS
<1> HIDE DEF K
<1>2. CASE n = 0
  <2>1. d.first_child[p] = None
    BY <1>1, <1>2 DEF At
  <2> QED BY <1>0, <1>1, <1>2, <2>1 DEF At, Linked, EndsAgree
<1>3. CASE n # 0
  <2>1. K[n] \in NodeId /\ d.parent[K[n]] = p /\ d.next_sibling[K[n]] = None
    BY <1>1, <1>3 DEF At
  <2>2. d.last_child[p] = K[n]
    BY <1>0, <2>1, NodeIds DEF Linked, EndsAgree
  <2> QED BY <1>1, <1>3, <2>2 DEF At
<1> QED BY <1>2, <1>3

\* A node of a list is a child of its parent.
LEMMA ListIsChildren ==
  ASSUME NEW d, WellFormed(d), NEW p \in NodeId
  PROVE  Tree!ToSet(ChildrenInOrder(d, p)) = {c \in NodeId : d.parent[c] = p}
<1> DEFINE K == ChildrenInOrder(d, p)
<1>1. /\ K \in Seq(NodeId)
      /\ \A i \in 1..Len(K) : K[i] \in NodeId /\ d.parent[K[i]] = p
      /\ \A c \in NodeId : d.parent[c] = p => \E i \in 1..Len(K) : K[i] = c
  BY ListFacts DEF ListOf
<1> HIDE DEF K
<1>2. Tree!ToSet(K) = {K[i] : i \in 1..Len(K)}
  BY <1>1 DEF Tree!ToSet
<1> QED BY <1>1, <1>2 DEF K

\* A list changes only with its parent's first child or its own nodes' links.
LEMMA SameList ==
  ASSUME NEW d, WellFormed(d), NEW e, WellFormed(e), NEW p \in NodeId,
         e.first_child[p] = d.first_child[p],
         \A x \in NodeId : d.parent[x] = p => e.next_sibling[x] = d.next_sibling[x]
  PROVE  ChildrenInOrder(e, p) = ChildrenInOrder(d, p)
<1> DEFINE K == ChildrenInOrder(d, p)
<1>1. /\ K \in Seq(NodeId) /\ d.first_child[p] = At(K, 1)
      /\ \A i \in 1..Len(K) : K[i] \in NodeId /\ d.parent[K[i]] = p
      /\ \A i \in 1..Len(K) : d.next_sibling[K[i]] = At(K, i + 1)
  BY ListFacts DEF ListOf
<1> HIDE DEF K
<1>2. Walk(e.next_sibling, e.first_child[p], K)
  BY <1>1 DEF Walk
<1> QED BY <1>2, WalkIsOrder DEF K

\* Two sequences joined.
LEMMA Joined ==
  ASSUME NEW a \in Seq(NodeId), NEW b \in Seq(NodeId), NEW t, t = a \o b
  PROVE  /\ t \in Seq(NodeId) /\ Len(t) = Len(a) + Len(b)
         /\ \A j \in 1..Len(a) : t[j] = a[j]
         /\ \A j \in 1..Len(b) : t[Len(a) + j] = b[j]
  OBVIOUS

\* A node of a sequence without repetitions has one position.
LEMMA PositionIs ==
  ASSUME NEW s \in Seq(NodeId), \A i, j \in 1..Len(s) : s[i] = s[j] => i = j,
         NEW i \in 1..Len(s)
  PROVE  Tree!Position(s, s[i]) = i
  BY DEF Tree!Position

\* Taking a node out moves the later ones up.
LEMMA RemoveFacts ==
  ASSUME NEW s \in Seq(NodeId), NEW i \in 1..Len(s), NEW t, t = Tree!RemoveAt(s, i)
  PROVE  /\ t \in Seq(NodeId) /\ Len(t) = Len(s) - 1
         /\ \A j \in 1..Len(t) : t[j] = IF j < i THEN s[j] ELSE s[j + 1]
         /\ \A j \in 1..Len(s) : At(t, j) = IF j < i THEN At(s, j) ELSE At(s, j + 1)
<1> DEFINE a == SubSeq(s, 1, i - 1)
           b == SubSeq(s, i + 1, Len(s))
<1>0. Len(s) \in Nat
  OBVIOUS
<1>1. /\ a \in Seq(NodeId) /\ Len(a) = i - 1 /\ \A j \in 1..(i - 1) : a[j] = s[j]
  OBVIOUS
<1>2. /\ b \in Seq(NodeId) /\ Len(b) = Len(s) - i
      /\ \A j \in 1..(Len(s) - i) : b[j] = s[j + i]
  OBVIOUS
<1>3. t = a \o b
  BY DEF Tree!RemoveAt
<1> HIDE DEF a, b
<1>4. t \in Seq(NodeId) /\ Len(t) = Len(s) - 1
  BY <1>0, <1>1, <1>2, <1>3
<1>5. \A j \in 1..Len(t) : t[j] = IF j < i THEN s[j] ELSE s[j + 1]
  <2> TAKE j \in 1..Len(t)
  <2>1. CASE j < i
    BY <1>0, <1>1, <1>2, <1>3, <1>4, <2>1
  <2>2. CASE j >= i
    <3>1. t[j] = b[j - (i - 1)]
      BY <1>0, <1>1, <1>2, <1>3, <1>4, <2>2
    <3>2. j - (i - 1) \in 1..(Len(s) - i) /\ (j - (i - 1)) + i = j + 1
      BY <1>0, <1>4, <2>2
    <3> QED BY <1>0, <1>2, <2>2, <3>1, <3>2
  <2> QED BY <1>0, <2>1, <2>2
<1>6. \A j \in 1..Len(s) : At(t, j) = IF j < i THEN At(s, j) ELSE At(s, j + 1)
  BY <1>0, <1>4, <1>5 DEF At
<1> QED BY <1>4, <1>5, <1>6

\* t is s with c put in before the i-th node, the later ones moved down.
Inserted(s, i, c, t) ==
  /\ t \in Seq(NodeId) /\ Len(t) = Len(s) + 1
  /\ \A j \in 1..Len(t) :
       t[j] = IF j < i THEN s[j] ELSE IF j = i THEN c ELSE s[j - 1]

\* So is what InsertAt yields.
LEMMA InsertFacts ==
  ASSUME NEW s \in Seq(NodeId), NEW i \in 1..Len(s), NEW c \in NodeId
  PROVE  Inserted(s, i, c, Tree!InsertAt(s, i, c))
<1> DEFINE t == Tree!InsertAt(s, i, c)
           a == SubSeq(s, 1, i - 1)
           b == SubSeq(s, i, Len(s))
           m == a \o <<c>>
<1>0. Len(s) \in Nat
  OBVIOUS
<1>1. /\ a \in Seq(NodeId) /\ Len(a) = i - 1 /\ \A j \in 1..(i - 1) : a[j] = s[j]
  OBVIOUS
<1>2. /\ b \in Seq(NodeId) /\ Len(b) = Len(s) - i + 1
      /\ \A j \in 1..(Len(s) - i + 1) : b[j] = s[j + i - 1]
  OBVIOUS
<1>3. t = m \o b
  BY DEF Tree!InsertAt
<1> HIDE DEF a, b, t
<1>4. /\ m \in Seq(NodeId) /\ Len(m) = i /\ m[i] = c
      /\ \A j \in 1..(i - 1) : m[j] = s[j]
  BY <1>0, <1>1
<1> HIDE DEF m
<1>5. t \in Seq(NodeId) /\ Len(t) = Len(s) + 1
  <2>0. m \in Seq(NodeId) /\ b \in Seq(NodeId)
    BY <1>2, <1>4
  <2>1. t \in Seq(NodeId) /\ Len(t) = Len(m) + Len(b)
    BY <1>3, <2>0, Joined
  <2> QED BY <1>0, <1>2, <1>4, <2>1
<1>6. ASSUME NEW j \in 1..Len(t)
      PROVE  t[j] = IF j < i THEN s[j] ELSE IF j = i THEN c ELSE s[j - 1]
  <2>1. CASE j <= i
    BY <1>0, <1>2, <1>3, <1>4, <1>5, <2>1
  <2>2. CASE j > i
    <3>1. t[j] = b[j - i]
      BY <1>0, <1>2, <1>3, <1>4, <1>5, <2>2
    <3>2. j - i \in 1..(Len(s) - i + 1) /\ (j - i) + i - 1 = j - 1
      BY <1>0, <1>5, <2>2
    <3> QED BY <1>0, <1>2, <2>2, <3>1, <3>2
  <2> QED BY <1>0, <2>1, <2>2
<1> QED BY <1>5, <1>6 DEF Inserted, t

\* Linking over the i-th node of a walk takes it out.
LEMMA SpliceOut ==
  ASSUME NEW next, NEW s, Walk(next, At(s, 1), s),
         \A m, n \in 1..Len(s) : s[m] = s[n] => m = n,
         NEW i \in 1..Len(s), NEW then,
         \A y \in NodeId : y # s[i] =>
           then[y] = IF y = At(s, i - 1) THEN At(s, i + 1) ELSE next[y]
  PROVE  Walk(then, IF i = 1 THEN At(s, 2) ELSE At(s, 1), Tree!RemoveAt(s, i))
<1> DEFINE t == Tree!RemoveAt(s, i)
<1>0. /\ s \in Seq(NodeId) /\ Len(s) \in Nat
      /\ \A j \in 1..Len(s) : s[j] \in NodeId /\ next[s[j]] = At(s, j + 1)
  BY DEF Walk
<1>1. /\ t \in Seq(NodeId) /\ Len(t) = Len(s) - 1
      /\ \A j \in 1..Len(t) : t[j] = IF j < i THEN s[j] ELSE s[j + 1]
      /\ \A j \in 1..Len(s) : At(t, j) = IF j < i THEN At(s, j) ELSE At(s, j + 1)
  BY <1>0, RemoveFacts
<1> HIDE DEF t
<1>2. At(t, 1) = IF i = 1 THEN At(s, 2) ELSE At(s, 1)
  BY <1>0, <1>1
<1>3. \A j \in 1..Len(s) : s[j] = At(s, i - 1) <=> j = i - 1
  <2>1. CASE i = 1
    BY <1>0, <2>1, NodeIds DEF At
  <2>2. CASE i # 1
    BY <1>0, <2>2 DEF At
  <2> QED BY <2>1, <2>2
<1>4. ASSUME NEW j \in 1..Len(t) PROVE then[t[j]] = At(t, j + 1)
  <2>0. j \in 1..Len(s) /\ j + 1 \in 1..Len(s)
    BY <1>0, <1>1
  <2>1. CASE j < i
    <3>1. t[j] = s[j] /\ s[j] # s[i] /\ s[j] \in NodeId
      BY <1>0, <1>1, <2>0, <2>1
    <3>2. CASE j = i - 1
      <4>1. At(t, j + 1) = At(s, i + 1)
        BY <1>1, <2>0, <3>2
      <4> QED BY <1>3, <2>0, <3>1, <3>2, <4>1
    <3>3. CASE j # i - 1
      <4>1. At(t, j + 1) = At(s, j + 1)
        BY <1>1, <2>0, <2>1, <3>3
      <4> QED BY <1>0, <1>3, <2>0, <3>1, <3>3, <4>1
    <3> QED BY <3>2, <3>3
  <2>2. CASE j >= i
    <3>1. t[j] = s[j + 1] /\ s[j + 1] # s[i] /\ s[j + 1] \in NodeId
      BY <1>0, <1>1, <2>0, <2>2
    <3>2. At(t, j + 1) = At(s, (j + 1) + 1)
      BY <1>1, <2>0, <2>2
    <3>3. s[j + 1] # At(s, i - 1)
      BY <1>3, <2>0, <2>2
    <3> QED BY <1>0, <2>0, <3>1, <3>2, <3>3
  <2> QED BY <2>0, <2>1, <2>2
<1> QED BY <1>1, <1>2, <1>4 DEF Walk, t

\* Linking a node in before the i-th node of a walk puts it there.
LEMMA SpliceIn ==
  ASSUME NEW next, NEW s, Walk(next, At(s, 1), s),
         \A m, n \in 1..Len(s) : s[m] = s[n] => m = n,
         NEW i \in 1..Len(s), NEW c \in NodeId, \A j \in 1..Len(s) : s[j] # c,
         NEW then, then[c] = s[i],
         \A y \in NodeId : y # c =>
           then[y] = IF y = At(s, i - 1) THEN c ELSE next[y]
  PROVE  Walk(then, IF i = 1 THEN c ELSE At(s, 1), Tree!InsertAt(s, i, c))
<1> DEFINE t == Tree!InsertAt(s, i, c)
<1>0. /\ s \in Seq(NodeId) /\ Len(s) \in Nat
      /\ \A j \in 1..Len(s) : s[j] \in NodeId /\ next[s[j]] = At(s, j + 1)
  BY DEF Walk
<1>1. /\ t \in Seq(NodeId) /\ Len(t) = Len(s) + 1
      /\ \A j \in 1..Len(t) :
           t[j] = IF j < i THEN s[j] ELSE IF j = i THEN c ELSE s[j - 1]
  <2>1. s \in Seq(NodeId)
    BY <1>0
  <2> QED BY <2>1, InsertFacts DEF Inserted
<1> HIDE DEF t
<1>2. At(t, 1) = IF i = 1 THEN c ELSE At(s, 1)
  BY <1>0, <1>1 DEF At
<1>3. \A j \in 1..Len(s) : s[j] = At(s, i - 1) <=> j = i - 1
  <2>1. CASE i = 1
    BY <1>0, <2>1, NodeIds DEF At
  <2>2. CASE i # 1
    BY <1>0, <2>2 DEF At
  <2> QED BY <2>1, <2>2
<1>4. ASSUME NEW j \in 1..Len(t) PROVE then[t[j]] = At(t, j + 1)
  <2>1. CASE j < i - 1
    <3>1. j \in 1..Len(s) /\ t[j] = s[j] /\ s[j] \in NodeId
      BY <1>0, <1>1, <2>1
    <3>2. At(t, j + 1) = s[j + 1] /\ At(s, j + 1) = s[j + 1]
      BY <1>0, <1>1, <2>1 DEF At
    <3>3. s[j] # At(s, i - 1) /\ s[j] # c
      BY <1>3, <2>1, <3>1
    <3>4. then[s[j]] = next[s[j]]
      BY <3>1, <3>3
    <3> QED BY <1>0, <3>1, <3>2, <3>4
  <2>2. CASE j = i - 1
    <3>1. j \in 1..Len(s) /\ t[j] = s[j] /\ s[j] \in NodeId
      BY <1>0, <1>1, <2>2
    <3>2. At(t, j + 1) = c
      BY <1>0, <1>1, <2>2 DEF At
    <3> QED BY <1>3, <2>2, <3>1, <3>2
  <2>3. CASE j = i
    <3>1. At(t, j + 1) = s[i]
      BY <1>0, <1>1, <2>3 DEF At
    <3> QED BY <1>1, <2>3, <3>1
  <2>4. CASE j > i
    <3>1. j - 1 \in 1..Len(s) /\ t[j] = s[j - 1] /\ s[j - 1] \in NodeId
      BY <1>0, <1>1, <2>4
    <3>2. At(t, j + 1) = At(s, j)
      BY <1>0, <1>1, <2>4 DEF At
    <3>3. next[s[j - 1]] = At(s, j)
      BY <1>0, <3>1
    <3> QED BY <1>3, <2>4, <3>1, <3>2, <3>3
  <2> QED BY <1>0, <1>1, <2>1, <2>2, <2>3, <2>4
<1> QED BY <1>1, <1>2, <1>4 DEF Walk, t

\* Linking a node in after the last node of a walk puts it at the end.
LEMMA SpliceEnd ==
  ASSUME NEW next, NEW s, Walk(next, At(s, 1), s),
         \A m, n \in 1..Len(s) : s[m] = s[n] => m = n,
         NEW c \in NodeId, \A j \in 1..Len(s) : s[j] # c,
         NEW then, then[c] = None,
         \A y \in NodeId : y # c =>
           then[y] = IF y = At(s, Len(s)) THEN c ELSE next[y]
  PROVE  Walk(then, IF s = <<>> THEN c ELSE At(s, 1), Append(s, c))
<1> DEFINE t == Append(s, c)
<1>0. /\ s \in Seq(NodeId) /\ Len(s) \in Nat
      /\ \A j \in 1..Len(s) : s[j] \in NodeId /\ next[s[j]] = At(s, j + 1)
  BY DEF Walk
<1>1. /\ t \in Seq(NodeId) /\ Len(t) = Len(s) + 1 /\ t[Len(s) + 1] = c
      /\ \A j \in 1..Len(s) : t[j] = s[j]
  BY <1>0
<1> HIDE DEF t
<1>2. At(t, 1) = IF s = <<>> THEN c ELSE At(s, 1)
  BY <1>0, <1>1 DEF At
<1>3. \A j \in 1..Len(s) : s[j] = At(s, Len(s)) <=> j = Len(s)
  BY <1>0 DEF At
<1>4. ASSUME NEW j \in 1..Len(t) PROVE then[t[j]] = At(t, j + 1)
  <2>1. CASE j < Len(s)
    <3>1. j \in 1..Len(s) /\ t[j] = s[j] /\ s[j] \in NodeId
      BY <1>0, <1>1, <2>1
    <3>2. At(t, j + 1) = s[j + 1] /\ At(s, j + 1) = s[j + 1]
      BY <1>0, <1>1, <2>1 DEF At
    <3> QED BY <1>0, <1>3, <2>1, <3>1, <3>2
  <2>2. CASE j = Len(s)
    <3>1. j \in 1..Len(s) /\ t[j] = s[j] /\ s[j] \in NodeId
      BY <1>0, <1>1, <2>2
    <3>2. At(t, j + 1) = c
      BY <1>0, <1>1, <2>2 DEF At
    <3> QED BY <1>3, <2>2, <3>1, <3>2
  <2>3. CASE j = Len(s) + 1
    <3>1. At(t, j + 1) = None
      BY <1>0, <1>1, <2>3 DEF At
    <3> QED BY <1>1, <2>3, <3>1
  <2> QED BY <1>0, <1>1, <2>1, <2>2, <2>3
<1> QED BY <1>1, <1>2, <1>4 DEF Walk, t

----------------------------------------------------------------------------
(* What the pointer surgery does to the lists. *)

\* The lists of an arena.
Kids(d) == [p \in NodeId |-> ChildrenInOrder(d, p)]

\* The lists K with c taken out of the one it is in.
OutOf(K, c) ==
  [p \in NodeId |-> IF Tree!Contains(K[p], c)
                    THEN Tree!RemoveAt(K[p], Tree!Position(K[p], c))
                    ELSE K[p]]

\* The lists K with c put at the end of p's.
PutLast(K, p, c) == [K EXCEPT ![p] = Append(@, c)]

\* The lists K with c put just before r in p's.
PutBefore(K, p, c, r) == [K EXCEPT ![p] = Tree!InsertAt(@, Tree!Position(@, r), c)]

\* The lists K with c put in the place of r in p's.
PutFor(K, p, c, r) == [K EXCEPT ![p] = [@ EXCEPT ![Tree!Position(@, r)] = c]]

\* A node is in its parent's list, at one place, and in no other.
LEMMA PlaceInList ==
  ASSUME NEW d, WellFormed(d), NEW c \in NodeId, NEW p \in NodeId,
         NEW K, ListOf(d, p, K)
  PROVE  /\ d.parent[c] # p => ~Tree!Contains(K, c)
         /\ d.parent[c] = p => /\ Tree!Contains(K, c)
                               /\ Tree!Position(K, c) \in 1..Len(K)
                               /\ K[Tree!Position(K, c)] = c
<1>1. /\ K \in Seq(NodeId)
      /\ \A i \in 1..Len(K) : d.parent[K[i]] = p
      /\ \A i, j \in 1..Len(K) : K[i] = K[j] => i = j
      /\ \A x \in NodeId : d.parent[x] = p => \E i \in 1..Len(K) : K[i] = x
  BY DEF ListOf
<1>2. ASSUME d.parent[c] # p PROVE ~Tree!Contains(K, c)
  BY <1>1, <1>2 DEF Tree!Contains
<1>3. ASSUME d.parent[c] = p
      PROVE  /\ Tree!Contains(K, c)
             /\ Tree!Position(K, c) \in 1..Len(K)
             /\ K[Tree!Position(K, c)] = c
  <2>1. PICK i \in 1..Len(K) : K[i] = c
    BY <1>1, <1>3
  <2>2. Tree!Position(K, c) = i
    BY <1>1, <2>1, PositionIs
  <2> QED BY <2>1, <2>2 DEF Tree!Contains
<1> QED BY <1>2, <1>3

\* Dom::detach takes the node out of its parent's list.
LEMMA DetachKids ==
  ASSUME NEW d, WellFormed(d), NEW c \in NodeId
  PROVE  Kids(Detach(d, c)) = OutOf(Kids(d), c)
<1> DEFINE p == d.parent[c]
           pv == d.prev_sibling[c]
           nx == d.next_sibling[c]
           e == Detach(d, c)
<1>0. /\ d \in Arena /\ Linked(d) /\ p \in NodeId \cup {None}
      /\ d.first_child \in Link /\ d.next_sibling \in Link
      /\ pv \in NodeId \cup {None}
  BY ArenaFields DEF WellFormed, Link
<1>e. WellFormed(e)
  BY DetachPreserves
<1>1. CASE p = None
  <2>1. e = d
    BY <1>1 DEF Detach
  <2>2. \A q \in NodeId : ~Tree!Contains(ChildrenInOrder(d, q), c)
    BY <1>1, NodeIds, ListFacts, PlaceInList
  <2> QED BY <2>1, <2>2 DEF OutOf, Kids
<1>2. CASE p # None
  <2>p. p \in NodeId
    BY <1>0, <1>2
  <2>f. /\ \A y \in NodeId : e.next_sibling[y] =
              IF y = c THEN None ELSE IF y = pv THEN nx ELSE d.next_sibling[y]
        /\ \A y \in NodeId : e.first_child[y] =
              IF y = p /\ pv = None THEN nx ELSE d.first_child[y]
    BY <1>0, <1>2 DEF Detach, Arena
  <2> HIDE DEF e
  <2>1. ASSUME NEW q \in NodeId, q # p
        PROVE  ChildrenInOrder(e, q) = ChildrenInOrder(d, q)
    <3>1. pv # None => d.parent[pv] = p
      BY <1>0 DEF Linked, NeighboursAgree
    <3>2. \A x \in NodeId : d.parent[x] = q => e.next_sibling[x] = d.next_sibling[x]
      BY <2>1, <2>f, <3>1, NodeIds
    <3>3. e.first_child[q] = d.first_child[q]
      BY <2>1, <2>f
    <3> QED BY <1>e, <3>2, <3>3, SameList
  <2> DEFINE K == ChildrenInOrder(d, p)
             i == Tree!Position(K, c)
  <2>2. /\ K \in Seq(NodeId) /\ Len(K) \in Nat
        /\ d.first_child[p] = At(K, 1)
        /\ \A j \in 1..Len(K) : d.next_sibling[K[j]] = At(K, j + 1)
        /\ \A j \in 1..Len(K) : d.prev_sibling[K[j]] = At(K, j - 1)
        /\ \A m, n \in 1..Len(K) : K[m] = K[n] => m = n
    <3>1. ListOf(d, p, K)
      BY <2>p, ListFacts
    <3> HIDE DEF p, K
    <3> QED BY <3>1 DEF ListOf
  <2>3. Tree!Contains(K, c) /\ i \in 1..Len(K) /\ K[i] = c
    BY <2>p, ListFacts, PlaceInList
  <2>w. Walk(d.next_sibling, At(K, 1), K)
    BY <2>p, <2>2, OrderIsWalk
  <2> HIDE DEF K, i
  <2>5. pv = At(K, i - 1) /\ nx = At(K, i + 1)
    BY <2>2, <2>3
  <2>6. pv = None <=> i = 1
    <3>1. i = 1 => At(K, i - 1) = None
      BY <2>2 DEF At
    <3>2. i # 1 => At(K, i - 1) \in NodeId
      BY <2>2, <2>3 DEF At
    <3> QED BY <2>5, <3>1, <3>2, NodeIds
  <2>7. \A y \in NodeId : y # K[i] =>
           e.next_sibling[y] = IF y = At(K, i - 1) THEN At(K, i + 1) ELSE d.next_sibling[y]
    BY <2>f, <2>3, <2>5
  <2>8. Walk(e.next_sibling, IF i = 1 THEN At(K, 2) ELSE At(K, 1), Tree!RemoveAt(K, i))
    BY <2>2, <2>3, <2>w, <2>7, SpliceOut
  <2>9. e.first_child[p] = IF i = 1 THEN At(K, 2) ELSE At(K, 1)
    BY <2>p, <2>f, <2>2, <2>5, <2>6
  <2>10. ChildrenInOrder(e, p) = Tree!RemoveAt(K, i)
    BY <1>e, <2>p, <2>8, <2>9, WalkIsOrder
  <2>11. ASSUME NEW q \in NodeId PROVE Kids(e)[q] = OutOf(Kids(d), c)[q]
    <3>1. CASE q = p
      BY <2>3, <2>10, <3>1 DEF Kids, OutOf, K, i
    <3>2. CASE q # p
      <4>1. ~Tree!Contains(ChildrenInOrder(d, q), c)
        BY <3>2, ListFacts, PlaceInList
      <4> QED BY <2>1, <3>2, <4>1 DEF Kids, OutOf
    <3> QED BY <3>1, <3>2
  <2> QED BY <2>11 DEF Kids, OutOf, e
<1> QED BY <1>1, <1>2

\* Lifting a node takes it out of its parent's list, if it has a parent.
LEMMA LiftKids ==
  ASSUME NEW d, WellFormed(d), NEW c \in NodeId
  PROVE  Kids(Lift(d, c)) = OutOf(Kids(d), c)
<1>1. Kids(Detach(d, c)) = OutOf(Kids(d), c)
  BY DetachKids
<1>2. d.parent[c] = None => Detach(d, c) = d
  BY DEF Detach
<1> QED BY <1>1, <1>2 DEF Lift

\* Dom::append_child puts a node that has no parent at the end of p's list.
LEMMA AppendKids ==
  ASSUME NEW d, WellFormed(d), NEW p \in NodeId, NEW c \in NodeId,
         d.parent[c] = None, WellFormed(AppendChild(d, p, c))
  PROVE  Kids(AppendChild(d, p, c)) = PutLast(Kids(d), p, c)
<1> DEFINE lt == d.last_child[p]
           e == AppendChild(d, p, c)
           K == ChildrenInOrder(d, p)
<1>0. /\ d \in Arena /\ Linked(d)
      /\ d.first_child \in Link /\ d.next_sibling \in Link
      /\ lt \in NodeId \cup {None}
  BY ArenaFields DEF WellFormed, Link
<1>f. /\ \A y \in NodeId : e.next_sibling[y] =
            IF y = lt THEN c ELSE IF y = c THEN None ELSE d.next_sibling[y]
      /\ \A y \in NodeId : e.first_child[y] =
            IF y = p /\ lt = None THEN c ELSE d.first_child[y]
  BY <1>0 DEF AppendChild, Arena
<1>e. WellFormed(e)
  OBVIOUS
<1>l. lt # None => d.parent[lt] = p
  BY <1>0 DEF Linked, EndsAgree
<1> HIDE DEF e
<1>1. ASSUME NEW q \in NodeId, q # p
      PROVE  ChildrenInOrder(e, q) = ChildrenInOrder(d, q)
  <2>1. \A x \in NodeId : d.parent[x] = q => e.next_sibling[x] = d.next_sibling[x]
    BY <1>1, <1>f, <1>l, NodeIds
  <2>2. e.first_child[q] = d.first_child[q]
    BY <1>1, <1>f
  <2> QED BY <1>e, <2>1, <2>2, SameList
<1>2. /\ K \in Seq(NodeId) /\ Len(K) \in Nat
      /\ d.first_child[p] = At(K, 1)
      /\ \A j \in 1..Len(K) : d.parent[K[j]] = p
      /\ \A m, n \in 1..Len(K) : K[m] = K[n] => m = n
  <2>1. ListOf(d, p, K)
    BY ListFacts
  <2> HIDE DEF K
  <2> QED BY <2>1 DEF ListOf
<1>3. Walk(d.next_sibling, At(K, 1), K)
  BY <1>2, OrderIsWalk
<1>4. lt = At(K, Len(K))
  BY LastInList
<1> HIDE DEF K
<1>5. lt = None <=> K = <<>>
  <2>1. K = <<>> => At(K, Len(K)) = None
    BY DEF At
  <2>2. K # <<>> => At(K, Len(K)) \in NodeId
    BY <1>2 DEF At
  <2> QED BY <1>4, <2>1, <2>2, NodeIds
<1>6. \A j \in 1..Len(K) : K[j] # c
  BY <1>2, NodeIds
<1>7. /\ e.next_sibling[c] = None
      /\ \A y \in NodeId : y # c =>
           e.next_sibling[y] = IF y = At(K, Len(K)) THEN c ELSE d.next_sibling[y]
  BY <1>f, <1>4, <1>l, NodeIds
<1>8. Walk(e.next_sibling, IF K = <<>> THEN c ELSE At(K, 1), Append(K, c))
  BY <1>2, <1>3, <1>6, <1>7, SpliceEnd
<1>9. e.first_child[p] = IF K = <<>> THEN c ELSE At(K, 1)
  BY <1>f, <1>2, <1>5
<1>10. ChildrenInOrder(e, p) = Append(K, c)
  BY <1>e, <1>8, <1>9, WalkIsOrder
<1>11. \A q \in NodeId : Kids(e)[q] = [Kids(d) EXCEPT ![p] = Append(@, c)][q]
  BY <1>1, <1>10 DEF Kids, K
<1> QED BY <1>11 DEF Kids, PutLast, e

\* Dom::insert_before puts a node that has no parent just before r.
LEMMA InsertKids ==
  ASSUME NEW d, WellFormed(d), NEW p \in NodeId, NEW c \in NodeId, NEW r \in NodeId,
         d.parent[c] = None, d.parent[r] = p, WellFormed(InsertBefore(d, p, c, r))
  PROVE  Kids(InsertBefore(d, p, c, r)) = PutBefore(Kids(d), p, c, r)
<1> DEFINE pv == d.prev_sibling[r]
           e == InsertBefore(d, p, c, r)
           K == ChildrenInOrder(d, p)
           i == Tree!Position(K, r)
<1>0. /\ d \in Arena /\ Linked(d)
      /\ d.first_child \in Link /\ d.next_sibling \in Link
      /\ pv \in NodeId \cup {None}
  BY ArenaFields DEF WellFormed, Link
<1>f. /\ \A y \in NodeId : e.next_sibling[y] =
            IF y = pv THEN c ELSE IF y = c THEN r ELSE d.next_sibling[y]
      /\ \A y \in NodeId : e.first_child[y] =
            IF y = p /\ pv = None THEN c ELSE d.first_child[y]
  BY <1>0 DEF InsertBefore, Arena
<1>e. WellFormed(e)
  OBVIOUS
<1>l. pv # None => d.parent[pv] = p
  BY <1>0 DEF Linked, NeighboursAgree
<1> HIDE DEF e
<1>1. ASSUME NEW q \in NodeId, q # p
      PROVE  ChildrenInOrder(e, q) = ChildrenInOrder(d, q)
  <2>1. \A x \in NodeId : d.parent[x] = q => e.next_sibling[x] = d.next_sibling[x]
    BY <1>1, <1>f, <1>l, NodeIds
  <2>2. e.first_child[q] = d.first_child[q]
    BY <1>1, <1>f
  <2> QED BY <1>e, <2>1, <2>2, SameList
<1>2. /\ K \in Seq(NodeId) /\ Len(K) \in Nat
      /\ d.first_child[p] = At(K, 1)
      /\ \A j \in 1..Len(K) : d.parent[K[j]] = p
      /\ \A j \in 1..Len(K) : d.prev_sibling[K[j]] = At(K, j - 1)
      /\ \A m, n \in 1..Len(K) : K[m] = K[n] => m = n
  <2>1. ListOf(d, p, K)
    BY ListFacts
  <2> HIDE DEF K
  <2> QED BY <2>1 DEF ListOf
<1>3. Walk(d.next_sibling, At(K, 1), K)
  BY <1>2, OrderIsWalk
<1>4. i \in 1..Len(K) /\ K[i] = r
  BY ListFacts, PlaceInList
<1> HIDE DEF K, i
<1>5. pv = At(K, i - 1)
  BY <1>2, <1>4
<1>6. pv = None <=> i = 1
  <2>1. i = 1 => At(K, i - 1) = None
    BY <1>2 DEF At
  <2>2. i # 1 => At(K, i - 1) \in NodeId
    BY <1>2, <1>4 DEF At
  <2> QED BY <1>5, <2>1, <2>2, NodeIds
<1>7. \A j \in 1..Len(K) : K[j] # c
  BY <1>2, NodeIds
<1>8. /\ e.next_sibling[c] = K[i]
      /\ \A y \in NodeId : y # c =>
           e.next_sibling[y] = IF y = At(K, i - 1) THEN c ELSE d.next_sibling[y]
  BY <1>f, <1>4, <1>5, <1>l, NodeIds
<1>9. Walk(e.next_sibling, IF i = 1 THEN c ELSE At(K, 1), Tree!InsertAt(K, i, c))
  BY <1>2, <1>3, <1>4, <1>7, <1>8, SpliceIn
<1>10. e.first_child[p] = IF i = 1 THEN c ELSE At(K, 1)
  BY <1>f, <1>2, <1>6
<1>11. ChildrenInOrder(e, p) = Tree!InsertAt(K, i, c)
  BY <1>e, <1>9, <1>10, WalkIsOrder
<1>12. \A q \in NodeId : Kids(e)[q] =
         [Kids(d) EXCEPT ![p] = Tree!InsertAt(@, Tree!Position(@, r), c)][q]
  BY <1>1, <1>11 DEF Kids, K, i
<1> QED BY <1>12 DEF Kids, PutBefore, e

\* Dom::alloc gives no node a child.
LEMMA AllocKids ==
  ASSUME NEW d, WellFormed(d), d.size < MaxNodes
  PROVE  Kids(Alloc(d)) = Kids(d)
<1> DEFINE e == Alloc(d)
<1>1. e.first_child = d.first_child /\ e.next_sibling = d.next_sibling
  BY DEF Alloc, WellFormed, Arena
<1>2. WellFormed(e)
  BY AllocPreserves
<1> HIDE DEF e
<1>3. \A q \in NodeId : ChildrenInOrder(e, q) = ChildrenInOrder(d, q)
  BY <1>1, <1>2, SameList
<1> QED BY <1>3 DEF Kids, e

\* Unlinking the children of p empties its list alone.
LEMMA UnlinkKids ==
  ASSUME NEW d, WellFormed(d), NEW p \in NodeId
  PROVE  Kids(Unlink(d, p)) = [Kids(d) EXCEPT ![p] = <<>>]
<1> DEFINE e == Unlink(d, p)
<1>0. d \in Arena /\ d.first_child \in Link
  BY ArenaFields DEF WellFormed
<1>1. \A x \in NodeId : x \in Children(d, p) <=> d.parent[x] = p
  BY ChildrenAreAll
<1>2. /\ \A y \in NodeId : e.next_sibling[y] =
            IF y \in Children(d, p) THEN None ELSE d.next_sibling[y]
      /\ \A y \in NodeId : e.first_child[y] = IF y = p THEN None ELSE d.first_child[y]
  BY <1>0 DEF Unlink, Arena, Link
<1>3. WellFormed(e)
  BY UnlinkPreserves
<1> HIDE DEF e
<1>4. ASSUME NEW q \in NodeId, q # p
      PROVE  ChildrenInOrder(e, q) = ChildrenInOrder(d, q)
  <2>1. \A x \in NodeId : d.parent[x] = q => e.next_sibling[x] = d.next_sibling[x]
    BY <1>1, <1>2, <1>4
  <2>2. e.first_child[q] = d.first_child[q]
    BY <1>2, <1>4
  <2> QED BY <1>3, <2>1, <2>2, SameList
<1>5. ChildrenInOrder(e, p) = <<>>
  <2>1. Walk(e.next_sibling, e.first_child[p], <<>>)
    BY <1>2, WalkNowhere
  <2> QED BY <1>3, <2>1, WalkIsOrder
<1>6. \A q \in NodeId : Kids(e)[q] = [Kids(d) EXCEPT ![p] = <<>>][q]
  BY <1>4, <1>5 DEF Kids
<1> QED BY <1>6 DEF Kids, e

\* The list s with each node renamed by f.
Renamed(f, s) == [i \in DOMAIN s |-> f[s[i]]]

\* A copy lists the copies of what its origin lists; no other list changes.
LEMMA GraftKids ==
  ASSUME NEW d, WellFormed(d), NEW s, WellFormed(s), NEW r \in NodeId,
         NEW top \in NodeId, NEW size, NEW f, NEW e,
         WellFormed(e), Grafted(d, s, r, top, size, f, e),
         d.size \in Int
  PROVE  /\ \A x \in Subtree(s, r) :
              ChildrenInOrder(e, f[x]) = Renamed(f, ChildrenInOrder(s, x))
         /\ \A q \in NodeId : (\A x \in Subtree(s, r) : f[x] # q) =>
              ChildrenInOrder(e, q) = ChildrenInOrder(d, q)
<1> DEFINE sub == Subtree(s, r)
           copies == {f[x] : x \in DOMAIN f \ {r}}
<1>1. /\ DOMAIN f = sub /\ sub \subseteq NodeId /\ r \in sub /\ f[r] = top
      /\ \A x \in sub : f[x] \in NodeId
      /\ \A x \in sub \ {r} : f[x] \in d.size..(size - 1)
      /\ \A x \in sub \ {r} : e.next_sibling[f[x]] = Image(f, s.next_sibling[x])
      /\ \A x \in sub : e.first_child[f[x]] = Image(f, s.first_child[x])
      /\ \A y \in NodeId \ copies : e.next_sibling[y] = d.next_sibling[y]
      /\ \A y \in NodeId \ (copies \cup {top}) : e.first_child[y] = d.first_child[y]
  BY DEF Grafted
<1>2. \A x \in sub : s.first_child[x] \in (sub \ {r}) \cup {None}
  BY SubtreeLinks
<1>3. \A x \in sub \ {r} : s.next_sibling[x] \in (sub \ {r}) \cup {None}
  BY SubtreeLinks
<1>4. ASSUME NEW x \in sub
      PROVE  ChildrenInOrder(e, f[x]) = Renamed(f, ChildrenInOrder(s, x))
  <2> DEFINE K == ChildrenInOrder(s, x)
             L == Renamed(f, K)
  <2>1. ListOf(s, x, K)
    BY <1>1, ListFacts
  <2>2. \A i \in 1..Len(K) : K[i] \in sub \ {r}
    <3>1. \A i \in 1..Len(K) : K[i] \in NodeId /\ s.parent[K[i]] = x
      BY <2>1 DEF ListOf
    <3>2. s.parent \in Link /\ WellFounded(s.parent)
      BY ArenaFields DEF WellFormed
    <3>3. \A y \in NodeId : s.parent[y] = x => y \in sub
      BY <1>1, <3>2, NodeIds, ContainsUp DEF Subtree
    <3>4. s.parent[r] # x
      <4>1. s.parent[r] = x => ~Contains(s, r, x)
        BY <1>1, <3>2, NodeIds, ParentNotBelow
      <4> QED BY <4>1 DEF Subtree
    <3> HIDE DEF K, sub
    <3> QED BY <3>1, <3>3, <3>4
  <2>3. /\ K \in Seq(NodeId) /\ Len(K) \in Nat /\ s.first_child[x] = At(K, 1)
        /\ \A i \in 1..Len(K) : s.next_sibling[K[i]] = At(K, i + 1)
    <3> HIDE DEF K
    <3> QED BY <2>1 DEF ListOf
  <2> HIDE DEF K
  <2>4. /\ L \in Seq(NodeId) /\ Len(L) = Len(K)
        /\ \A i \in 1..Len(K) : L[i] = f[K[i]]
    <3>1. DOMAIN K = 1..Len(K)
      BY <2>3
    <3>2. L \in [1..Len(K) -> NodeId]
      BY <1>1, <2>2, <3>1 DEF Renamed
    <3>3. L \in Seq(NodeId)
      BY <2>3, <3>2
    <3>4. Len(L) = Len(K)
      BY <2>3, <3>2, <3>3
    <3> QED BY <3>1, <3>3, <3>4 DEF Renamed
  <2> HIDE DEF L
  <2>5. ASSUME NEW i \in Nat PROVE Image(f, At(K, i)) = At(L, i)
    <3>1. CASE i \in 1..Len(K)
      <4>1. At(K, i) = K[i] /\ At(L, i) = f[K[i]] /\ K[i] # None
        BY <1>1, <2>2, <2>3, <2>4, <3>1, NodeIds DEF At
      <4> QED BY <4>1 DEF Image
    <3>2. CASE i \notin 1..Len(K)
      BY <2>4, <3>2 DEF At, Image
    <3> QED BY <3>1, <3>2
  <2>6. e.first_child[f[x]] = At(L, 1)
    BY <1>1, <2>3, <2>5
  <2>7. ASSUME NEW i \in 1..Len(L) PROVE e.next_sibling[L[i]] = At(L, i + 1)
    <3>1. i \in 1..Len(K) /\ i + 1 \in Nat
      BY <2>3, <2>4
    <3>2. L[i] = f[K[i]] /\ K[i] \in sub \ {r} /\ s.next_sibling[K[i]] = At(K, i + 1)
      BY <2>2, <2>3, <2>4, <3>1
    <3>3. e.next_sibling[f[K[i]]] = Image(f, s.next_sibling[K[i]])
      BY <1>1, <3>2
    <3> QED BY <2>5, <3>1, <3>2, <3>3
  <2>8. Walk(e.next_sibling, e.first_child[f[x]], L)
    BY <2>4, <2>6, <2>7 DEF Walk
  <2>9. f[x] \in NodeId
    BY <1>1
  <2> QED BY <2>8, <2>9, WalkIsOrder DEF K, L
<1>5. ASSUME NEW q \in NodeId, \A x \in sub : f[x] # q
      PROVE  ChildrenInOrder(e, q) = ChildrenInOrder(d, q)
  <2>1. q \notin copies \cup {top}
    BY <1>1, <1>5
  <2>2. \A y \in copies : d.parent[y] = None
    <3>1. \A y \in copies : y \in NodeId /\ y \notin Allocated(d)
      BY <1>1 DEF Allocated
    <3> QED BY <3>1 DEF WellFormed, FreshUnlinked
  <2>3. \A y \in NodeId : d.parent[y] = q => e.next_sibling[y] = d.next_sibling[y]
    BY <1>1, <2>2, NodeIds
  <2>4. e.first_child[q] = d.first_child[q]
    BY <1>1, <2>1
  <2> QED BY <2>3, <2>4, SameList
<1> QED BY <1>4, <1>5

\* The family of a node is the subtree below it.
LEMMA FamilyIsSubtree ==
  ASSUME NEW node \in NodeId, WellFormed(dom)
  PROVE  Tree!Family(node) = Subtree(dom, node)
<1> DEFINE kids == Kids(dom)
<1>1. \A p \in NodeId : Tree!ToSet(kids[p]) = {c \in NodeId : dom.parent[c] = p}
  BY ListIsChildren DEF Kids
<1>2. dom.parent \in Link
  BY ArenaFields DEF WellFormed
<1>3. Tree!Family(node) = {x \in NodeId : \A U \in SUBSET NodeId :
         node \in U /\ (\A p \in U : \A k \in Tree!ToSet(kids[p]) : k \in U) => x \in U}
  BY DEF Tree!Family, Tree!NodeId, NodeId, Kids
<1> HIDE DEF kids
<1>4. ASSUME NEW x \in NodeId, x \in Tree!Family(node) PROVE x \in Subtree(dom, node)
  <2> DEFINE U == Subtree(dom, node)
  <2>1. U \in SUBSET NodeId /\ node \in U
    BY ContainsSelf DEF Subtree
  <2>2. \A p \in U : \A k \in Tree!ToSet(kids[p]) : k \in U
    <3> TAKE p \in U
    <3> TAKE k \in Tree!ToSet(kids[p])
    <3>1. p \in NodeId /\ k \in NodeId /\ dom.parent[k] = p /\ Contains(dom, node, p)
      BY <1>1, <2>1 DEF Subtree
    <3>2. Contains(dom, node, k)
      BY <1>2, <3>1, NodeIds, ContainsUp
    <3> QED BY <3>1, <3>2 DEF Subtree
  <2> HIDE DEF U
  <2>3. x \in U
    BY <1>3, <1>4, <2>1, <2>2
  <2> QED BY <2>3 DEF U
<1>5. ASSUME NEW x \in NodeId, x \in Subtree(dom, node) PROVE x \in Tree!Family(node)
  <2> SUFFICES ASSUME NEW U \in SUBSET NodeId, node \in U,
                      \A p \in U : \A k \in Tree!ToSet(kids[p]) : k \in U,
                      x \notin U
               PROVE  FALSE
    BY <1>3
  <2> DEFINE V == NodeId \ U
  <2>1. \A y \in V : dom.parent[y] # None => dom.parent[y] \in V
    BY <1>1, <1>2 DEF Link
  <2>2. V \in SUBSET NodeId /\ x \in V
    OBVIOUS
  <2>3. node \in V
    BY <1>5, <2>1, <2>2 DEF Subtree, Contains
  <2> QED BY <2>3
<1>6. Tree!Family(node) \subseteq NodeId /\ Subtree(dom, node) \subseteq NodeId
  BY <1>3 DEF Subtree
<1> QED BY <1>4, <1>5, <1>6

----------------------------------------------------------------------------
(* Each binding call is a step of the forest. *)

\* Moving c to the end of p's list.
LEMMA MoveToEndKids ==
  ASSUME NEW d, WellFormed(d), NEW p \in Allocated(d), NEW c \in Allocated(d),
         ~Contains(d, c, p)
  PROVE  LET e == AppendChild(Lift(d, c), p, c) IN
         /\ e.size = d.size
         /\ Kids(e) = PutLast(OutOf(Kids(d), c), p, c)
<1> DEFINE l == Lift(d, c)
           e == AppendChild(l, p, c)
<1>1. p \in NodeId /\ c \in NodeId /\ d.parent \in Link
  BY ArenaFields DEF WellFormed
<1>2. WellFormed(l) /\ l.size = d.size /\ l.parent = [d.parent EXCEPT ![c] = None]
  BY <1>1, LiftFacts
<1>3. l.parent[c] = None
  BY <1>1, <1>2 DEF Link
<1>4. Kids(l) = OutOf(Kids(d), c)
  BY <1>1, LiftKids
<1>5. WellFormed(e)
  BY MoveToEnd
<1> HIDE DEF l
<1>6. Kids(e) = PutLast(Kids(l), p, c)
  BY <1>1, <1>2, <1>3, <1>5, AppendKids
<1>7. e.size = l.size
  BY <1>2 DEF AppendChild, WellFormed, Arena
<1> HIDE DEF e
<1> QED BY <1>2, <1>4, <1>6, <1>7 DEF e, l

\* Moving c to just before r.
LEMMA MoveBeforeKids ==
  ASSUME NEW d, WellFormed(d), NEW p \in Allocated(d), NEW c \in Allocated(d),
         NEW r \in NodeId, d.parent[r] = p, c # r, ~Contains(d, c, p),
         NEW e, e = InsertBefore(Lift(d, c), p, c, r)
  PROVE  /\ WellFormed(e) /\ e.size = d.size /\ e.parent[r] = p
         /\ Kids(e) = PutBefore(OutOf(Kids(d), c), p, c, r)
<1> DEFINE l == Lift(d, c)
<1>1. p \in NodeId /\ c \in NodeId /\ d.parent \in Link
  BY ArenaFields DEF WellFormed
<1>2. WellFormed(l) /\ l.size = d.size /\ l.parent = [d.parent EXCEPT ![c] = None]
  BY <1>1, LiftFacts
<1>3. l.parent[c] = None /\ l.parent[r] = p
  BY <1>1, <1>2 DEF Link
<1>4. Kids(l) = OutOf(Kids(d), c)
  BY <1>1, LiftKids
<1>5. WellFormed(e)
  BY MoveBefore
<1>l. e = InsertBefore(l, p, c, r)
  OBVIOUS
<1> HIDE DEF l
<1>6. Kids(e) = PutBefore(Kids(l), p, c, r)
  <2>1. WellFormed(InsertBefore(l, p, c, r))
    BY <1>5, <1>l
  <2>2. Kids(InsertBefore(l, p, c, r)) = PutBefore(Kids(l), p, c, r)
    BY <1>1, <1>2, <1>3, <2>1, InsertKids
  <2> QED BY <1>l, <2>2
<1>7. e.size = l.size /\ e.parent[r] = p
  <2>1. e.size = l.size /\ e.parent = [l.parent EXCEPT ![c] = p]
    BY <1>2, <1>l DEF InsertBefore, WellFormed, Arena
  <2> QED BY <1>1, <1>2, <1>3, <2>1 DEF Link
<1> QED BY <1>2, <1>4, <1>5, <1>6, <1>7

\* Putting c in before r and taking r out puts c in r's place.
LEMMA ReplaceKids ==
  ASSUME NEW d, WellFormed(d), NEW p \in Allocated(d), NEW c \in Allocated(d),
         NEW r \in NodeId, d.parent[r] = p, c # r, ~Contains(d, c, p),
         NEW e, e = Detach(InsertBefore(Lift(d, c), p, c, r), r)
  PROVE  /\ e.size = d.size
         /\ Kids(e) = PutFor(OutOf(Kids(d), c), p, c, r)
<1> DEFINE l == Lift(d, c)
           m == InsertBefore(l, p, c, r)
           J == ChildrenInOrder(l, p)
           M == ChildrenInOrder(m, p)
           i == Tree!Position(J, r)
<1>1. p \in NodeId /\ c \in NodeId /\ d.parent \in Link
  BY ArenaFields DEF WellFormed
<1>2. WellFormed(l) /\ l.parent = [d.parent EXCEPT ![c] = None]
  BY <1>1, LiftFacts
<1>3. l.parent[r] = p
  BY <1>1, <1>2 DEF Link
<1>4. Kids(l) = OutOf(Kids(d), c)
  BY <1>1, LiftKids
<1>5. /\ WellFormed(m) /\ m.size = d.size /\ m.parent[r] = p
      /\ Kids(m) = PutBefore(OutOf(Kids(d), c), p, c, r)
  BY MoveBeforeKids
<1>6. Kids(e) = OutOf(Kids(m), r)
  BY <1>5, DetachKids
<1>7. e.size = m.size
  <2>1. m \in Arena
    BY <1>5 DEF WellFormed
  <2> HIDE DEF m
  <2>2. Detach(m, r).size = m.size
    BY <2>1 DEF Detach, Arena
  <2> QED BY <2>2 DEF m, l
<1> HIDE DEF l, m
<1>8. ListOf(l, p, J) /\ ListOf(m, p, M)
  BY <1>1, <1>2, <1>5, ListFacts
<1>9. i \in 1..Len(J) /\ J[i] = r
  BY <1>1, <1>2, <1>3, <1>8, PlaceInList
<1>10. Kids(l)[p] = J /\ Kids(m)[p] = M
  BY <1>1 DEF Kids
<1>11. M = Tree!InsertAt(J, i, c)
  <2>1. Kids(m) = PutBefore(Kids(l), p, c, r)
    BY <1>4, <1>5
  <2> HIDE DEF J, M
  <2>2. Kids(m)[p] = Tree!InsertAt(J, Tree!Position(J, r), c)
    BY <1>1, <1>10, <2>1 DEF Kids, PutBefore
  <2> QED BY <1>10, <2>2
<1>p. J \in Seq(NodeId) /\ M \in Seq(NodeId) /\ Len(J) \in Nat /\ Len(M) \in Nat
      /\ \A j, k \in 1..Len(M) : M[j] = M[k] => j = k
  BY <1>8 DEF ListOf
<1> HIDE DEF J, M, i
<1>12. /\ Len(M) = Len(J) + 1
       /\ \A j \in 1..Len(M) : M[j] = IF j < i THEN J[j] ELSE IF j = i THEN c ELSE J[j - 1]
  <2>1. J \in Seq(NodeId) /\ i \in 1..Len(J) /\ c \in NodeId
    BY <1>1, <1>9, <1>p
  <2>2. Inserted(J, i, c, M)
    BY <1>11, <2>1, InsertFacts
  <2> QED BY <2>2 DEF Inserted
<1>13. i + 1 \in 1..Len(M) /\ M[i + 1] = r
  BY <1>9, <1>12, <1>p
<1>14. Tree!Position(M, r) = i + 1 /\ Tree!Contains(M, r)
  <2>1. Tree!Position(M, M[i + 1]) = i + 1
    BY <1>13, <1>p, PositionIs
  <2> QED BY <1>13, <2>1 DEF Tree!Contains
<1>15. Tree!RemoveAt(M, i + 1) = [J EXCEPT ![i] = c]
  <2> DEFINE t == Tree!RemoveAt(M, i + 1)
  <2>1. /\ t \in Seq(NodeId) /\ Len(t) = Len(M) - 1
        /\ \A j \in 1..Len(t) : t[j] = IF j < i + 1 THEN M[j] ELSE M[j + 1]
    BY <1>13, <1>p, RemoveFacts
  <2> HIDE DEF t
  <2>2. Len(t) = Len(J) /\ DOMAIN t = 1..Len(J) /\ DOMAIN J = 1..Len(J)
    BY <1>p, <1>12, <2>1
  <2>3. \A j \in 1..Len(J) : t[j] = IF j = i THEN c ELSE J[j]
    <3> TAKE j \in 1..Len(J)
    <3>1. CASE j < i + 1
      BY <1>9, <1>12, <1>p, <2>1, <2>2, <3>1
    <3>2. CASE j >= i + 1
      <4>1. t[j] = M[j + 1] /\ j + 1 \in 1..Len(M)
        BY <1>9, <1>12, <1>p, <2>1, <2>2, <3>2
      <4>2. M[j + 1] = J[(j + 1) - 1] /\ (j + 1) - 1 = j
        BY <1>9, <1>12, <1>p, <3>2, <4>1
      <4> QED BY <1>9, <3>2, <4>1, <4>2
    <3> QED BY <1>9, <3>1, <3>2
  <2>4. \A j \in 1..Len(J) : [J EXCEPT ![i] = c][j] = IF j = i THEN c ELSE J[j]
    BY <2>2
  <2>5. t = [j \in 1..Len(J) |-> t[j]]
    BY <2>1, <2>2
  <2>6. [J EXCEPT ![i] = c] = [j \in 1..Len(J) |-> [J EXCEPT ![i] = c][j]]
    BY <2>2
  <2>7. t = [J EXCEPT ![i] = c]
    BY <2>3, <2>4, <2>5, <2>6
  <2> QED BY <2>7 DEF t
<1>16. \A q \in NodeId :
         Kids(e)[q] = PutFor(Kids(l), p, c, r)[q]
  <2> TAKE q \in NodeId
  <2>1. CASE q = p
    <3>1. Kids(e)[p] = Tree!RemoveAt(M, i + 1)
      BY <1>1, <1>6, <1>10, <1>14 DEF OutOf
    <3>2. PutFor(Kids(l), p, c, r)[p] = [J EXCEPT ![i] = c]
      BY <1>1, <1>10 DEF Kids, PutFor, i
    <3> QED BY <1>15, <2>1, <3>1, <3>2
  <2>2. CASE q # p
    <3>1. ~Tree!Contains(Kids(m)[q], r)
      <4>1. ListOf(m, q, Kids(m)[q])
        BY <1>5, ListFacts DEF Kids
      <4> QED BY <1>5, <2>2, <4>1, PlaceInList
    <3>2. Kids(m) = PutBefore(Kids(l), p, c, r)
      BY <1>4, <1>5
    <3>3. Kids(m)[q] = Kids(l)[q]
      BY <2>2, <3>2 DEF Kids, PutBefore
    <3>4. Kids(e)[q] = Kids(m)[q]
      BY <1>6, <3>1 DEF OutOf
    <3>5. PutFor(Kids(l), p, c, r)[q] = Kids(l)[q]
      BY <2>2 DEF Kids, PutFor
    <3> QED BY <3>3, <3>4, <3>5
  <2> QED BY <2>1, <2>2
<1>17. Kids(e) = PutFor(Kids(l), p, c, r)
  BY <1>16 DEF Kids, PutFor
<1> QED BY <1>4, <1>5, <1>7, <1>17

\* The forest's sequences are the arena's lists, before a step and after it.
LEMMA TreeKids ==
  /\ Tree!NodeId = NodeId /\ Tree!Created = Allocated(dom)
  /\ \A c : Tree!Without(c) = OutOf(Kids(dom), c)
  BY DEF Tree!NodeId, NodeId, Tree!Created, Allocated, Tree!Without, OutOf, Kids

\* Nodes outside the subtree of c are outside its family.
LEMMA NotInFamily ==
  ASSUME WellFormed(dom), NEW c \in NodeId, NEW p \in NodeId, ~Contains(dom, c, p)
  PROVE  p \notin Tree!Family(c)
  BY FamilyIsSubtree DEF Subtree

\* appendChild past its guard.
LEMMA AppendStep ==
  ASSUME WellFormed(dom), NEW p \in Allocated(dom), NEW c \in Allocated(dom),
         ~Contains(dom, c, p), dom' = AppendChild(Lift(dom, c), p, c)
  PROVE  Tree!Next
<1>1. p \in NodeId /\ c \in NodeId
  BY ArenaFields DEF WellFormed
<1>2. dom'.size = dom.size /\ Kids(dom') = PutLast(OutOf(Kids(dom), c), p, c)
  BY MoveToEndKids
<1>3. p \notin Tree!Family(c)
  BY <1>1, NotInFamily
<1>4. Tree!Append_(p, c)
  BY <1>2, <1>3, TreeKids DEF Tree!Append_, PutLast, Kids
<1> QED BY <1>4, TreeKids DEF Tree!Next

\* insertBefore past its guard.
LEMMA InsertStep ==
  ASSUME WellFormed(dom), NEW p \in Allocated(dom), NEW c \in Allocated(dom),
         NEW r \in NodeId, dom.parent[r] = p, c # r, ~Contains(dom, c, p),
         dom' = InsertBefore(Lift(dom, c), p, c, r)
  PROVE  Tree!Next
<1>1. p \in NodeId /\ c \in NodeId
  BY ArenaFields DEF WellFormed
<1>2. dom'.size = dom.size /\ Kids(dom') = PutBefore(OutOf(Kids(dom), c), p, c, r)
  BY MoveBeforeKids
<1>3. p \notin Tree!Family(c)
  BY <1>1, NotInFamily
<1>4. Tree!Insert(p, c, r)
  BY <1>2, <1>3, TreeKids DEF Tree!Insert, PutBefore, Kids
<1>5. r \in Tree!ToSet(Kids(dom)[p])
  BY <1>1, ListIsChildren DEF Kids
<1> QED BY <1>4, <1>5, TreeKids DEF Tree!Next, Kids

\* replaceChild past its guard.
LEMMA ReplaceStep ==
  ASSUME WellFormed(dom), NEW p \in Allocated(dom), NEW c \in Allocated(dom),
         NEW r \in NodeId, dom.parent[r] = p, c # r, ~Contains(dom, c, p),
         dom' = Detach(InsertBefore(Lift(dom, c), p, c, r), r)
  PROVE  Tree!Next
<1>1. p \in NodeId /\ c \in NodeId
  BY ArenaFields DEF WellFormed
<1>2. dom'.size = dom.size /\ Kids(dom') = PutFor(OutOf(Kids(dom), c), p, c, r)
  BY ReplaceKids
<1>3. p \notin Tree!Family(c)
  BY <1>1, NotInFamily
<1>4. Tree!Replace(p, c, r)
  BY <1>2, <1>3, TreeKids DEF Tree!Replace, PutFor, Kids
<1>5. r \in Tree!ToSet(Kids(dom)[p])
  BY <1>1, ListIsChildren DEF Kids
<1> QED BY <1>4, <1>5, TreeKids DEF Tree!Next, Kids

\* removeChild of a child.
LEMMA RemoveStep ==
  ASSUME WellFormed(dom), NEW c \in Allocated(dom), dom' = Detach(dom, c)
  PROVE  Tree!Next
<1>1. c \in NodeId /\ dom \in Arena
  BY ArenaFields DEF WellFormed
<1>2. Kids(dom') = OutOf(Kids(dom), c)
  BY <1>1, DetachKids
<1>3. dom'.size = dom.size
  BY <1>1 DEF Detach, Arena
<1>4. Tree!Remove_(c)
  BY <1>2, <1>3, TreeKids DEF Tree!Remove_, Kids
<1> QED BY <1>4, TreeKids DEF Tree!Next

\* Whatever gives p and the new nodes children among the new ones, each after its
\* parent, and changes no other list, populates p.
LEMMA PopulateStep ==
  ASSUME WellFormed(dom), WellFormed(dom'), NEW p \in Allocated(dom),
         dom'.size \in dom.size..MaxNodes,
         \A q \in NodeId : q # p /\ q \notin dom.size..(dom'.size - 1) =>
           ChildrenInOrder(dom', q) = ChildrenInOrder(dom, q),
         \A k \in NodeId : LET q == dom'.parent[k] IN
           q = p \/ q \in dom.size..(dom'.size - 1) =>
             k \in dom.size..(dom'.size - 1) /\ k > q
  PROVE  Tree!Next
<1> DEFINE n == dom'.size
           new == dom.size..(n - 1)
<1>1. p \in NodeId /\ dom.size \in 1..MaxNodes
  BY ArenaFields DEF WellFormed
<1>2. \A q \in NodeId : Tree!ToSet(ChildrenInOrder(dom', q)) = {k \in NodeId : dom'.parent[k] = q}
  BY ListIsChildren
<1>3. \A q \in NodeId : ListOf(dom', q, ChildrenInOrder(dom', q))
  BY ListFacts
<1>4. \A q \in NodeId : ChildrenInOrder(dom', q) \in Seq(NodeId)
  BY <1>3 DEF ListOf
<1>5. \A q \in NodeId : Tree!IsInjective(ChildrenInOrder(dom', q))
  <2> TAKE q \in NodeId
  <2> DEFINE K == ChildrenInOrder(dom', q)
  <2>1. K \in Seq(NodeId) /\ \A i, j \in 1..Len(K) : K[i] = K[j] => i = j
    <3>1. ListOf(dom', q, K)
      BY <1>3
    <3> HIDE DEF K
    <3> QED BY <3>1 DEF ListOf
  <2> HIDE DEF K
  <2>2. Tree!IsInjective(K)
    BY <2>1 DEF Tree!IsInjective
  <2> QED BY <2>2 DEF K
<1>6. ASSUME NEW q \in NodeId \cap (new \cup {p})
      PROVE  /\ Tree!ToSet(ChildrenInOrder(dom', q)) \subseteq new
             /\ \A k \in Tree!ToSet(ChildrenInOrder(dom', q)) : k > q
             /\ \A r \in NodeId \ {q} :
                  Tree!ToSet(ChildrenInOrder(dom', q)) \cap Tree!ToSet(ChildrenInOrder(dom', r)) = {}
  BY <1>2
<1>7. Tree!Populate(p, n)
  BY <1>4, <1>5, <1>6, TreeKids DEF Tree!Populate
<1> QED BY <1>7, TreeKids DEF Tree!Next

\* textContent, to nothing or to a text node.
LEMMA TextStep ==
  ASSUME WellFormed(dom), NEW node \in Allocated(dom), WellFormed(dom'),
         \/ dom' = Unlink(dom, node)
         \/ /\ dom.size < MaxNodes
            /\ dom' = AppendChild(Alloc(Unlink(dom, node)), node, Unlink(dom, node).size)
  PROVE  Tree!Next
<1> DEFINE bare == Unlink(dom, node)
<1>t. /\ dom.size \in Nat /\ dom.size >= 1 /\ dom.size <= MaxNodes /\ MaxNodes \in Nat
      /\ node \in NodeId /\ node \in 0..(dom.size - 1)
  <2>1. dom.size \in 1..MaxNodes /\ node \in NodeId
    BY ArenaFields DEF WellFormed
  <2> QED BY <2>1, SizeAssumption DEF Allocated
<1>w. WellFormed(bare) /\ bare.size = dom.size
  BY <1>t, UnlinkPreserves
<1>1. \A q \in NodeId : q # node => ChildrenInOrder(bare, q) = ChildrenInOrder(dom, q)
  <2>1. Kids(bare) = [Kids(dom) EXCEPT ![node] = <<>>]
    BY <1>t, UnlinkKids
  <2> HIDE DEF bare
  <2> QED BY <2>1 DEF Kids
<1>2. \A k \in NodeId : bare.parent[k] # node
  BY <1>w, <1>t, UnlinkPreserves, ChildlessParent
<1>3. \A k \in NodeId : bare.parent[k] # dom.size
  <2>1. \A k \in NodeId : bare.parent[k] # None => bare.parent[k] \in Allocated(bare)
    BY <1>w, ParentsAllocated
  <2>2. Allocated(bare) = 0..(dom.size - 1)
    BY <1>w DEF Allocated
  <2> QED BY <2>1, <2>2, <1>t DEF None
<1> HIDE DEF bare
<1>4. CASE dom' = bare
  <2>2. \A q \in NodeId : q # node => ChildrenInOrder(dom', q) = ChildrenInOrder(dom, q)
    BY <1>1, <1>4
  <2>3. dom'.size = dom.size /\ dom.size..(dom'.size - 1) = {}
    BY <1>w, <1>t, <1>4
  <2> QED BY <1>t, <1>2, <1>4, <2>2, <2>3, PopulateStep
<1>5. CASE dom.size < MaxNodes /\ dom' = AppendChild(Alloc(bare), node, bare.size)
  <2> DEFINE long == Alloc(bare)
  <2>1. dom.size < MaxNodes /\ dom' = AppendChild(long, node, dom.size)
    BY <1>w, <1>5
  <2>n. dom.size \in NodeId
    BY <1>t, <2>1, SizeAssumption DEF NodeId
  <2>2. /\ WellFormed(long) /\ long.parent[dom.size] = None
        /\ Kids(long) = Kids(bare)
    BY <1>w, <2>1, AllocPreserves, AllocKids
  <2>3. long.size = dom.size + 1 /\ long.parent = bare.parent
    BY <1>w, <1>t DEF Alloc, WellFormed, Arena
  <2> HIDE DEF long
  <2>4. Kids(dom') = PutLast(Kids(long), node, dom.size)
    BY <1>t, <2>n, <2>1, <2>2, AppendKids
  <2>5. \A q \in NodeId : q # node => ChildrenInOrder(dom', q) = ChildrenInOrder(dom, q)
    BY <1>1, <2>2, <2>4 DEF PutLast, Kids
  <2>6. dom'.size = dom.size + 1 /\ dom'.parent = [long.parent EXCEPT ![dom.size] = node]
    <3>1. long \in Arena
      BY <2>2 DEF WellFormed
    <3> QED BY <2>1, <2>3, <3>1 DEF AppendChild, Arena
  <2>7. dom.size..(dom'.size - 1) = {dom.size} /\ dom'.size \in dom.size..MaxNodes
    BY <1>t, <2>1, <2>6
  <2>8. ASSUME NEW k \in NodeId, dom'.parent[k] = node \/ dom'.parent[k] = dom.size
        PROVE  k = dom.size /\ k > dom'.parent[k]
    <3>1. bare.parent \in Link
      BY <1>w, ArenaFields DEF WellFormed
    <3>2. dom'.parent[k] = IF k = dom.size THEN node ELSE bare.parent[k]
      BY <2>n, <2>3, <2>6, <3>1 DEF Link
    <3> QED BY <1>2, <1>3, <1>t, <2>8, <3>2
  <2> QED BY <1>t, <2>5, <2>7, <2>8, PopulateStep
<1> QED BY <1>4, <1>5 DEF bare

\* innerHTML.
LEMMA InnerHtmlStep ==
  ASSUME WellFormed(dom), WellFormed(dom'), NEW node \in Allocated(dom),
         NEW s, WellFormed(s), NEW size \in dom.size..MaxNodes,
         NEW f \in Layouts(dom, s, Document, node, size),
         dom' = Graft(Unlink(dom, node), s, Document, f, size)
  PROVE  Tree!Next
<1> DEFINE bare == Unlink(dom, node)
           sub == Subtree(s, Document)
           copies == {f[x] : x \in DOMAIN f \ {Document}}
<1>t. /\ dom.size \in Nat /\ dom.size >= 1 /\ dom.size <= MaxNodes /\ MaxNodes \in Nat
      /\ node \in NodeId /\ node \in 0..(dom.size - 1) /\ size \in Int
      /\ node \in 0..(size - 1) /\ Document \in NodeId
  <2>1. dom.size \in 1..MaxNodes /\ node \in NodeId
    BY ArenaFields DEF WellFormed
  <2> QED BY <2>1, SizeAssumption, NodeIds DEF Allocated
<1>w. WellFormed(bare) /\ bare.size = dom.size /\ bare.first_child[node] = None
  BY <1>t, UnlinkPreserves
<1>1. \A q \in NodeId : q # node => ChildrenInOrder(bare, q) = ChildrenInOrder(dom, q)
  <2>1. Kids(bare) = [Kids(dom) EXCEPT ![node] = <<>>]
    BY <1>t, UnlinkKids
  <2> HIDE DEF bare
  <2> QED BY <2>1 DEF Kids
<1>2. \A k \in NodeId : bare.parent[k] # node
  BY <1>w, <1>t, ChildlessParent
<1>3. \A k \in NodeId : bare.parent[k] \notin dom.size..(size - 1)
  <2>1. \A k \in NodeId : bare.parent[k] # None => bare.parent[k] \in Allocated(bare)
    BY <1>w, ParentsAllocated
  <2>2. Allocated(bare) = 0..(dom.size - 1)
    BY <1>w DEF Allocated
  <2> QED BY <2>1, <2>2, <1>t DEF None
<1>4. f \in Layouts(bare, s, Document, node, size)
  BY <1>w DEF Layouts
<1> HIDE DEF bare
<1>5. Grafted(bare, s, Document, node, size, f, dom')
  <2>1. size \in bare.size..MaxNodes
    BY <1>w
  <2>2. Grafted(bare, s, Document, node, size, f, Graft(bare, s, Document, f, size))
    BY <1>t, <1>w, <1>4, <2>1, GraftLinks
  <2> QED BY <2>2 DEF bare
<1>6. /\ DOMAIN f = sub /\ Document \in sub /\ f[Document] = node
      /\ \A x \in sub : f[x] \in NodeId
      /\ \A x \in sub \ {Document} : f[x] \in dom.size..(size - 1)
      /\ \A x \in sub \ {Document} : dom'.parent[f[x]] = Image(f, s.parent[x])
      /\ \A y \in NodeId \ copies : dom'.parent[y] = bare.parent[y]
      /\ dom'.size = size
  BY <1>5, <1>w DEF Grafted
<1>7. \A q \in NodeId : q # node /\ q \notin dom.size..(dom'.size - 1) =>
        ChildrenInOrder(dom', q) = ChildrenInOrder(dom, q)
  <2> TAKE q \in NodeId
  <2> HAVE q # node /\ q \notin dom.size..(dom'.size - 1)
  <2>1. \A x \in sub : f[x] # q
    BY <1>6
  <2>2. bare.size \in Int
    BY <1>w, <1>t
  <2>3. ChildrenInOrder(dom', q) = ChildrenInOrder(bare, q)
    BY <1>t, <1>w, <1>5, <2>1, <2>2, GraftKids
  <2> QED BY <1>1, <2>3
<1>8. ASSUME NEW k \in NodeId, NEW q, q = dom'.parent[k],
             q = node \/ q \in dom.size..(dom'.size - 1)
      PROVE  k \in dom.size..(dom'.size - 1) /\ k > q
  <2>1. k \in copies
    BY <1>2, <1>3, <1>6, <1>8
  <2>2. PICK x \in sub \ {Document} : k = f[x]
    BY <1>6, <2>1
  <2>3. s.parent[x] \in sub /\ s.parent[x] # None
    <3>1. s.parent[x] \in sub
      BY <1>t, <2>2, SubtreeLinks
    <3> QED BY <3>1, NodeIds DEF Subtree
  <2>4. q = f[s.parent[x]]
    BY <1>6, <1>8, <2>2, <2>3 DEF Image
  <2>5. f[s.parent[x]] < f[x]
    BY <2>2 DEF Layouts
  <2>6. f[s.parent[x]] \in Int /\ f[x] \in Int
    BY <1>6, <2>2, <2>3, NodeIds
  <2> QED BY <1>6, <2>2, <2>4, <2>5, <2>6
<1> QED BY <1>6, <1>7, <1>8, PopulateStep

\* The lists once the subtree sub is copied to the new nodes by f.
WithCopy(lists, new, sub, f) ==
  [q \in NodeId |-> IF q \in new
                    THEN LET x == CHOOSE x \in sub : f[x] = q
                         IN [i \in DOMAIN lists[x] |-> f[lists[x][i]]]
                    ELSE lists[q]]

\* cloneNode(true).
LEMMA CloneStep ==
  ASSUME WellFormed(dom), WellFormed(dom'), NEW node \in Allocated(dom),
         NEW size \in dom.size + 1 .. MaxNodes,
         NEW f \in Layouts(dom, dom, node, dom.size, size),
         dom' = Graft(dom, dom, node, f, size)
  PROVE  Tree!Next
<1> DEFINE sub == Subtree(dom, node)
           new == dom.size..(size - 1)
           kids == Kids(dom)
<1>t. /\ dom.size \in Nat /\ dom.size >= 1 /\ dom.size < size /\ size <= MaxNodes
      /\ size \in Int /\ MaxNodes \in Nat
      /\ node \in NodeId /\ dom.size \in NodeId /\ new \subseteq NodeId
  <2>1. dom.size \in 1..MaxNodes /\ node \in NodeId
    BY ArenaFields DEF WellFormed
  <2> QED BY <2>1, SizeAssumption DEF NodeId
<1>1. Grafted(dom, dom, node, dom.size, size, f, dom')
  <2>1. size \in dom.size..MaxNodes /\ dom.size \in 0..(size - 1)
    BY <1>t
  <2> QED BY <1>t, <2>1, GraftLinks
<1>2. /\ DOMAIN f = sub /\ sub \subseteq NodeId /\ node \in sub /\ f[node] = dom.size
      /\ \A x, y \in sub : f[x] = f[y] => x = y
      /\ \A x \in sub \ {node} : f[x] \in dom.size..(size - 1)
      /\ dom'.size = size
  BY <1>1 DEF Grafted
<1>3. f \in [sub -> new] /\ \A y \in new : \E x \in sub : f[x] = y
  <2>1. {dom.size} \cup new = new
    BY <1>t
  <2> QED BY <2>1 DEF Layouts
<1>4. /\ \A x \in sub : ChildrenInOrder(dom', f[x]) = Renamed(f, ChildrenInOrder(dom, x))
      /\ \A q \in NodeId : (\A x \in sub : f[x] # q) =>
           ChildrenInOrder(dom', q) = ChildrenInOrder(dom, q)
  <2>1. dom.size \in Int
    BY <1>t
  <2> QED BY <1>t, <1>1, <2>1, GraftKids
<1> HIDE DEF sub
<1>5. ASSUME NEW q \in NodeId
      PROVE  Kids(dom')[q] = IF q \in new
                             THEN LET x == CHOOSE x \in sub : f[x] = q
                                  IN [i \in DOMAIN kids[x] |-> f[kids[x][i]]]
                             ELSE kids[q]
  <2>1. CASE q \in new
    <3> DEFINE x == CHOOSE x \in sub : f[x] = q
    <3>1. x \in sub /\ f[x] = q
      BY <1>3, <2>1
    <3> HIDE DEF x
    <3>2. Kids(dom')[q] = Renamed(f, kids[x])
      BY <1>2, <1>4, <3>1 DEF Kids
    <3> QED BY <2>1, <3>2 DEF Renamed, x
  <2>2. CASE q \notin new
    <3>1. \A x \in sub : f[x] # q
      BY <1>3, <2>2
    <3> QED BY <1>4, <2>2, <3>1 DEF Kids
  <2> QED BY <2>1, <2>2
<1>6. Tree!Family(node) = sub
  BY <1>t, FamilyIsSubtree DEF sub
<1>7. Kids(dom') = WithCopy(kids, new, sub, f)
  BY <1>5 DEF Kids, WithCopy
<1>8. Tree!Copy(node)
  <2>1. dom'.size \in dom.size + 1 .. MaxNodes
    BY <1>2
  <2>2. dom.size..(dom'.size - 1) = new
    BY <1>2
  <2> HIDE DEF new
  <2>3. \E g \in [Tree!Family(node) -> dom.size..(dom'.size - 1)] :
          /\ g[node] = dom.size
          /\ \A y \in dom.size..(dom'.size - 1) : \E x \in Tree!Family(node) : g[x] = y
          /\ \A x, y \in Tree!Family(node) : g[x] = g[y] => x = y
          /\ Kids(dom') = WithCopy(Kids(dom), dom.size..(dom'.size - 1), Tree!Family(node), g)
    BY <1>2, <1>3, <1>6, <1>7, <2>2
  <2> QED BY <2>1, <2>3, Zenon DEF Tree!Copy, Kids, WithCopy, NodeId, Tree!NodeId
<1> QED BY <1>8, TreeKids DEF Tree!Next

\* A call that leaves the arena alone.
LEMMA RefuseStep == ASSUME dom' = dom PROVE Tree!Next
<1>1. Tree!Refuse
  BY DEF Tree!Refuse, Tree!vars
<1> QED BY <1>1 DEF Tree!Next

\* createElement, createTextNode, cloneNode(false).
LEMMA CreateStep ==
  ASSUME WellFormed(dom), CreateNode
  PROVE  Tree!Next
<1>1. dom.size < MaxNodes /\ dom' = Alloc(dom)
  BY DEF CreateNode
<1>2. Kids(dom') = Kids(dom)
  BY <1>1, AllocKids
<1>3. dom'.size = dom.size + 1
  BY <1>1 DEF Alloc, WellFormed, Arena
<1>4. Tree!Create
  BY <1>1, <1>2, <1>3 DEF Tree!Create, Kids
<1> QED BY <1>4 DEF Tree!Next

\* Every call of a disciplined script is one operation of the forest.
LEMMA StepImplements ==
  ASSUME Disciplined, WellFormed(dom), [Next]_vars
  PROVE  [Tree!Next]_(Tree!vars)
<1>t. dom \in Arena /\ dom.size \in 1..MaxNodes /\ Allocated(dom) \subseteq NodeId
  BY ArenaFields DEF WellFormed
<1>w. WellFormed(dom')
  BY StepPreserves
<1>1. CASE CreateNode
  BY <1>1, CreateStep
<1>2. ASSUME NEW node \in Allocated(dom), NEW text \in {"", "text"},
             JsSetTextContent(node, text)
      PROVE  Tree!Next
  <2>1. \/ dom' = Unlink(dom, node)
        \/ /\ dom.size < MaxNodes
           /\ dom' = AppendChild(Alloc(Unlink(dom, node)), node, Unlink(dom, node).size)
    <3>1. CASE text = ""
      BY <1>2, <3>1 DEF JsSetTextContent, SetTextContent
    <3>2. CASE text # ""
      BY <1>2, <3>2 DEF JsSetTextContent, SetTextContent
    <3> QED BY <3>1, <3>2
  <2> QED BY <2>1, <1>w, TextStep
<1>3. ASSUME NEW node \in Allocated(dom), NEW parsed \in Fragments,
             JsSetInnerHtml(node, parsed)
      PROVE  Tree!Next
  <2>a. PICK size \in dom.size..MaxNodes :
               \E f \in Layouts(dom, parsed, Document, node, size) :
                 dom' = Graft(Unlink(dom, node), parsed, Document, f, size)
    BY <1>3 DEF JsSetInnerHtml
  <2>1. PICK f \in Layouts(dom, parsed, Document, node, size) :
               dom' = Graft(Unlink(dom, node), parsed, Document, f, size)
    BY <2>a
  <2>2. WellFormed(parsed)
    BY FragmentsAssumption
  <2> QED BY <1>w, <2>1, <2>2, InnerHtmlStep
<1>4. ASSUME NEW node \in Allocated(dom), JsCloneDeep(node)
      PROVE  Tree!Next
  <2>a. PICK size \in dom.size + 1 .. MaxNodes :
               \E f \in Layouts(dom, dom, node, dom.size, size) :
                 dom' = Graft(dom, dom, node, f, size)
    BY <1>4 DEF JsCloneDeep
  <2>1. PICK f \in Layouts(dom, dom, node, dom.size, size) :
               dom' = Graft(dom, dom, node, f, size)
    BY <2>a
  <2> QED BY <1>w, <2>1, CloneStep
<1>5. ASSUME NEW node \in Allocated(dom), NEW child \in Allocated(dom),
             JsAppendChild(node, child)
      PROVE  Tree!Next
  BY <1>5, RefuseStep, AppendStep DEF JsAppendChild
<1>6. ASSUME NEW node \in Allocated(dom), NEW child \in Allocated(dom),
             JsRemoveChild(node, child)
      PROVE  Tree!Next
  BY <1>6, RefuseStep, RemoveStep DEF JsRemoveChild
<1>7. ASSUME NEW node \in Allocated(dom), NEW new \in Allocated(dom),
             NEW reference \in Allocated(dom) \cup {None},
             ~Rejected(node, new, reference), JsInsertBefore(node, new, reference)
      PROVE  Tree!Next
  <2>1. ~Contains(dom, new, node) /\ new # reference
    BY <1>7 DEF Rejected
  <2>2. CASE reference = None
    BY <2>1, <2>2, <1>7, AppendStep DEF JsInsertBefore
  <2>3. CASE reference # None /\ dom.parent[reference] # node
    BY <2>3, <1>7, RefuseStep DEF JsInsertBefore
  <2>4. CASE reference # None /\ dom.parent[reference] = node
    BY <2>1, <2>4, <1>7, <1>t, InsertStep DEF JsInsertBefore
  <2> QED BY <2>2, <2>3, <2>4
<1>8. ASSUME NEW node \in Allocated(dom), NEW new \in Allocated(dom),
             NEW old \in Allocated(dom),
             ~Rejected(node, new, old), JsReplaceChild(node, new, old)
      PROVE  Tree!Next
  <2>1. ~Contains(dom, new, node) /\ new # old
    BY <1>8 DEF Rejected
  <2>2. CASE dom.parent[old] # node
    BY <2>2, <1>8, RefuseStep DEF JsReplaceChild
  <2>3. CASE dom.parent[old] = node
    BY <2>1, <2>3, <1>8, <1>t, ReplaceStep DEF JsReplaceChild
  <2> QED BY <2>2, <2>3
<1>9. CASE UNCHANGED vars
  BY <1>9, RefuseStep DEF vars
<1>10. CASE Next
  BY <1>1, <1>2, <1>3, <1>4, <1>5, <1>6, <1>7, <1>8, <1>10, Zenon DEF Next
<1> QED BY <1>9, <1>10

\* The empty document is the empty forest.
LEMMA InitImplements == ASSUME Init PROVE Tree!Init
<1>1. dom = New /\ WellFormed(dom)
  BY NewWellFormed DEF Init
<1>2. dom.size = 1 /\ \A p \in NodeId : dom.first_child[p] = None
  BY <1>1 DEF New, Empty
<1>3. \A p \in NodeId : ChildrenInOrder(dom, p) = <<>>
  <2> TAKE p \in NodeId
  <2>1. Walk(dom.next_sibling, dom.first_child[p], <<>>)
    BY <1>2, WalkNowhere
  <2> QED BY <1>1, <2>1, WalkIsOrder
<1> QED BY <1>2, <1>3, TreeKids DEF Tree!Init

----------------------------------------------------------------------------
(* The theorems. *)

\* Whatever sequence of DOM calls a disciplined script makes, the arena stays
\* well formed: the inductive invariant behind the theorems below.
THEOREM ArenaWellFormed ==
  ASSUME Disciplined
  PROVE  Spec => []WellFormed(dom)
<1>1. Init => WellFormed(dom)
  BY NewWellFormed DEF Init
<1>2. WellFormed(dom) /\ [Next]_vars => WellFormed(dom)'
  BY StepPreserves
<1> QED BY <1>1, <1>2, PTL DEF Spec

\* The arena keeps its shape and no link indexes past its end.
THEOREM Typing == ASSUME Disciplined PROVE Spec => []TypeOK
<1>1. WellFormed(dom) => TypeOK
  BY NotPointedAt DEF WellFormed, TypeOK
<1> QED BY <1>1, ArenaWellFormed, PTL

\* Parent, child and sibling pointers never contradict each other.
THEOREM PointersAgree == ASSUME Disciplined PROVE Spec => []LinksAgree
<1>1. WellFormed(dom) => LinksAgree
  BY DEF WellFormed, LinksAgree
<1> QED BY <1>1, ArenaWellFormed, PTL

\* The children iterator misses no child and yields no stranger.
THEOREM IterationComplete == ASSUME Disciplined PROVE Spec => []ChildrenComplete
<1>1. WellFormed(dom) => ChildrenComplete
  BY ChildrenAreAll DEF ChildrenComplete
<1> QED BY <1>1, ArenaWellFormed, PTL

\* No node becomes its own ancestor: the walks of contains end.
THEOREM TreeAcyclic == ASSUME Disciplined PROVE Spec => []Acyclic
<1>1. WellFormed(dom) => Acyclic
  BY DEF WellFormed, Acyclic
<1> QED BY <1>1, ArenaWellFormed, PTL

\* No sibling list closes on itself: the walks of the children iterator end.
THEOREM SiblingWalksEnd == ASSUME Disciplined PROVE Spec => []SiblingsEnd
<1>1. WellFormed(dom) => SiblingsEnd
  BY DEF WellFormed, SiblingsEnd
<1> QED BY <1>1, ArenaWellFormed, PTL

\* Under a disciplined script, the pointer surgery of dom/mod.rs behind every
\* binding call of js/dom.rs is one operation on a forest of ordered children:
\* a moved, replaced, copied or parsed subtree lands where the call says, and no
\* other list of children changes.
THEOREM ArenaImplementsTree == ASSUME Disciplined PROVE Spec => ImplementsTree
<1>1. Init => Tree!Init
  BY InitImplements
<1>2. WellFormed(dom) /\ [Next]_vars => [Tree!Next]_(Tree!vars)
  BY StepImplements
<1> QED BY <1>1, <1>2, ArenaWellFormed, PTL DEF Spec, ImplementsTree, Tree!Spec
============================================================================
