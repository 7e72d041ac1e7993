-------------------------- MODULE BrowserTabsProofs --------------------------
(***************************************************************************)
(* The shell's tabs and back-forward cache, for any number of tabs, loads  *)
(* and cached pages.                                                       *)
(*                                                                         *)
(* IInv says where pages are.  Sound: the cache holds one entry of a load  *)
(* and one of a URL.  Apart: a page is shown in one tab or cached once, so *)
(* that moving it takes it from one place.  Numbered: every page has been  *)
(* loaded already, so that a new load is no page there is.  Followed: each *)
(* page carries its own scroll position.  The properties a user sees       *)
(* follow from these, and none of them is inductive without the others:    *)
(* scrolling writes the position of one load, which is right only when no  *)
(* other tab or entry shows the same load.                                 *)
(***************************************************************************)
EXTENDS BrowserTabs, SequenceTheorems, WellFoundedInduction, TLAPS

(* Sequences and the cache. *)

\* An entry of the back-forward cache.
Entry == [page : Page, scroll_y : Scroll]

\* A cache in order: one entry of a load, and one of a URL.
Sound(cache) ==
  /\ cache \in Seq(Entry) /\ Len(cache) <= BFCACHE_CAP
  /\ \A i, j \in DOMAIN cache : cache[i].page.load = cache[j].page.load => i = j
  /\ \A i, j \in DOMAIN cache : cache[i].page.url = cache[j].page.url => i = j

\* Every entry of part is one of cache's.
Within(part, cache) == \A i \in DOMAIN part : \E j \in DOMAIN cache : part[i] = cache[j]

\* A set of naturals has a least member.
LEMMA LeastMember ==
  ASSUME NEW S, S \subseteq Nat, S # {}
  PROVE  \E m \in S : \A k \in S : m <= k
<1>1. PICK m \in S : \A k \in S : <<k, m>> \notin OpToRel(<, Nat)
  BY WFMin, NatLessThanWellFounded
<1>2. \A k \in S : ~(k < m)
  BY <1>1 DEF OpToRel
<1>3. \A k \in S : m <= k
  BY <1>2
<1> QED
  BY <1>3

\* What SequencesExt's InsertAt and RemoveAt do to each place.
LEMMA Inserted ==
  ASSUME NEW S, NEW s \in Seq(S), NEW p \in 1..(Len(s) + 1), NEW e \in S
  PROVE  LET t == InsertAt(s, p, e) IN
         /\ t \in Seq(S) /\ Len(t) = Len(s) + 1
         /\ \A i \in 1..(Len(s) + 1) :
              t[i] = IF i < p THEN s[i] ELSE IF i = p THEN e ELSE s[i - 1]
<1> DEFINE a == SubSeq(s, 1, p - 1)
           b == SubSeq(s, p, Len(s))
<1>0. Len(s) \in Nat /\ DOMAIN s = 1..Len(s) /\ \A i \in 1..Len(s) : s[i] \in S
  OBVIOUS
<1>1. /\ a \in Seq(S) /\ Len(a) = p - 1
      /\ \A i \in 1..(p - 1) : a[i] = s[i]
  <2>1. \A i \in 1..(p - 1) : s[i] \in S
    BY <1>0
  <2> QED
    BY <1>0, <2>1, SubSeqProperties
<1>2. /\ b \in Seq(S) /\ Len(b) = Len(s) - p + 1
      /\ \A i \in 1..(Len(s) - p + 1) : b[i] = s[p + i - 1]
  <2>1. \A i \in p..Len(s) : s[i] \in S
    BY <1>0
  <2> QED
    BY <1>0, <2>1, SubSeqProperties
<1>3. InsertAt(s, p, e) = a \o <<e>> \o b
  BY DEF InsertAt
<1> HIDE DEF a, b
<1>4. /\ a \o <<e>> \in Seq(S) /\ Len(a \o <<e>>) = p
      /\ \A i \in 1..p : (a \o <<e>>)[i] = IF i <= p - 1 THEN a[i] ELSE e
  BY <1>0, <1>1
<1> DEFINE c == a \o <<e>>
<1>5. c \in Seq(S) /\ Len(c) = p /\ \A i \in 1..p : c[i] = IF i < p THEN s[i] ELSE e
  BY <1>0, <1>1, <1>4
<1>6. InsertAt(s, p, e) = c \o b
  BY <1>3
<1> HIDE DEF c
<1>7. /\ c \o b \in Seq(S) /\ Len(c \o b) = Len(s) + 1
      /\ \A i \in 1..(Len(s) + 1) : (c \o b)[i] = IF i <= p THEN c[i] ELSE b[i - p]
  <2>1. Len(c) + Len(b) = Len(s) + 1 /\ p = Len(c)
    BY <1>0, <1>2, <1>5
  <2> QED
    BY <1>2, <1>5, <2>1, ConcatProperties
<1>8. \A i \in 1..(Len(s) + 1) : (c \o b)[i] = IF i < p THEN s[i] ELSE IF i = p THEN e ELSE s[i - 1]
  BY <1>0, <1>2, <1>5, <1>7
<1> QED
  BY <1>6, <1>7, <1>8

\* What is left after a removal, place by place.
LEMMA Removed ==
  ASSUME NEW S, NEW s \in Seq(S), NEW p \in 1..Len(s)
  PROVE  LET t == RemoveAt(s, p) IN
         /\ t \in Seq(S) /\ Len(t) = Len(s) - 1
         /\ \A i \in 1..(Len(s) - 1) : t[i] = IF i < p THEN s[i] ELSE s[i + 1]
<1> DEFINE a == SubSeq(s, 1, p - 1)
           b == SubSeq(s, p + 1, Len(s))
<1>0. Len(s) \in Nat /\ DOMAIN s = 1..Len(s) /\ \A i \in 1..Len(s) : s[i] \in S
  OBVIOUS
<1>1. /\ a \in Seq(S) /\ Len(a) = p - 1
      /\ \A i \in 1..(p - 1) : a[i] = s[i]
  <2>1. \A i \in 1..(p - 1) : s[i] \in S
    BY <1>0
  <2> QED
    BY <1>0, <2>1, SubSeqProperties
<1>2. /\ b \in Seq(S) /\ Len(b) = Len(s) - p
      /\ \A i \in 1..(Len(s) - p) : b[i] = s[p + i]
  <2>1. \A i \in (p + 1)..Len(s) : s[i] \in S
    BY <1>0
  <2>2. /\ b \in Seq(S) /\ Len(b) = IF p + 1 <= Len(s) THEN Len(s) - (p + 1) + 1 ELSE 0
        /\ \A i \in 1..(Len(s) - (p + 1) + 1) : b[i] = s[p + 1 + i - 1]
    BY <1>0, <2>1, SubSeqProperties
  <2>3. PICK n \in Nat : n = Len(s) /\ p \in 1..n
    BY <1>0
  <2>4. /\ Len(s) - (p + 1) + 1 = Len(s) - p
        /\ (IF p + 1 <= Len(s) THEN Len(s) - (p + 1) + 1 ELSE 0) = Len(s) - p
        /\ \A i \in 1..(Len(s) - p) : p + 1 + i - 1 = p + i
    BY <2>3
  <2> HIDE DEF b
  <2> QED
    BY <2>2, <2>4
<1>3. RemoveAt(s, p) = a \o b
  BY DEF RemoveAt
<1> HIDE DEF a, b
<1>4. /\ a \o b \in Seq(S) /\ Len(a \o b) = Len(s) - 1
      /\ \A i \in 1..(Len(s) - 1) : (a \o b)[i] = IF i <= p - 1 THEN a[i] ELSE b[i - (p - 1)]
  <2>1. Len(a) + Len(b) = Len(s) - 1 /\ p - 1 = Len(a)
    BY <1>0, <1>1, <1>2
  <2>2. /\ a \o b \in Seq(S) /\ Len(a \o b) = Len(a) + Len(b)
        /\ \A i \in 1..(Len(a) + Len(b)) :
             (a \o b)[i] = IF i <= Len(a) THEN a[i] ELSE b[i - Len(a)]
    BY <1>1, <1>2, ConcatProperties
  <2> QED
    BY <2>1, <2>2
<1>5. \A i \in 1..(Len(s) - 1) : (a \o b)[i] = IF i < p THEN s[i] ELSE s[i + 1]
  BY <1>0, <1>1, <1>2, <1>4
<1> QED
  BY <1>3, <1>4, <1>5

\* Drop keeps the entries of the other URLs, once each.
LEMMA Dropped ==
  ASSUME NEW cache, Sound(cache), NEW url
  PROVE  LET rest == Drop(cache, url) IN
         /\ Sound(rest) /\ Within(rest, cache)
         /\ \A i \in DOMAIN rest : rest[i].page.url # url
<1> DEFINE Step(it, n) ==
             IF n = 0 THEN <<>>
             ELSE IF cache[n].page.url = url THEN it[n - 1] ELSE Append(it[n - 1], cache[n])
           Fine(s, n) ==
             /\ s \in Seq(Entry) /\ Len(s) <= n
             /\ \A i \in DOMAIN s : s[i].page.url # url /\ \E j \in 1..n : s[i] = cache[j]
             /\ \A i, j \in DOMAIN s : s[i].page.load = s[j].page.load => i = j
             /\ \A i, j \in DOMAIN s : s[i].page.url = s[j].page.url => i = j
           Up(n) == \E it : /\ it = [i \in 0..n |-> Step(it, i)]
                            /\ \A i \in 0..n : Fine(it[i], i)
           bad == {n \in 0..Len(cache) : ~Up(n)}
<1>0. /\ cache \in Seq(Entry) /\ Len(cache) \in Nat /\ DOMAIN cache = 1..Len(cache)
      /\ Len(cache) <= BFCACHE_CAP
  BY DEF Sound
<1>1. Up(0)
  <2>1. Fine(<<>>, 0)
    OBVIOUS
  <2> DEFINE it == [i \in 0..0 |-> <<>>]
  <2>2. it = [i \in 0..0 |-> Step(it, i)]
    OBVIOUS
  <2>3. \A i \in 0..0 : it[i] = <<>> /\ i = 0
    OBVIOUS
  <2> HIDE DEF it, Fine, Step
  <2> QED
    BY <2>1, <2>2, <2>3
<1>2. ASSUME NEW n \in Nat, n < Len(cache), Up(n) PROVE Up(n + 1)
  <2>1. PICK it : it = [i \in 0..n |-> Step(it, i)] /\ \A i \in 0..n : Fine(it[i], i)
    BY <1>2
  <2>0. n < Len(cache)
    BY <1>2
  <2> DEFINE up == [i \in 0..(n + 1) |-> IF i <= n THEN it[i] ELSE Step(it, n + 1)]
  <2>2. \A i \in 0..n : up[i] = it[i] /\ it[i] = Step(it, i)
    <3>1. \A i \in 0..n : up[i] = it[i]
      OBVIOUS
    <3> HIDE DEF Step, Fine, up
    <3> QED
      BY <2>1, <3>1
  <2>3. up[n + 1] = Step(it, n + 1)
    OBVIOUS
  <2>4. DOMAIN up = 0..(n + 1) /\ up = [i \in 0..(n + 1) |-> up[i]]
    OBVIOUS
  <2> HIDE DEF up
  <2>5. ASSUME NEW i \in 0..(n + 1) PROVE Step(up, i) = up[i]
    <3>1. CASE i = 0
      BY <3>1, <2>2
    <3>2. CASE i # 0
      <4>1. up[i - 1] = it[i - 1]
        BY <3>2, <2>2
      <4>2. CASE i \in 0..n
        BY <4>1, <4>2, <3>2, <2>2
      <4>3. CASE i = n + 1
        BY <4>1, <4>3, <3>2, <2>3
      <4> QED
        BY <4>2, <4>3
    <3> QED
      BY <3>1, <3>2
  <2>6. up = [i \in 0..(n + 1) |-> Step(up, i)]
    <3> HIDE DEF Step
    <3> QED
      BY <2>4, <2>5
  <2>7. Fine(up[n + 1], n + 1)
    <3> DEFINE s == it[n]
               e == cache[n + 1]
    <3>1. Fine(s, n)
      <4> HIDE DEF Fine, Step
      <4> QED
        BY <2>1, <1>0
    <3>2. n + 1 \in DOMAIN cache /\ n + 1 # 0 /\ (n + 1) - 1 = n
      BY <2>0, <1>0
    <3>3. e \in Entry
      BY <1>0, <3>2
    <3>4. up[n + 1] = IF e.page.url = url THEN s ELSE Append(s, e)
      BY <2>3, <3>2
    <3>5. \A i \in 1..n : /\ cache[i].page.load # e.page.load
                          /\ cache[i].page.url # e.page.url
      BY <2>0, <1>0, <3>2 DEF Sound
    <3> HIDE DEF s, e
    <3>6. CASE e.page.url = url
      <4>1. Fine(s, n + 1)
        BY <3>1
      <4> QED
        BY <4>1, <3>4, <3>6
    <3>7. CASE e.page.url # url
      <4> DEFINE t == Append(s, e)
      <4>1. s \in Seq(Entry) /\ Len(s) \in Nat /\ DOMAIN s = 1..Len(s)
        BY <3>1
      <4>2. /\ t \in Seq(Entry) /\ Len(t) = Len(s) + 1 /\ DOMAIN t = 1..(Len(s) + 1)
            /\ t[Len(s) + 1] = e /\ \A i \in 1..Len(s) : t[i] = s[i]
        BY <3>3, <4>1
      <4> HIDE DEF t
      <4>3. \A i \in 1..Len(s) : s[i].page.load # e.page.load /\ s[i].page.url # e.page.url
        BY <3>1, <3>5, <4>1
      <4>4. /\ \A i, j \in DOMAIN t : t[i].page.load = t[j].page.load => i = j
            /\ \A i, j \in DOMAIN t : t[i].page.url = t[j].page.url => i = j
        <5>1. /\ \A i, j \in 1..Len(s) : s[i].page.load = s[j].page.load => i = j
              /\ \A i, j \in 1..Len(s) : s[i].page.url = s[j].page.url => i = j
          BY <3>1, <4>1
        <5> QED
          BY <4>1, <4>2, <4>3, <5>1
      <4>5. \A i \in DOMAIN t : t[i].page.url # url /\ \E j \in 1..(n + 1) : t[i] = cache[j]
        <5> TAKE i \in DOMAIN t
        <5>1. CASE i \in 1..Len(s)
          BY <5>1, <3>1, <4>1, <4>2
        <5>2. CASE i = Len(s) + 1
          BY <5>2, <3>7, <4>2 DEF e
        <5> QED
          BY <5>1, <5>2, <4>2
      <4>6. Fine(t, n + 1)
        BY <3>1, <4>1, <4>2, <4>4, <4>5
      <4> QED
        BY <4>6, <3>4, <3>7 DEF t
    <3> QED
      BY <3>6, <3>7
  <2>8. \A i \in 0..(n + 1) : Fine(up[i], i)
    <3> HIDE DEF Fine, Step
    <3> QED
      BY <2>1, <2>2, <2>7
  <2> HIDE DEF Fine, Step
  <2> QED
    BY <2>6, <2>8
<1>3. bad = {}
  <2> SUFFICES ASSUME bad # {} PROVE FALSE
    OBVIOUS
  <2> HIDE DEF Up
  <2>1. bad \subseteq Nat
    BY <1>0
  <2>2. PICK m \in bad : \A n \in bad : m <= n
    <3> HIDE DEF bad
    <3> QED
      BY <2>1, LeastMember
  <2>3. m # 0 /\ m - 1 \in Nat /\ m - 1 < Len(cache) /\ Up(m - 1)
    BY <2>2, <1>1, <1>0
  <2>4. Up((m - 1) + 1)
    BY <2>3, <1>2
  <2> QED
    BY <2>2, <2>4
<1>4. Up(Len(cache))
  <2> HIDE DEF Up
  <2> QED
    BY <1>0, <1>3
<1> DEFINE kept == CHOOSE it : it = [i \in 0..Len(cache) |-> Step(it, i)]
<1>5. PICK it : /\ it = [i \in 0..Len(cache) |-> Step(it, i)]
                /\ \A i \in 0..Len(cache) : Fine(it[i], i)
  BY <1>4
<1>6. kept = [i \in 0..Len(cache) |-> Step(kept, i)]
  <2> HIDE DEF Step
  <2> QED
    BY <1>5
<1>7. Drop(cache, url) = kept[Len(cache)]
  BY DEF Drop
<1> HIDE DEF kept
<1>8. \A i \in 0..Len(cache) : kept[i] = Step(kept, i) /\ it[i] = Step(it, i)
  <2> HIDE DEF Step, Fine
  <2> QED
    BY <1>5, <1>6
<1>9. {n \in 0..Len(cache) : kept[n] # it[n]} = {}
  <2> DEFINE odd == {n \in 0..Len(cache) : kept[n] # it[n]}
  <2> SUFFICES ASSUME odd # {} PROVE FALSE
    OBVIOUS
  <2>1. odd \subseteq Nat
    BY <1>0
  <2>2. PICK m \in odd : \A n \in odd : m <= n
    <3> HIDE DEF odd
    <3> QED
      BY <2>1, LeastMember
  <2>3. m # 0
    BY <1>8
  <2>4. kept[m - 1] = it[m - 1]
    BY <2>2, <2>3
  <2> QED
    BY <1>8, <2>3, <2>4
<1>10. Fine(Drop(cache, url), Len(cache))
  <2>1. Len(cache) \in 0..Len(cache)
    BY <1>0
  <2>2. kept[Len(cache)] = it[Len(cache)]
    BY <1>9, <2>1
  <2> HIDE DEF Fine
  <2> QED
    BY <1>5, <1>7, <2>1, <2>2
<1> DEFINE rest == Drop(cache, url)
<1>11. Fine(rest, Len(cache))
  BY <1>10
<1> HIDE DEF rest
<1>12. Sound(rest)
  BY <1>0, <1>11, BoundsAssumption DEF Sound
<1>13. Within(rest, cache) /\ \A i \in DOMAIN rest : rest[i].page.url # url
  BY <1>0, <1>11 DEF Within
<1> QED
  BY <1>12, <1>13 DEF rest

\* Taking an entry out leaves the others.
LEMMA TakenOut ==
  ASSUME NEW cache, Sound(cache), NEW p \in DOMAIN cache
  PROVE  LET rest == RemoveAt(cache, p) IN
         /\ Sound(rest) /\ Within(rest, cache)
         /\ \A i \in DOMAIN rest : rest[i].page.load # cache[p].page.load
<1>0. /\ cache \in Seq(Entry) /\ Len(cache) \in Nat /\ DOMAIN cache = 1..Len(cache)
      /\ Len(cache) <= BFCACHE_CAP
  BY DEF Sound
<1> DEFINE rest == RemoveAt(cache, p)
<1>1. /\ rest \in Seq(Entry) /\ Len(rest) = Len(cache) - 1
      /\ \A i \in 1..(Len(cache) - 1) : rest[i] = IF i < p THEN cache[i] ELSE cache[i + 1]
  BY <1>0, Removed
<1>2. DOMAIN rest = 1..(Len(cache) - 1)
  BY <1>1
<1> HIDE DEF rest
<1> DEFINE old(i) == IF i < p THEN i ELSE i + 1
<1>3. \A i \in DOMAIN rest : old(i) \in DOMAIN cache /\ old(i) # p /\ rest[i] = cache[old(i)]
  BY <1>0, <1>1, <1>2
<1>4. \A i, j \in DOMAIN rest : old(i) = old(j) => i = j
  BY <1>0, <1>2
<1> HIDE DEF old
<1>5. Sound(rest)
  BY <1>0, <1>1, <1>3, <1>4, BoundsAssumption DEF Sound
<1>6. Within(rest, cache) /\ \A i \in DOMAIN rest : rest[i].page.load # cache[p].page.load
  BY <1>3 DEF Within, Sound
<1> QED
  BY <1>5, <1>6 DEF rest

\* What the cache holds after a push is the page pushed or was in it.
LEMMA Pushed ==
  ASSUME NEW cache, Sound(cache), NEW page \in Page \cup {NoPage}, NEW scroll \in Scroll,
         \A i \in DOMAIN cache : cache[i].page.load # page.load
  PROVE  LET c == bfcache_push(cache, page, scroll) IN
         /\ Sound(c)
         /\ \A i \in DOMAIN c : \/ \E j \in DOMAIN cache : c[i] = cache[j]
                                \/ page # NoPage /\ c[i] = [page |-> page, scroll_y |-> scroll]
<1>1. CASE page = NoPage
  BY <1>1 DEF bfcache_push
<1>2. CASE page # NoPage
  <2> DEFINE s == Drop(cache, page.url)
             e == [page |-> page, scroll_y |-> scroll]
             t == Append(s, e)
             c == IF Len(t) > BFCACHE_CAP THEN Tail(t) ELSE t
  <2>1. bfcache_push(cache, page, scroll) = c
    BY <1>2 DEF bfcache_push
  <2>2. /\ Sound(s) /\ Within(s, cache)
        /\ \A i \in DOMAIN s : s[i].page.url # page.url
    BY Dropped
  <2>3. e \in Entry /\ e.page = page
    BY <1>2 DEF Entry
  <2> HIDE DEF s, e
  <2>4. s \in Seq(Entry) /\ Len(s) \in Nat /\ DOMAIN s = 1..Len(s) /\ Len(s) <= BFCACHE_CAP
    BY <2>2 DEF Sound
  <2>5. /\ t \in Seq(Entry) /\ Len(t) = Len(s) + 1 /\ DOMAIN t = 1..(Len(s) + 1)
        /\ t[Len(s) + 1] = e /\ \A i \in 1..Len(s) : t[i] = s[i]
    BY <2>3, <2>4
  <2> HIDE DEF t
  <2>6. \A i \in 1..Len(s) : s[i].page.load # page.load /\ s[i].page.url # page.url
    BY <2>2, <2>4 DEF Within
  <2>7. /\ \A i, j \in DOMAIN t : t[i].page.load = t[j].page.load => i = j
        /\ \A i, j \in DOMAIN t : t[i].page.url = t[j].page.url => i = j
    <3>1. /\ \A i, j \in 1..Len(s) : s[i].page.load = s[j].page.load => i = j
          /\ \A i, j \in 1..Len(s) : s[i].page.url = s[j].page.url => i = j
      BY <2>2, <2>4 DEF Sound
    <3>2. \A i \in 1..Len(s) : /\ t[i].page.load # t[Len(s) + 1].page.load
                               /\ t[i].page.url # t[Len(s) + 1].page.url
      BY <2>3, <2>5, <2>6
    <3>3. \A i \in DOMAIN t : i \in 1..Len(s) \/ i = Len(s) + 1
      BY <2>4, <2>5
    <3> QED
      BY <2>5, <3>1, <3>2, <3>3
  <2>8. \A i \in DOMAIN t : (\E j \in DOMAIN cache : t[i] = cache[j]) \/ t[i] = e
    BY <2>2, <2>4, <2>5 DEF Within
  <2>9. CASE Len(t) > BFCACHE_CAP
    <3> DEFINE u == Tail(t)
    <3>1. /\ u \in Seq(Entry) /\ Len(u) = Len(s) /\ DOMAIN u = 1..Len(s)
          /\ \A i \in 1..Len(s) : u[i] = t[i + 1]
      BY <2>4, <2>5
    <3> HIDE DEF u
    <3>2. \A i \in 1..Len(s) : i + 1 \in DOMAIN t
      BY <2>4, <2>5
    <3>3. \A i, j \in DOMAIN u : u[i].page.load = u[j].page.load => i = j
      <4> TAKE i, j \in DOMAIN u
      <4>1. t[i + 1].page.load = t[j + 1].page.load => i + 1 = j + 1
        BY <2>7, <3>1, <3>2
      <4> QED
        BY <4>1, <3>1
    <3>4. \A i, j \in DOMAIN u : u[i].page.url = u[j].page.url => i = j
      <4> TAKE i, j \in DOMAIN u
      <4>1. t[i + 1].page.url = t[j + 1].page.url => i + 1 = j + 1
        BY <2>7, <3>1, <3>2
      <4> QED
        BY <4>1, <3>1
    <3>5. Sound(u)
      BY <2>4, <3>1, <3>3, <3>4 DEF Sound
    <3>6. \A i \in DOMAIN u : (\E j \in DOMAIN cache : u[i] = cache[j]) \/ u[i] = e
      BY <2>8, <3>1, <3>2
    <3>7. c = u
      BY <2>9 DEF u
    <3> QED
      BY <1>2, <2>1, <3>5, <3>6, <3>7 DEF e
  <2>10. CASE ~(Len(t) > BFCACHE_CAP)
    <3>1. Sound(t)
      BY <2>4, <2>5, <2>7, <2>10, BoundsAssumption DEF Sound
    <3> QED
      BY <1>2, <2>1, <2>8, <2>10, <3>1 DEF e
  <2> QED
    BY <2>9, <2>10
<1> QED
  BY <1>1, <1>2

----------------------------------------------------------------------------
(* The invariant. *)

\* A tab's cursor is in its list.
Ranged(t) == t.history_cursor \in -1..(Len(t.history) - 1)

\* The variables' types.
Types ==
  /\ live \in Tab /\ Ranged(live)
  /\ tabs \in Seq(Tab) /\ \A i \in DOMAIN tabs : Ranged(tabs[i])
  /\ active_tab \in 0..Len(tabs)
  /\ requests \in [1..MaxLoads -> Seq(Request)] /\ work \in Seq(Request)
  /\ loads \in 0..MaxLoads /\ opened \in 1..MaxTabs
  /\ scrolled \in [1..MaxLoads -> Scroll]

\* Every page there is was loaded, and no page of a load to come has been scrolled.
Numbered ==
  /\ live.page.load <= loads
  /\ \A i \in DOMAIN tabs : tabs[i].page.load <= loads
  /\ \A i \in DOMAIN bfcache : bfcache[i].page.load <= loads
  /\ \A l \in 1..MaxLoads : l > loads => scrolled[l] = "top"

\* A page is in one place: shown in one tab or cached once.
Apart ==
  /\ \A i \in DOMAIN tabs : tabs[i].page.load = live.page.load => live.page.load = 0
  /\ \A i, j \in DOMAIN tabs :
       tabs[i].page.load = tabs[j].page.load => i = j \/ tabs[i].page.load = 0
  /\ \A i \in DOMAIN bfcache : bfcache[i].page.load # live.page.load
  /\ \A i \in DOMAIN bfcache, j \in DOMAIN tabs : bfcache[i].page.load # tabs[j].page.load

\* What is shown there is where its load was last scrolled to.
Own(t, position) == t.page # NoPage => t.scroll_y = position[t.page.load]

\* The same of every page there is.
Followed ==
  /\ Own(live, scrolled)
  /\ \A i \in DOMAIN tabs : Own(tabs[i], scrolled)
  /\ \A i \in DOMAIN bfcache : Own(bfcache[i], scrolled)

\* The inductive invariant.
IInv == Types /\ Sound(bfcache) /\ Numbered /\ Apart /\ Followed

\* A tab's page is the missing one exactly when its load is 0.
LEMMA Pages ==
  ASSUME NEW p \in Page \cup {NoPage}
  PROVE  /\ p = NoPage <=> p.load = 0
         /\ p # NoPage <=> p \in Page
         /\ p.load \in 0..MaxLoads /\ p.load \in Nat
<1>0. MaxLoads \in Nat
  BY BoundsAssumption
<1>1. CASE p = NoPage
  <2>1. p.load = 0
    BY <1>1 DEF NoPage
  <2>2. p \notin Page
    BY <2>1 DEF Page
  <2> QED
    BY <1>0, <1>1, <2>1, <2>2
<1>2. CASE p \in Page
  <2>1. p.load \in 1..MaxLoads
    BY <1>2 DEF Page
  <2>2. NoPage.load = 0
    BY DEF NoPage
  <2> QED
    BY <1>0, <1>2, <2>1, <2>2
<1> QED
  BY <1>1, <1>2

\* Entries and tabs, in the invariant.
LEMMA Held ==
  ASSUME IInv
  PROVE  /\ live.page \in Page \cup {NoPage} /\ live.scroll_y \in Scroll
         /\ loads \in Nat /\ MaxLoads \in Nat /\ "top" \in Scroll
         /\ \A i \in DOMAIN tabs : tabs[i] \in Tab /\ tabs[i].page \in Page \cup {NoPage}
         /\ \A i \in DOMAIN bfcache : /\ bfcache[i] \in Entry /\ bfcache[i].page \in Page
                                      /\ bfcache[i].page.load \in 1..MaxLoads
<1>1. loads \in Nat /\ MaxLoads \in Nat /\ "top" \in Scroll
  BY BoundsAssumption DEF IInv, Types, Scroll
<1>2. live.page \in Page \cup {NoPage} /\ live.scroll_y \in Scroll
  BY DEF IInv, Types, Tab
<1>3. \A i \in DOMAIN tabs : tabs[i] \in Tab
  BY DEF IInv, Types
<1>4. \A i \in DOMAIN tabs : tabs[i].page \in Page \cup {NoPage}
  BY <1>3 DEF Tab
<1>5. \A i \in DOMAIN bfcache : bfcache[i] \in Entry
  BY DEF IInv, Sound
<1>6. \A i \in DOMAIN bfcache : bfcache[i].page \in Page /\ bfcache[i].page.load \in 1..MaxLoads
  BY <1>5 DEF Entry, Page
<1> QED
  BY <1>1, <1>2, <1>3, <1>4, <1>5, <1>6

\* What a navigation may do to the page shown and to the cache.
LEMMA Shows ==
  ASSUME IInv,
         UNCHANGED <<tabs, active_tab, opened, scrolled>>,
         requests' \in [1..MaxLoads -> Seq(Request)], work' \in Seq(Request),
         live' \in Tab, Ranged(live'), Sound(bfcache'),
         \A i \in DOMAIN bfcache' :
           \/ \E j \in DOMAIN bfcache : bfcache'[i] = bfcache[j]
           \/ /\ live.page # NoPage
              /\ bfcache'[i] = [page |-> live.page, scroll_y |-> live.scroll_y],
         \A i \in DOMAIN bfcache' : bfcache'[i].page.load # live'.page.load,
         \/ /\ loads' = loads
            /\ live'.page = live.page /\ live'.scroll_y = live.scroll_y
         \/ /\ loads' = loads
            /\ \E j \in DOMAIN bfcache : /\ live'.page = bfcache[j].page
                                         /\ live'.scroll_y = bfcache[j].scroll_y
         \/ /\ loads < MaxLoads /\ loads' = loads + 1
            /\ live'.page.load = loads + 1 /\ live'.scroll_y = "top"
  PROVE  IInv'
<1>0. /\ loads \in Nat /\ MaxLoads \in Nat /\ loads' \in 0..MaxLoads
      /\ loads <= loads' /\ loads <= MaxLoads
  BY Held DEF IInv, Types
<1>1. Types'
  BY <1>0 DEF IInv, Types, Ranged
<1>2. ASSUME NEW i \in DOMAIN bfcache'
      PROVE  /\ bfcache'[i].page.load <= loads
             /\ \A j \in DOMAIN tabs : bfcache'[i].page.load # tabs[j].page.load
             /\ Own(bfcache'[i], scrolled)
  <2>1. CASE \E j \in DOMAIN bfcache : bfcache'[i] = bfcache[j]
    BY <2>1 DEF IInv, Numbered, Apart, Followed
  <2>2. CASE /\ live.page # NoPage
             /\ bfcache'[i] = [page |-> live.page, scroll_y |-> live.scroll_y]
    <3>1. live.page.load # 0
      BY <2>2, Held, Pages
    <3>2. bfcache'[i].page = live.page /\ bfcache'[i].scroll_y = live.scroll_y
      BY <2>2
    <3> QED
      BY <2>2, <3>1, <3>2 DEF IInv, Numbered, Apart, Followed, Own
  <2> QED
    BY <2>1, <2>2
<1>3. /\ live'.page.load <= loads'
      /\ \A j \in DOMAIN tabs : tabs[j].page.load = live'.page.load => live'.page.load = 0
      /\ Own(live', scrolled)
  <2>1. CASE loads' = loads /\ live'.page = live.page /\ live'.scroll_y = live.scroll_y
    BY <2>1 DEF IInv, Numbered, Apart, Followed, Own
  <2>2. CASE /\ loads' = loads
             /\ \E j \in DOMAIN bfcache : /\ live'.page = bfcache[j].page
                                          /\ live'.scroll_y = bfcache[j].scroll_y
    BY <2>2 DEF IInv, Numbered, Apart, Followed, Own
  <2>3. CASE /\ loads < MaxLoads /\ loads' = loads + 1
             /\ live'.page.load = loads + 1 /\ live'.scroll_y = "top"
    <3>1. loads + 1 \in 1..MaxLoads
      BY <1>0, <2>3
    <3>2. scrolled[loads + 1] = "top"
      BY <1>0, <3>1 DEF IInv, Numbered
    <3>3. \A j \in DOMAIN tabs : tabs[j].page.load # loads + 1
      <4>1. \A j \in DOMAIN tabs : tabs[j].page.load <= loads /\ tabs[j].page.load \in Nat
        BY Held, Pages DEF IInv, Numbered
      <4> QED
        BY <1>0, <4>1
    <3> QED
      BY <1>0, <2>3, <3>2, <3>3 DEF Own
  <2> QED
    BY <2>1, <2>2, <2>3
<1>4. Numbered'
  <2>1. \A j \in DOMAIN tabs : tabs[j].page.load <= loads'
    <3>1. \A j \in DOMAIN tabs : tabs[j].page.load <= loads /\ tabs[j].page.load \in Nat
      BY Held, Pages DEF IInv, Numbered
    <3> QED
      BY <1>0, <3>1
  <2>2. \A i \in DOMAIN bfcache' : bfcache'[i].page.load <= loads'
    <3>1. \A i \in DOMAIN bfcache' : bfcache'[i] \in Entry
      BY DEF Sound
    <3>2. \A i \in DOMAIN bfcache' : bfcache'[i].page.load \in 1..MaxLoads
      BY <3>1 DEF Entry, Page
    <3> QED
      BY <1>0, <1>2, <3>2
  <2>3. \A l \in 1..MaxLoads : l > loads' => scrolled[l] = "top"
    BY <1>0 DEF IInv, Numbered
  <2> QED
    BY <1>3, <2>1, <2>2, <2>3 DEF Numbered
<1>5. Apart'
  BY <1>2, <1>3 DEF IInv, Apart
<1>6. Followed'
  BY <1>2, <1>3 DEF IInv, Followed
<1>7. Sound(bfcache)'
  BY DEF Sound
<1> QED
  BY <1>1, <1>4, <1>5, <1>6, <1>7 DEF IInv

\* A tab with the page shown, wherever its cursor is.
Same(t) ==
  /\ t \in Tab /\ Ranged(t)
  /\ t.page = live.page /\ t.scroll_y = live.scroll_y

\* What a navigation leaves alone.
Kept == /\ UNCHANGED <<tabs, active_tab, opened>>
        /\ requests' \in [1..MaxLoads -> Seq(Request)] /\ work' \in Seq(Request)

\* A cache that navigate may be given: entries of the cache there is.
Given(c) == Sound(c) /\ Within(c, bfcache)

\* The cache itself is one ...
LEMMA CacheGiven ==
  ASSUME IInv
  PROVE  Given(bfcache)
BY DEF IInv, Given, Within

\* ... and so is what is left of it without the entry of a URL.
LEMMA DropGiven ==
  ASSUME IInv, NEW url
  PROVE  Given(Drop(bfcache, url))
BY Dropped DEF IInv, Given

\* Its entries are of pages loaded before, none of them the page shown.
LEMMA GivenApart ==
  ASSUME IInv, NEW c, Given(c)
  PROVE  \A i \in DOMAIN c :
           /\ c[i] \in Entry /\ \E j \in DOMAIN bfcache : c[i] = bfcache[j]
           /\ c[i].page.load # live.page.load
           /\ c[i].page.load <= loads /\ c[i].page.load \in Nat
<1> TAKE i \in DOMAIN c
<1>1. PICK j \in DOMAIN bfcache : c[i] = bfcache[j]
  BY DEF Given, Within
<1>2. bfcache[j] \in Entry /\ bfcache[j].page.load # live.page.load
  BY Held DEF IInv, Apart, Sound
<1>3. bfcache[j].page.load <= loads /\ bfcache[j].page.load \in Nat
  BY Held DEF IInv, Numbered
<1> QED
  BY <1>1, <1>2, <1>3

\* A load that fails leaves the page; only the cursor may have moved.
LEMMA FailKeeps ==
  ASSUME IInv, Kept, NEW c, Given(c), NEW t, Same(t), Fail(c, t)
  PROVE  IInv'
<1>1. live' = t /\ bfcache' = c /\ UNCHANGED <<loads, scrolled>>
  BY DEF Fail
<1>2. \A i \in DOMAIN c : /\ \E j \in DOMAIN bfcache : c[i] = bfcache[j]
                          /\ c[i].page.load # live.page.load
  BY GivenApart
<1>3. /\ live' \in Tab /\ Ranged(live')
      /\ live'.page = live.page /\ live'.scroll_y = live.scroll_y
  BY <1>1 DEF Same
<1>4. Sound(bfcache')
  BY <1>1 DEF Given
<1> QED
  BY <1>1, <1>2, <1>3, <1>4, Shows DEF Kept

\* A page put back leaves the cache, and the page shown takes its place there.
LEMMA RestoreKeeps ==
  ASSUME IInv, Kept, NEW c, Given(c), NEW t, Same(t), NEW url,
         Restore(c, t, url)
  PROVE  IInv'
<1>1. PICK p \in DOMAIN c :
        /\ live' = [t EXCEPT !.page = c[p].page, !.scroll_y = c[p].scroll_y]
        /\ bfcache' = bfcache_push(RemoveAt(c, p), t.page, t.scroll_y)
        /\ UNCHANGED <<loads, scrolled>>
  BY DEF Restore
<1> DEFINE rest == RemoveAt(c, p)
<1>2. /\ Sound(rest) /\ Within(rest, c)
      /\ \A i \in DOMAIN rest : rest[i].page.load # c[p].page.load
  BY TakenOut DEF Given
<1>3. bfcache' = bfcache_push(rest, live.page, live.scroll_y)
  BY <1>1 DEF Same
<1> HIDE DEF rest
<1>4. \A i \in DOMAIN rest : rest[i].page.load # live.page.load
  BY <1>2, GivenApart DEF Within
<1>5. live.page \in Page \cup {NoPage} /\ live.scroll_y \in Scroll
  BY Held
<1>6. /\ Sound(bfcache')
      /\ \A i \in DOMAIN bfcache' :
           \/ \E j \in DOMAIN rest : bfcache'[i] = rest[j]
           \/ /\ live.page # NoPage
              /\ bfcache'[i] = [page |-> live.page, scroll_y |-> live.scroll_y]
  BY <1>2, <1>3, <1>4, <1>5, Pushed
<1>7. c[p].page \in Page /\ c[p].scroll_y \in Scroll
  BY GivenApart DEF Entry
<1>8. live' \in Tab /\ Ranged(live')
  <2>1. t \in Tab /\ Ranged(t)
    BY DEF Same
  <2>2. live' \in Tab
    BY <1>1, <1>7, <2>1 DEF Tab
  <2>3. live'.history_cursor = t.history_cursor /\ live'.history = t.history
    BY <1>1, <2>1 DEF Tab
  <2> QED
    BY <2>1, <2>2, <2>3 DEF Ranged
<1>9. live'.page = c[p].page /\ live'.scroll_y = c[p].scroll_y
  BY <1>1 DEF Same, Tab
<1>10. \A i \in DOMAIN bfcache' : bfcache'[i].page.load # live'.page.load
  <2> TAKE i \in DOMAIN bfcache'
  <2>1. CASE \E j \in DOMAIN rest : bfcache'[i] = rest[j]
    BY <1>2, <1>9, <2>1
  <2>2. CASE bfcache'[i] = [page |-> live.page, scroll_y |-> live.scroll_y]
    BY <1>9, <2>2, GivenApart
  <2> QED
    BY <1>6, <2>1, <2>2
<1>11. \A i \in DOMAIN bfcache' :
         \/ \E j \in DOMAIN bfcache : bfcache'[i] = bfcache[j]
         \/ /\ live.page # NoPage
            /\ bfcache'[i] = [page |-> live.page, scroll_y |-> live.scroll_y]
  BY <1>2, <1>6, GivenApart DEF Within
<1>12. \E j \in DOMAIN bfcache : /\ live'.page = bfcache[j].page
                                /\ live'.scroll_y = bfcache[j].scroll_y
  BY <1>9, GivenApart
<1> QED
  BY <1>1, <1>6, <1>8, <1>10, <1>11, <1>12, Shows DEF Kept

\* A new load is no page there is.
LEMMA LoadKeeps ==
  ASSUME IInv, Kept, NEW c, Given(c), NEW t, Same(t), NEW url \in Url,
         NEW record \in BOOLEAN, Load(c, t, url, record)
  PROVE  IInv'
<1> DEFINE shown == record /\ t.page # NoPage
           fresh == [load |-> loads + 1, url |-> url]
<1>1. /\ loads < MaxLoads /\ loads' = loads + 1
      /\ live' = [t EXCEPT
           !.page = fresh,
           !.scroll_y = "top",
           !.history = IF shown THEN Append(@, t.page.url) ELSE @,
           !.history_cursor = IF shown THEN None ELSE @,
           !.tip = IF record THEN url ELSE @]
      /\ bfcache' = IF shown THEN bfcache_push(c, t.page, t.scroll_y) ELSE c
      /\ UNCHANGED scrolled
  BY DEF Load, MayLoad
<1>2. /\ loads \in Nat /\ MaxLoads \in Nat /\ "top" \in Scroll
      /\ live.page \in Page \cup {NoPage} /\ live.scroll_y \in Scroll
  BY Held
<1>3. fresh \in Page /\ fresh.load = loads + 1
  BY <1>1, <1>2 DEF Page
<1>4. t \in Tab /\ Ranged(t) /\ t.page = live.page /\ t.scroll_y = live.scroll_y
  BY DEF Same
<1>5. shown => t.page.url \in Url
  BY <1>2, <1>4 DEF Page
<1>6. /\ t.history \in Seq(Url) /\ t.history_cursor \in Int /\ t.tip \in Url \cup {None}
      /\ t.id \in 1..MaxTabs
  BY <1>4 DEF Tab
<1> DEFINE history == IF shown THEN Append(t.history, t.page.url) ELSE t.history
           cursor == IF shown THEN None ELSE t.history_cursor
           tip == IF record THEN url ELSE t.tip
<1>7. history \in Seq(Url) /\ cursor \in Int /\ tip \in Url \cup {None}
  BY <1>5, <1>6 DEF None
<1>8. cursor \in -1..(Len(history) - 1)
  <2>1. CASE shown
    BY <1>7, <2>1 DEF None
  <2>2. CASE ~shown
    BY <1>4, <2>2 DEF Ranged
  <2> QED
    BY <2>1, <2>2
<1> HIDE DEF fresh
<1>9. live' = [page |-> fresh, history |-> history, history_cursor |-> cursor,
               scroll_y |-> "top", id |-> t.id, tip |-> tip]
  <2>1. t = [page |-> t.page, history |-> t.history, history_cursor |-> t.history_cursor,
             scroll_y |-> t.scroll_y, id |-> t.id, tip |-> t.tip]
    BY <1>4 DEF Tab
  <2> QED
    BY <1>1, <2>1
<1> HIDE DEF history, cursor, tip
<1>10. live' \in Tab /\ Ranged(live')
  <2>1. live' \in Tab
    BY <1>2, <1>3, <1>6, <1>7, <1>9 DEF Tab
  <2>2. live'.history_cursor = cursor /\ live'.history = history
    BY <1>9
  <2> QED
    BY <1>8, <2>1, <2>2 DEF Ranged
<1>11. live'.page.load = loads + 1 /\ live'.scroll_y = "top"
  BY <1>3, <1>9
<1>12. \A i \in DOMAIN c : /\ c[i].page.load # live.page.load
                           /\ \E j \in DOMAIN bfcache : c[i] = bfcache[j]
  BY GivenApart
<1>13. /\ Sound(bfcache')
       /\ \A i \in DOMAIN bfcache' :
            \/ \E j \in DOMAIN bfcache : bfcache'[i] = bfcache[j]
            \/ /\ live.page # NoPage
               /\ bfcache'[i] = [page |-> live.page, scroll_y |-> live.scroll_y]
  <2>1. CASE shown
    <3>1. bfcache' = bfcache_push(c, live.page, live.scroll_y)
      BY <1>1, <1>4, <2>1
    <3>2. Sound(c)
      BY DEF Given
    <3> QED
      BY <1>2, <1>12, <3>1, <3>2, Pushed
  <2>2. CASE ~shown
    BY <1>1, <1>12, <2>2 DEF Given
  <2> QED
    BY <2>1, <2>2
<1>14. \A i \in DOMAIN bfcache' : bfcache'[i].page.load # live'.page.load
  <2>1. \A i \in DOMAIN bfcache : bfcache[i].page.load <= loads /\ bfcache[i].page.load \in Nat
    BY Held DEF IInv, Numbered
  <2>2. live.page.load <= loads /\ live.page.load \in Nat
    BY <1>2, Pages DEF IInv, Numbered
  <2>3. \A i \in DOMAIN bfcache' :
          bfcache'[i].page.load <= loads /\ bfcache'[i].page.load \in Nat
    <3> TAKE i \in DOMAIN bfcache'
    <3>1. CASE \E j \in DOMAIN bfcache : bfcache'[i] = bfcache[j]
      BY <2>1, <3>1
    <3>2. CASE bfcache'[i] = [page |-> live.page, scroll_y |-> live.scroll_y]
      BY <2>2, <3>2
    <3> QED
      BY <1>13, <3>1, <3>2
  <2> QED
    BY <1>2, <1>11, <2>3
<1> QED
  BY <1>1, <1>10, <1>11, <1>13, <1>14, Shows DEF Kept

\* navigate does one of these.
LEMMA NavigateKeeps ==
  ASSUME IInv, Kept, NEW c, Given(c), NEW t, Same(t), NEW url \in Url,
         NEW record \in BOOLEAN, navigate(c, t, url, record)
  PROVE  IInv'
BY FailKeeps, RestoreKeeps, LoadKeeps DEF navigate

\* A reload drops the entry of the page's URL before it navigates there.
LEMMA ReloadKeeps ==
  ASSUME IInv, Kept, reload
  PROVE  IInv'
<1>1. Same(live) /\ Given(bfcache)
  BY CacheGiven DEF IInv, Types, Same
<1>2. CASE live.page = NoPage
  BY <1>1, <1>2, FailKeeps DEF reload
<1>3. CASE live.page # NoPage
  <2>1. live.page.url \in Url
    BY <1>3, Held DEF Page
  <2>2. Given(Drop(bfcache, live.page.url))
    BY DropGiven
  <2>3. navigate(Drop(bfcache, live.page.url), live, live.page.url, FALSE)
    BY <1>3 DEF reload
  <2> QED
    BY <1>1, <2>1, <2>2, <2>3, NavigateKeeps
<1> QED
  BY <1>2, <1>3

\* The live tab with its cursor moved is the same tab.
LEMMA CursorMoves ==
  ASSUME IInv, NEW c \in -1..(Len(live.history) - 1)
  PROVE  Same([live EXCEPT !.history_cursor = c])
<1> DEFINE t == [live EXCEPT !.history_cursor = c]
<1>1. live \in Tab
  BY DEF IInv, Types
<1>2. c \in Int
  OBVIOUS
<1>3. /\ t \in Tab /\ t.page = live.page /\ t.scroll_y = live.scroll_y
      /\ t.history = live.history /\ t.history_cursor = c
  BY <1>1, <1>2 DEF Tab
<1> QED
  BY <1>3 DEF Same, Ranged

\* Back moves the cursor to a place in the list.
LEMMA BackKeeps ==
  ASSUME IInv, Kept, history_back
  PROVE  IInv'
<1> DEFINE len == Len(live.history)
           cursor == live.history_cursor
           target == IF cursor = None THEN len - 1 ELSE cursor - 1
<1>1. live.history \in Seq(Url) /\ len \in Nat /\ cursor \in -1..(len - 1) /\ Same(live)
      /\ Given(bfcache)
  BY CacheGiven DEF IInv, Types, Tab, Ranged, Same
<1>2. CASE len = 0 \/ cursor = 0
  BY <1>1, <1>2, FailKeeps DEF history_back
<1>3. CASE ~(len = 0 \/ cursor = 0)
  <2>1. target \in 0..(len - 1)
    BY <1>1, <1>3 DEF None
  <2>2. navigate(bfcache, [live EXCEPT !.history_cursor = target],
                 live.history[target + 1], FALSE)
    BY <1>3 DEF history_back
  <2> HIDE DEF target
  <2>3. target \in -1..(Len(live.history) - 1) /\ target + 1 \in 1..Len(live.history)
    BY <1>1, <2>1
  <2>4. Same([live EXCEPT !.history_cursor = target])
    BY <2>3, CursorMoves
  <2>5. live.history[target + 1] \in Url
    BY <1>1, <2>3
  <2> QED
    BY <1>1, <2>2, <2>4, <2>5, NavigateKeeps
<1> QED
  BY <1>2, <1>3

\* Forward moves the cursor to a place in the list, or off the list.
LEMMA ForwardKeeps ==
  ASSUME IInv, Kept, history_forward
  PROVE  IInv'
<1> DEFINE len == Len(live.history)
           cursor == live.history_cursor
<1>1. live.history \in Seq(Url) /\ len \in Nat /\ cursor \in -1..(len - 1) /\ Same(live)
      /\ Given(bfcache)
  BY CacheGiven DEF IInv, Types, Tab, Ranged, Same
<1>2. CASE cursor = None
  BY <1>1, <1>2, FailKeeps DEF history_forward
<1>3. CASE cursor # None /\ cursor + 1 >= len
  <2>1. None \in -1..(Len(live.history) - 1)
    BY <1>1 DEF None
  <2>2. Same([live EXCEPT !.history_cursor = None])
    BY <2>1, CursorMoves
  <2> QED
    BY <1>1, <1>3, <2>2, FailKeeps DEF history_forward
<1>4. CASE cursor # None /\ ~(cursor + 1 >= len)
  <2>1. cursor + 1 \in 0..(len - 1) /\ cursor + 2 \in 1..len
    BY <1>1, <1>4 DEF None
  <2>2. navigate(bfcache, [live EXCEPT !.history_cursor = cursor + 1],
                 live.history[cursor + 2], FALSE)
    BY <1>4 DEF history_forward
  <2>3. Same([live EXCEPT !.history_cursor = cursor + 1]) /\ live.history[cursor + 2] \in Url
    BY <1>1, <2>1, CursorMoves
  <2> QED
    BY <1>1, <2>2, <2>3, NavigateKeeps
<1> QED
  BY <1>2, <1>3, <1>4

\* The page scrolled is in no other place, so every other position stays right.
LEMMA ScrollKeeps ==
  ASSUME IInv, NEW y \in Scroll, ScrollTo(y)
  PROVE  IInv'
<1>1. /\ live.page # NoPage
      /\ live' = [live EXCEPT !.scroll_y = y]
      /\ scrolled' = [scrolled EXCEPT ![live.page.load] = y]
      /\ UNCHANGED <<tabs, active_tab, bfcache, requests, work, loads, opened>>
  BY DEF ScrollTo
<1>2. live \in Tab /\ Ranged(live) /\ scrolled \in [1..MaxLoads -> Scroll]
  BY DEF IInv, Types
<1>3. /\ live' \in Tab /\ live'.page = live.page /\ live'.scroll_y = y
      /\ live'.history = live.history /\ live'.history_cursor = live.history_cursor
  BY <1>1, <1>2 DEF Tab
<1>4. /\ live.page.load # 0 /\ live.page.load \in 1..MaxLoads
      /\ live.page.load <= loads /\ loads \in Nat
  BY <1>1, Held, Pages DEF IInv, Numbered, Page
<1>5. /\ scrolled' \in [1..MaxLoads -> Scroll] /\ scrolled'[live.page.load] = y
      /\ \A l \in 1..MaxLoads : l # live.page.load => scrolled'[l] = scrolled[l]
  BY <1>1, <1>2, <1>4
<1>6. Types'
  BY <1>1, <1>2, <1>3, <1>5 DEF IInv, Types, Ranged
<1>7. Numbered'
  BY <1>1, <1>3, <1>4, <1>5 DEF IInv, Numbered
<1>8. Apart'
  BY <1>1, <1>3 DEF IInv, Apart
<1>9. Followed'
  <2>1. \A i \in DOMAIN tabs : Own(tabs[i], scrolled')
    <3> TAKE i \in DOMAIN tabs
    <3>1. tabs[i].page # NoPage => tabs[i].page.load \in 1..MaxLoads
      BY Held, Pages
    <3>2. tabs[i].page # NoPage => tabs[i].page.load # live.page.load
      BY <1>4 DEF IInv, Apart
    <3> QED
      BY <1>5, <3>1, <3>2 DEF IInv, Followed, Own
  <2>2. \A i \in DOMAIN bfcache : Own(bfcache[i], scrolled')
    <3> TAKE i \in DOMAIN bfcache
    <3>1. /\ bfcache[i].page.load \in 1..MaxLoads
          /\ bfcache[i].page.load # live.page.load
      BY Held DEF IInv, Apart
    <3> QED
      BY <1>5, <3>1 DEF IInv, Followed, Own
  <2>3. Own(live', scrolled')
    BY <1>3, <1>5 DEF Own
  <2> QED
    BY <1>1, <2>1, <2>2, <2>3 DEF Followed
<1>10. Sound(bfcache')
  BY <1>1 DEF IInv
<1>11. Sound(bfcache)'
  BY <1>10 DEF Sound
<1> QED
  BY <1>6, <1>7, <1>8, <1>9, <1>11 DEF IInv

\* A blank tab fits anywhere.
LEMMA Blank ==
  ASSUME NEW id \in 1..MaxTabs
  PROVE  /\ BlankTab(id) \in Tab /\ Ranged(BlankTab(id))
         /\ BlankTab(id).page = NoPage /\ BlankTab(id).page.load = 0
<1> DEFINE t == BlankTab(id)
<1>1. t = [page |-> NoPage, history |-> <<>>, history_cursor |-> None,
           scroll_y |-> "top", id |-> id, tip |-> None]
  BY DEF BlankTab
<1>2. t \in Tab
  BY <1>1 DEF Tab, Scroll, None
<1>3. t.history_cursor = -1 /\ t.history = <<>>
  BY <1>1 DEF None
<1>4. Ranged(t)
  BY <1>3 DEF Ranged
<1> QED
  BY <1>1, <1>2, <1>4 DEF NoPage

\* Tabs may be put in any order: each new one is blank or one of the old ones, and
\* no old one is there twice.  Place 0 stands for the live tab.
At(l, s, i) == IF i = 0 THEN l ELSE s[i]

LEMMA Rearranged ==
  ASSUME IInv,
         UNCHANGED <<bfcache, requests, work, loads, scrolled>>,
         opened' \in 1..MaxTabs,
         tabs' \in Seq(Tab), live' \in Tab, active_tab' \in 0..Len(tabs'),
         NEW old,
         \A i \in 0..Len(tabs') :
           \/ At(live', tabs', i).page = NoPage /\ Ranged(At(live', tabs', i))
           \/ old[i] \in 0..Len(tabs) /\ At(live', tabs', i) = At(live, tabs, old[i]),
         \A i, j \in 0..Len(tabs') :
           old[i] = old[j] => \/ i = j
                              \/ At(live', tabs', i).page = NoPage
                              \/ At(live', tabs', j).page = NoPage
  PROVE  IInv'
<1>1. /\ Len(tabs) \in Nat /\ DOMAIN tabs = 1..Len(tabs)
      /\ Len(tabs') \in Nat /\ DOMAIN tabs' = 1..Len(tabs')
      /\ loads \in Nat
  BY Held DEF IInv, Types
<1>2. ASSUME NEW i \in 0..Len(tabs)
      PROVE  LET t == At(live, tabs, i) IN
             /\ Ranged(t) /\ Own(t, scrolled)
             /\ t.page \in Page \cup {NoPage} /\ t.page.load <= loads
             /\ \A j \in DOMAIN bfcache : bfcache[j].page.load # t.page.load
  <2>1. CASE i = 0
    BY <2>1, Held DEF IInv, Types, Followed, Numbered, Apart, At
  <2>2. CASE i # 0
    BY <1>1, <2>2, Held DEF IInv, Types, Followed, Numbered, Apart, At
  <2> QED
    BY <2>1, <2>2
<1>3. ASSUME NEW i \in 0..Len(tabs), NEW j \in 0..Len(tabs),
             At(live, tabs, i).page.load = At(live, tabs, j).page.load, i # j
      PROVE  At(live, tabs, i).page.load = 0
  <2>1. CASE i = 0
    BY <1>1, <1>3, <2>1 DEF IInv, Apart, At
  <2>2. CASE j = 0
    BY <1>1, <1>3, <2>2 DEF IInv, Apart, At
  <2>3. CASE i # 0 /\ j # 0
    BY <1>1, <1>3, <2>3 DEF IInv, Apart, At
  <2> QED
    BY <2>1, <2>2, <2>3
<1>4. NoPage.load = 0
  BY DEF NoPage
<1>5. ASSUME NEW i \in 0..Len(tabs')
      PROVE  LET t == At(live', tabs', i) IN
             /\ Ranged(t) /\ Own(t, scrolled) /\ t.page.load <= loads
             /\ \A j \in DOMAIN bfcache : bfcache[j].page.load # t.page.load
  <2> DEFINE t == At(live', tabs', i)
  <2>1. CASE t.page = NoPage /\ Ranged(t)
    <3>1. \A j \in DOMAIN bfcache : bfcache[j].page.load \in 1..MaxLoads
      BY Held
    <3> QED
      BY <1>1, <1>4, <2>1, <3>1 DEF Own
  <2>2. CASE old[i] \in 0..Len(tabs) /\ t = At(live, tabs, old[i])
    BY <1>2, <2>2
  <2> QED
    BY <2>1, <2>2
<1>6. ASSUME NEW i \in 0..Len(tabs'), NEW j \in 0..Len(tabs'), i # j,
             At(live', tabs', i).page.load = At(live', tabs', j).page.load
      PROVE  At(live', tabs', i).page.load = 0
  <2>1. CASE At(live', tabs', i).page = NoPage \/ At(live', tabs', j).page = NoPage
    BY <1>4, <1>6, <2>1
  <2>2. CASE ~(At(live', tabs', i).page = NoPage \/ At(live', tabs', j).page = NoPage)
    <3>1. /\ old[i] \in 0..Len(tabs) /\ At(live', tabs', i) = At(live, tabs, old[i])
          /\ old[j] \in 0..Len(tabs) /\ At(live', tabs', j) = At(live, tabs, old[j])
          /\ old[i] # old[j]
      BY <1>6, <2>2
    <3> QED
      BY <1>3, <1>6, <3>1
  <2> QED
    BY <2>1, <2>2
<1>7. /\ At(live', tabs', 0) = live' /\ 0 \in 0..Len(tabs')
      /\ \A i \in DOMAIN tabs' : i \in 0..Len(tabs') /\ i # 0 /\ At(live', tabs', i) = tabs'[i]
  BY <1>1 DEF At
<1>8. /\ Ranged(live') /\ Own(live', scrolled) /\ live'.page.load <= loads
      /\ \A j \in DOMAIN bfcache : bfcache[j].page.load # live'.page.load
  BY <1>5, <1>7
<1>9. \A i \in DOMAIN tabs' :
        /\ Ranged(tabs'[i]) /\ Own(tabs'[i], scrolled) /\ tabs'[i].page.load <= loads
        /\ \A j \in DOMAIN bfcache : bfcache[j].page.load # tabs'[i].page.load
  BY <1>5, <1>7
<1>10. Types'
  BY <1>8, <1>9 DEF IInv, Types, Ranged
<1>11. Numbered'
  BY <1>8, <1>9 DEF IInv, Numbered
<1>12. Followed'
  BY <1>8, <1>9 DEF IInv, Followed
<1>13. Apart'
  <2>1. \A i \in DOMAIN tabs' : tabs'[i].page.load = live'.page.load => live'.page.load = 0
    BY <1>6, <1>7
  <2>2. \A i, j \in DOMAIN tabs' :
          tabs'[i].page.load = tabs'[j].page.load => i = j \/ tabs'[i].page.load = 0
    BY <1>6, <1>7
  <2> QED
    BY <1>8, <1>9, <2>1, <2>2 DEF Apart
<1>14. Sound(bfcache)'
  BY DEF IInv, Sound
<1> QED
  BY <1>10, <1>11, <1>12, <1>13, <1>14 DEF IInv

\* A switch exchanges two tabs.
LEMMA SwitchKeeps ==
  ASSUME IInv, NEW index \in 0..(tab_count - 1), SwitchToTab(index)
  PROVE  IInv'
<1>1. /\ index # active_tab
      /\ live' = tabs[Slot(index)]
      /\ tabs' = [tabs EXCEPT ![Slot(index)] = live]
      /\ active_tab' = index
      /\ UNCHANGED <<bfcache, requests, work, loads, opened, scrolled>>
  BY DEF SwitchToTab
<1>2. /\ tabs \in Seq(Tab) /\ Len(tabs) \in Nat /\ live \in Tab /\ opened \in 1..MaxTabs
      /\ active_tab \in 0..Len(tabs)
  BY DEF IInv, Types
<1>3. Slot(index) \in 1..Len(tabs)
  BY <1>1, <1>2 DEF Slot, tab_count
<1>4. PICK p \in 1..Len(tabs) : p = Slot(index)
  BY <1>3
<1>5. /\ live' = tabs[p] /\ tabs' = [tabs EXCEPT ![p] = live]
      /\ tabs' \in Seq(Tab) /\ Len(tabs') = Len(tabs) /\ live' \in Tab
      /\ \A i \in 1..Len(tabs) : tabs'[i] = IF i = p THEN live ELSE tabs[i]
  BY <1>1, <1>2, <1>4
<1> DEFINE old == [i \in 0..Len(tabs) |-> IF i = 0 THEN p ELSE IF i = p THEN 0 ELSE i]
<1>6. \A i \in 0..Len(tabs') :
        old[i] \in 0..Len(tabs) /\ At(live', tabs', i) = At(live, tabs, old[i])
  BY <1>2, <1>5 DEF At
<1>7. \A i, j \in 0..Len(tabs') : old[i] = old[j] => i = j
  BY <1>2, <1>5
<1>8. active_tab' \in 0..Len(tabs') /\ opened' \in 1..MaxTabs
  BY <1>1, <1>2, <1>5 DEF tab_count
<1> HIDE DEF old
<1>9. \A i \in 0..Len(tabs') :
        \/ At(live', tabs', i).page = NoPage /\ Ranged(At(live', tabs', i))
        \/ old[i] \in 0..Len(tabs) /\ At(live', tabs', i) = At(live, tabs, old[i])
  BY <1>6
<1>10. \A i, j \in 0..Len(tabs') :
         old[i] = old[j] => \/ i = j
                            \/ At(live', tabs', i).page = NoPage
                            \/ At(live', tabs', j).page = NoPage
  BY <1>7
<1>11. UNCHANGED <<bfcache, requests, work, loads, scrolled>>
  BY <1>1
<1>12. tabs' \in Seq(Tab) /\ live' \in Tab
  BY <1>5
<1> QED
  BY <1>8, <1>9, <1>10, <1>11, <1>12, Rearranged

\* A new tab is blank, and the one shown joins the list.
LEMMA OpenKeeps ==
  ASSUME IInv, OpenNewTab
  PROVE  IInv'
<1>1. /\ opened < MaxTabs /\ opened' = opened + 1
      /\ tabs' = InsertAt(tabs, active_tab + 1, live)
      /\ live' = BlankTab(opened + 1)
      /\ active_tab' = active_tab + 1
      /\ UNCHANGED <<bfcache, requests, work, loads, scrolled>>
  BY DEF OpenNewTab
<1>2. /\ tabs \in Seq(Tab) /\ Len(tabs) \in Nat /\ live \in Tab /\ opened \in 1..MaxTabs
      /\ active_tab \in 0..Len(tabs) /\ MaxTabs \in Nat
  BY BoundsAssumption DEF IInv, Types
<1>3. opened + 1 \in 1..MaxTabs
  BY <1>1, <1>2
<1>4. PICK a \in 1..(Len(tabs) + 1) : a = active_tab + 1
  BY <1>2
<1>5. /\ tabs' \in Seq(Tab) /\ Len(tabs') = Len(tabs) + 1
      /\ \A i \in 1..(Len(tabs) + 1) :
           tabs'[i] = IF i < a THEN tabs[i] ELSE IF i = a THEN live ELSE tabs[i - 1]
  <2>1. tabs' = InsertAt(tabs, a, live)
    BY <1>1, <1>4
  <2>2. /\ InsertAt(tabs, a, live) \in Seq(Tab) /\ Len(InsertAt(tabs, a, live)) = Len(tabs) + 1
        /\ \A i \in 1..(Len(tabs) + 1) : InsertAt(tabs, a, live)[i] =
             IF i < a THEN tabs[i] ELSE IF i = a THEN live ELSE tabs[i - 1]
    BY <1>2, Inserted
  <2> QED
    BY <2>1, <2>2
<1>6. /\ live' \in Tab /\ Ranged(live') /\ live'.page = NoPage
  BY <1>1, <1>3, Blank
<1> DEFINE old == [i \in 0..(Len(tabs) + 1) |->
                     IF i < a THEN i ELSE IF i = a THEN 0 ELSE i - 1]
<1>7. \A i \in 1..(Len(tabs) + 1) :
        old[i] \in 0..Len(tabs) /\ At(live', tabs', i) = At(live, tabs, old[i])
  BY <1>2, <1>5 DEF At
<1>8. \A i, j \in 1..(Len(tabs) + 1) : old[i] = old[j] => i = j
  BY <1>2
<1>9. At(live', tabs', 0) = live'
  BY DEF At
<1>10. 0..Len(tabs') = {0} \cup 1..(Len(tabs) + 1)
  BY <1>2, <1>5
<1>11. active_tab' \in 0..Len(tabs') /\ opened' \in 1..MaxTabs
  BY <1>1, <1>2, <1>3, <1>5
<1> HIDE DEF old
<1>12. \A i \in 0..Len(tabs') :
         \/ At(live', tabs', i).page = NoPage /\ Ranged(At(live', tabs', i))
         \/ old[i] \in 0..Len(tabs) /\ At(live', tabs', i) = At(live, tabs, old[i])
  BY <1>6, <1>7, <1>9, <1>10
<1>13. \A i, j \in 0..Len(tabs') :
         old[i] = old[j] => \/ i = j
                            \/ At(live', tabs', i).page = NoPage
                            \/ At(live', tabs', j).page = NoPage
  BY <1>6, <1>8, <1>9, <1>10
<1> QED
  BY <1>1, <1>5, <1>6, <1>11, <1>12, <1>13, Rearranged

\* The last tab is blanked.
LEMMA CloseLastKeeps ==
  ASSUME IInv, CloseLastTab
  PROVE  IInv'
<1>1. /\ tabs = <<>> /\ live' = BlankTab(live.id)
      /\ UNCHANGED <<tabs, active_tab, bfcache, requests, work, loads, opened, scrolled>>
  BY DEF CloseLastTab
<1>2. /\ tabs \in Seq(Tab) /\ live.id \in 1..MaxTabs /\ opened \in 1..MaxTabs
      /\ active_tab \in 0..Len(tabs)
  BY DEF IInv, Types, Tab
<1>3. /\ live' \in Tab /\ Ranged(live') /\ live'.page = NoPage
  BY <1>1, <1>2, Blank
<1>4. Len(tabs') = 0 /\ At(live', tabs', 0) = live' /\ 0..0 = {0}
  BY <1>1 DEF At
<1> DEFINE old == [i \in {0} |-> 0]
<1> HIDE DEF old
<1>5. \A i \in 0..Len(tabs') :
        \/ At(live', tabs', i).page = NoPage /\ Ranged(At(live', tabs', i))
        \/ old[i] \in 0..Len(tabs) /\ At(live', tabs', i) = At(live, tabs, old[i])
  BY <1>3, <1>4
<1>6. \A i, j \in 0..Len(tabs') :
        old[i] = old[j] => \/ i = j
                           \/ At(live', tabs', i).page = NoPage
                           \/ At(live', tabs', j).page = NoPage
  BY <1>3, <1>4
<1> QED
  BY <1>1, <1>2, <1>3, <1>5, <1>6, Rearranged

\* The strip, place by place.
LEMMA Displayed ==
  ASSUME NEW l \in Tab, NEW s \in Seq(Tab), NEW a \in 0..Len(s)
  PROVE  LET strip == InsertAt(s, a + 1, l) IN
         /\ strip \in Seq(Tab) /\ Len(strip) = Len(s) + 1
         /\ \A i \in 1..(Len(s) + 1) :
              strip[i] = IF i <= a THEN s[i] ELSE IF i = a + 1 THEN l ELSE s[i - 1]
<1>1. Len(s) \in Nat /\ a + 1 \in 1..(Len(s) + 1)
  OBVIOUS
<1>2. PICK p \in 1..(Len(s) + 1) : p = a + 1
  BY <1>1
<1>3. \A i \in 1..(Len(s) + 1) : i < p <=> i <= a
  BY <1>1, <1>2
<1>4. /\ InsertAt(s, p, l) \in Seq(Tab) /\ Len(InsertAt(s, p, l)) = Len(s) + 1
      /\ \A i \in 1..(Len(s) + 1) :
           InsertAt(s, p, l)[i] = IF i < p THEN s[i] ELSE IF i = p THEN l ELSE s[i - 1]
  <2>1. InsertAt(s, p, l) \in Seq(Tab) /\ Len(InsertAt(s, p, l)) = Len(s) + 1
    BY Inserted
  <2>2. ASSUME NEW i \in 1..(Len(s) + 1)
        PROVE  InsertAt(s, p, l)[i] = IF i < p THEN s[i] ELSE IF i = p THEN l ELSE s[i - 1]
    BY Inserted, SMTT(30)
  <2> QED
    BY <2>1, <2>2
<1> QED
  BY <1>2, <1>3, <1>4

\* Closing a tab: what is where afterwards, in the list and in the strip.
LEMMA Closed ==
  ASSUME IInv, NEW index \in 0..(tab_count - 1), CloseTab(index)
  PROVE  /\ tabs' \in Seq(Tab) /\ Len(tabs') = Len(tabs) - 1 /\ Len(tabs) \in Nat \ {0}
         /\ live' \in Tab /\ active_tab' \in 0..Len(tabs')
         /\ \E p \in 1..Len(tabs) :
              /\ tabs' = RemoveAt(tabs, p)
              /\ live' = tabs[p] \/ live' = live
         /\ Strip' = RemoveAt(Strip, index + 1)
<1>1. /\ tabs \in Seq(Tab) /\ Len(tabs) \in Nat /\ live \in Tab
      /\ active_tab \in 0..Len(tabs) /\ tabs # <<>> /\ index \in 0..Len(tabs)
  BY DEF IInv, Types, CloseTab, tab_count
<1>2. Len(tabs) \in Nat \ {0}
  BY <1>1
<1> DEFINE take == IF active_tab > 0 THEN active_tab ELSE 1
           out == IF index = active_tab THEN take ELSE Slot(index)
<1>3. out \in 1..Len(tabs)
  BY <1>1, <1>2 DEF Slot
<1>4. PICK n \in Nat \ {0} : n = Len(tabs)
  BY <1>2
<1>22. PICK p \in 1..n, a \in 0..n, k \in 0..n :
         p = out /\ a = active_tab /\ k = index
  BY <1>1, <1>3, <1>4
<1>5. /\ tabs' = RemoveAt(tabs, p)
      /\ live' = IF k = a THEN tabs[p] ELSE live
      /\ active_tab' = IF k <= a /\ a > 0 THEN a - 1 ELSE a
  BY <1>4, <1>22 DEF CloseTab
<1>6. p = IF k = a THEN (IF a > 0 THEN a ELSE 1) ELSE IF k < a THEN k + 1 ELSE k
  BY <1>4, <1>22 DEF Slot
<1> HIDE DEF out
<1>7. /\ tabs' \in Seq(Tab) /\ Len(tabs') = n - 1
      /\ \A i \in 1..(n - 1) : tabs'[i] = IF i < p THEN tabs[i] ELSE tabs[i + 1]
  BY <1>1, <1>4, <1>22, <1>5, Removed
<1>8. live' \in Tab
  BY <1>1, <1>4, <1>22, <1>5
<1>9. active_tab' \in 0..(n - 1)
  BY <1>4, <1>22, <1>5, <1>6
<1>10. PICK b \in 0..(n - 1) : b = active_tab'
  BY <1>9
<1> DEFINE now == Strip
           next == InsertAt(tabs', b + 1, live')
<1>11. /\ now \in Seq(Tab) /\ Len(now) = n + 1
       /\ \A i \in 1..(n + 1) :
            now[i] = IF i <= a THEN tabs[i] ELSE IF i = a + 1 THEN live ELSE tabs[i - 1]
  <2>1. a \in 0..Len(tabs) /\ tabs \in Seq(Tab) /\ live \in Tab
    BY <1>1, <1>4
  <2> DEFINE strip == InsertAt(tabs, a + 1, live)
  <2>2. /\ strip \in Seq(Tab) /\ Len(strip) = Len(tabs) + 1
        /\ \A i \in 1..(Len(tabs) + 1) :
             strip[i] = IF i <= a THEN tabs[i] ELSE IF i = a + 1 THEN live ELSE tabs[i - 1]
    BY <2>1, Displayed
  <2>3. now = strip
    BY <1>22 DEF Strip
  <2> HIDE DEF now, strip
  <2> QED
    BY <1>4, <2>2, <2>3
<1>12. /\ next \in Seq(Tab) /\ Len(next) = n
       /\ \A i \in 1..n :
            next[i] = IF i <= b THEN tabs'[i] ELSE IF i = b + 1 THEN live' ELSE tabs'[i - 1]
  <2>1. b \in 0..Len(tabs') /\ Len(tabs') + 1 = n
    BY <1>7, <1>10
  <2>2. /\ next \in Seq(Tab) /\ Len(next) = Len(tabs') + 1
        /\ \A i \in 1..(Len(tabs') + 1) :
             next[i] = IF i <= b THEN tabs'[i] ELSE IF i = b + 1 THEN live' ELSE tabs'[i - 1]
    BY <1>7, <1>8, <2>1, Displayed
  <2> HIDE DEF next
  <2> QED
    BY <2>1, <2>2
<1> HIDE DEF now, next
<1>13. k + 1 \in 1..Len(now)
  BY <1>11
<1>14. PICK q \in 1..Len(now) : q = k + 1
  BY <1>13
<1>15. /\ RemoveAt(now, q) \in Seq(Tab) /\ Len(RemoveAt(now, q)) = n
       /\ \A i \in 1..n : RemoveAt(now, q)[i] = IF i < q THEN now[i] ELSE now[i + 1]
  <2>1. /\ RemoveAt(now, q) \in Seq(Tab) /\ Len(RemoveAt(now, q)) = Len(now) - 1
        /\ \A i \in 1..(Len(now) - 1) :
             RemoveAt(now, q)[i] = IF i < q THEN now[i] ELSE now[i + 1]
    BY <1>11, Removed
  <2>2. Len(now) - 1 = n
    BY <1>11
  <2> QED
    BY <2>1, <2>2
<1> DEFINE rest == RemoveAt(now, q)
<1>16. /\ rest \in Seq(Tab) /\ Len(rest) = n
       /\ \A i \in 1..n : rest[i] = IF i < q THEN now[i] ELSE now[i + 1]
  BY <1>15
<1> HIDE DEF rest
<1>17. ASSUME NEW i \in 1..n PROVE next[i] = rest[i]
  <2>1. /\ i \in Nat /\ (i - 1) + 1 = i
        /\ i # n => i \in 1..(n - 1)
        /\ i # 1 => i - 1 \in 1..(n - 1)
    OBVIOUS
  <2>6. /\ i # n => tabs'[i] = IF i < p THEN tabs[i] ELSE tabs[i + 1]
        /\ i # 1 => tabs'[i - 1] = IF i - 1 < p THEN tabs[i - 1] ELSE tabs[i]
    BY <1>7, <2>1
  <2>7. next[i] = IF i <= b THEN tabs'[i] ELSE IF i = b + 1 THEN live' ELSE tabs'[i - 1]
    BY <1>12
  <2>2. CASE k = a /\ a > 0
    <3>1. b = a - 1 /\ p = a
      BY <1>5, <1>6, <1>10, <2>2
    <3>2. rest[i] = tabs[i]
      BY <1>11, <1>14, <1>16, <2>2
    <3>3. next[i] = tabs[i]
      BY <1>5, <1>22, <2>1, <2>6, <2>7, <2>2, <3>1
    <3> QED
      BY <3>2, <3>3
  <2>3. CASE k = a /\ a = 0
    <3>1. b = 0 /\ p = 1
      BY <1>5, <1>6, <1>10, <2>3
    <3>2. rest[i] = tabs[i]
      BY <1>11, <1>14, <1>16, <2>3
    <3>3. next[i] = tabs[i]
      BY <1>5, <1>22, <2>1, <2>6, <2>7, <2>3, <3>1
    <3> QED
      BY <3>2, <3>3
  <2>4. CASE k < a
    <3>1. b = a - 1 /\ p = k + 1 /\ live' = live
      BY <1>5, <1>6, <1>10, <2>4
    <3>2. rest[i] = IF i <= k THEN tabs[i] ELSE IF i <= b THEN tabs[i + 1]
                    ELSE IF i = b + 1 THEN live ELSE tabs[i]
      BY <1>11, <1>14, <1>16, <2>4, <3>1
    <3>3. next[i] = IF i <= k THEN tabs[i] ELSE IF i <= b THEN tabs[i + 1]
                    ELSE IF i = b + 1 THEN live ELSE tabs[i]
      BY <1>22, <2>1, <2>6, <2>7, <2>4, <3>1
    <3> QED
      BY <3>2, <3>3
  <2>5. CASE k > a
    <3>1. b = a /\ p = k /\ live' = live
      BY <1>5, <1>6, <1>10, <2>5
    <3>2. rest[i] = IF i <= a THEN tabs[i] ELSE IF i = a + 1 THEN live
                    ELSE IF i <= k THEN tabs[i - 1] ELSE tabs[i]
      BY <1>11, <1>14, <1>16, <2>5, <3>1
    <3>3. next[i] = IF i <= a THEN tabs[i] ELSE IF i = a + 1 THEN live
                    ELSE IF i <= k THEN tabs[i - 1] ELSE tabs[i]
      BY <1>22, <2>1, <2>6, <2>7, <2>5, <3>1
    <3> QED
      BY <3>2, <3>3
  <2> QED
    BY <2>2, <2>3, <2>4, <2>5
<1>18. next = rest
  BY <1>12, <1>16, <1>17, SeqEqual
<1>19. Strip' = next
  BY <1>10 DEF Strip, next
<1>20. rest = RemoveAt(Strip, index + 1)
  BY <1>4, <1>22, <1>14 DEF rest, now
<1>21. \E x \in 1..Len(tabs) : tabs' = RemoveAt(tabs, x) /\ (live' = tabs[x] \/ live' = live)
  BY <1>4, <1>22, <1>5
<1> QED
  BY <1>2, <1>4, <1>7, <1>8, <1>9, <1>18, <1>19, <1>20, <1>21

\* A closed tab is gone, and the others are there once each.
LEMMA CloseKeeps ==
  ASSUME IInv, NEW index \in 0..(tab_count - 1), CloseTab(index)
  PROVE  IInv'
<1>1. /\ tabs' \in Seq(Tab) /\ Len(tabs') = Len(tabs) - 1 /\ Len(tabs) \in Nat \ {0}
      /\ live' \in Tab /\ active_tab' \in 0..Len(tabs')
  BY Closed
<1>2. PICK p \in 1..Len(tabs) : /\ tabs' = RemoveAt(tabs, p)
                                /\ live' = tabs[p] \/ live' = live
  BY Closed
<1>3. tabs \in Seq(Tab) /\ opened \in 1..MaxTabs
  BY DEF IInv, Types
<1>4. \A i \in 1..(Len(tabs) - 1) : tabs'[i] = IF i < p THEN tabs[i] ELSE tabs[i + 1]
  BY <1>2, <1>3, Removed
<1>5. UNCHANGED <<bfcache, requests, work, loads, opened, scrolled>>
  BY DEF CloseTab
<1> DEFINE shown == IF live' = live THEN 0 ELSE p
           old == [i \in 0..(Len(tabs) - 1) |->
                     IF i = 0 THEN shown ELSE IF i < p THEN i ELSE i + 1]
<1>6. shown \in 0..Len(tabs) /\ (shown = 0 \/ shown = p) /\ At(live, tabs, shown) = live'
  BY <1>1, <1>2 DEF At
<1> HIDE DEF shown
<1>7. \A i \in 0..Len(tabs') :
        old[i] \in 0..Len(tabs) /\ At(live', tabs', i) = At(live, tabs, old[i])
  BY <1>1, <1>2, <1>4, <1>6 DEF At
<1>8. \A i, j \in 0..Len(tabs') : old[i] = old[j] => i = j
  BY <1>1, <1>6
<1> HIDE DEF old
<1> QED
  BY <1>1, <1>3, <1>5, <1>7, <1>8, Rearranged

\* What a script queues moves no page.
LEMMA ScriptKeeps ==
  ASSUME IInv, UNCHANGED <<live, tabs, active_tab, bfcache, loads, opened, scrolled>>,
         requests' \in [1..MaxLoads -> Seq(Request)], work' \in Seq(Request)
  PROVE  IInv'
<1>1. Types' /\ Numbered' /\ Apart' /\ Followed'
  BY DEF IInv, Types, Numbered, Apart, Followed, Ranged, Own
<1>2. Sound(bfcache)'
  BY DEF IInv, Sound
<1> QED
  BY <1>1, <1>2 DEF IInv

\* There is one blank tab at first.
LEMMA InitIInv == Init => IInv
<1> SUFFICES ASSUME Init PROVE IInv
  OBVIOUS
<1>1. MaxTabs \in Nat \ {0} /\ MaxLoads \in Nat /\ BFCACHE_CAP \in Nat
  BY BoundsAssumption
<1>2. /\ BlankTab(1) \in Tab /\ Ranged(BlankTab(1))
      /\ BlankTab(1).page = NoPage /\ BlankTab(1).page.load = 0
  BY <1>1, Blank
<1>3. Types
  BY <1>1, <1>2 DEF Init, Types, Scroll
<1>4. Numbered /\ Apart /\ Followed
  BY <1>1, <1>2 DEF Init, Numbered, Apart, Followed, Own
<1>5. Sound(bfcache)
  BY <1>1 DEF Init, Sound
<1> QED
  BY <1>3, <1>4, <1>5 DEF IInv

\* One step per action.
LEMMA NextIInv ==
  ASSUME IInv, [Next]_vars
  PROVE  IInv'
<1>0. /\ requests \in [1..MaxLoads -> Seq(Request)] /\ work \in Seq(Request)
      /\ Same(live) /\ Given(bfcache)
  BY CacheGiven DEF IInv, Types, Same
<1>1. ASSUME Elsewhere PROVE Kept
  BY <1>0, <1>1 DEF Elsewhere, Kept
<1>2. ASSUME NEW url \in Url, Visit(url) PROVE IInv'
  BY <1>0, <1>1, <1>2, NavigateKeeps DEF Visit
<1>3. CASE Reload
  BY <1>1, <1>3, ReloadKeeps DEF Reload
<1>4. CASE Back
  BY <1>1, <1>4, BackKeeps DEF Back
<1>5. CASE Forward
  BY <1>1, <1>5, ForwardKeeps DEF Forward
<1>6. CASE \E y \in Scroll : ScrollTo(y)
  BY <1>6, ScrollKeeps
<1>7. CASE \E index \in 0..(tab_count - 1) : SwitchToTab(index) \/ CloseTab(index)
  BY <1>7, SwitchKeeps, CloseKeeps
<1>8. CASE OpenNewTab \/ CloseLastTab
  BY <1>8, OpenKeeps, CloseLastKeeps
<1>9. ASSUME NEW request \in Request, Enqueue(request) PROVE IInv'
  <2>1. requests' = [requests EXCEPT ![live.page.load] = Append(@, request)]
    BY <1>9 DEF Enqueue
  <2>2. live.page.load \in 1..MaxLoads
    BY <1>9, Held, Pages DEF Enqueue, Page
  <2>3. Append(requests[live.page.load], request) \in Seq(Request)
    BY <1>0, <2>2
  <2>4. requests' \in [1..MaxLoads -> Seq(Request)]
    BY <1>0, <2>1, <2>2, <2>3
  <2> QED
    BY <1>0, <1>9, <2>4, ScriptKeeps DEF Enqueue
<1>10. CASE TakeRequests
  <2>1. live.page.load \in 1..MaxLoads
    BY <1>10, Held, Pages DEF TakeRequests, Page
  <2>2. /\ work' = requests[live.page.load]
        /\ requests' = [requests EXCEPT ![live.page.load] = <<>>]
    BY <1>10 DEF TakeRequests
  <2>3. work' \in Seq(Request) /\ requests' \in [1..MaxLoads -> Seq(Request)]
    BY <1>0, <2>1, <2>2
  <2> QED
    BY <1>10, <2>3, ScriptKeeps DEF TakeRequests
<1>11. CASE ServeRequest
  <2> DEFINE r == Head(work)
  <2>1. /\ r \in Request /\ work' \in Seq(Request)
        /\ UNCHANGED <<tabs, active_tab, requests, opened>>
    BY <1>0, <1>11 DEF ServeRequest
  <2>2. Kept
    BY <1>0, <2>1 DEF Kept
  <2> HIDE DEF r
  <2>3. \/ r.kind = "assign" /\ r.url \in Url
        \/ r.kind = "reload" \/ r.kind = "go"
    BY <2>1 DEF Request
  <2>4. \/ r.kind = "assign" /\ navigate(bfcache, live, r.url, TRUE)
        \/ r.kind = "reload" /\ reload
        \/ r.kind = "go" /\ history_back
    BY <1>11, <2>3 DEF ServeRequest, r
  <2> QED
    BY <1>0, <2>2, <2>3, <2>4, NavigateKeeps, ReloadKeeps, BackKeeps
<1>12. CASE UNCHANGED vars
  BY <1>0, <1>12, ScriptKeeps DEF vars
<1> QED
  BY <1>2, <1>3, <1>4, <1>5, <1>6, <1>7, <1>8, <1>9, <1>10, <1>11, <1>12 DEF Next

\* The invariant holds throughout.
LEMMA Invariant == Spec => []IInv
BY InitIInv, NextIInv, PTL DEF Spec

----------------------------------------------------------------------------
(* What follows. *)

\* The indices the shell uses without a check are in range, whatever is opened,
\* closed, switched, loaded and restored.
THEOREM TabsTyped == Spec => []TypeOK
<1>1. IInv => TypeOK
  <2> SUFFICES ASSUME IInv PROVE TypeOK
    OBVIOUS
  <2>1. \A t \in Tabs : t \in Tab /\ Ranged(t)
    BY DEF IInv, Types, Tabs, ToSet
  <2>2. \A e \in ToSet(bfcache) : e.page \in Page /\ e.scroll_y \in Scroll
    BY Held DEF ToSet, Entry
  <2>3. \A l \in 1..MaxLoads : ToSet(requests[l]) \subseteq Request
    <3> TAKE l \in 1..MaxLoads
    <3>1. requests[l] \in Seq(Request)
      BY DEF IInv, Types
    <3> QED
      BY <3>1 DEF ToSet
  <2> QED
    BY <2>1, <2>2, <2>3 DEF IInv, Types, Sound, Ranged, TypeOK
<1> QED
  BY <1>1, Invariant, PTL

\* For any number of tabs, pages and cached pages, each keeps its own scroll position
\* (navigate, snapshot_active_tab, restore_into_active).
THEOREM ScrollKept == Spec => []ScrollFollowsPage
<1>1. IInv => ScrollFollowsPage
  <2> SUFFICES ASSUME IInv PROVE ScrollFollowsPage
    OBVIOUS
  <2>1. \A t \in Tabs : t.page # NoPage => t.scroll_y = scrolled[t.page.load]
    BY DEF IInv, Followed, Own, Tabs, ToSet
  <2>2. \A i \in DOMAIN bfcache : bfcache[i].page # NoPage
    BY Held, Pages
  <2>3. \A e \in ToSet(bfcache) : e.scroll_y = scrolled[e.page.load]
    BY <2>2 DEF IInv, Followed, Own, ToSet
  <2> QED
    BY <2>1, <2>3 DEF ScrollFollowsPage
<1> QED
  BY <1>1, Invariant, PTL

\* For any cap, the cache holds one page of a URL, and none that a tab shows
\* (bfcache_push, bfcache_take).
THEOREM OnePagePerUrl == Spec => []CacheUnambiguous
<1>1. IInv => CacheUnambiguous
  BY DEF IInv, Sound, Apart, CacheUnambiguous, Tabs, ToSet
<1> QED
  BY <1>1, Invariant, PTL

\* No reload, by key or by script, puts back a page that was loaded before: the cache
\* that navigate looks into holds none of the URL (reload, navigate).
THEOREM ReloadsFetch == Spec => ReloadFetches
<1> DEFINE Fetched == /\ live'.page = live.page \/ live'.page.load > loads
                      /\ live'.page.url = live.page.url
                      /\ live'.history = live.history
                      /\ live'.history_cursor = live.history_cursor
                      /\ live.page # NoPage =>
                           \A e \in ToSet(bfcache') : e.page.url # live.page.url
<1>1. IInv => [(Reload \/ (ServeRequest /\ Head(work).kind = "reload")) => Fetched]_vars
  <2> SUFFICES ASSUME IInv
               PROVE  (Reload \/ (ServeRequest /\ Head(work).kind = "reload")) => Fetched
    OBVIOUS
  <2>1. ASSUME reload PROVE Fetched
    <3>1. live \in Tab /\ loads \in Nat
      BY Held DEF IInv, Types
    <3>2. CASE live.page = NoPage
      BY <2>1, <3>2 DEF reload, Fail
    <3>3. CASE live.page # NoPage
      <4> DEFINE url == live.page.url
                 c == Drop(bfcache, url)
      <4>1. \A i \in DOMAIN c : c[i].page.url # url
        BY Dropped DEF IInv
      <4>2. navigate(c, live, url, FALSE)
        BY <2>1, <3>3 DEF reload
      <4> HIDE DEF c
      <4>3. Fail(c, live) \/ Load(c, live, url, FALSE)
        BY <4>1, <4>2 DEF navigate, ToSet
      <4>4. bfcache' = c
        BY <4>3 DEF Fail, Load
      <4>5. CASE live' = live
        BY <4>1, <4>4, <4>5 DEF ToSet
      <4>6. CASE Load(c, live, url, FALSE)
        <5>1. live' = [live EXCEPT !.page = [load |-> loads + 1, url |-> url],
                                   !.scroll_y = "top",
                                   !.history = @, !.history_cursor = @, !.tip = @]
          BY <4>6 DEF Load
        <5>2. /\ live'.page = [load |-> loads + 1, url |-> url]
              /\ live'.history = live.history /\ live'.history_cursor = live.history_cursor
          BY <3>1, <5>1 DEF Tab
        <5>3. live'.page.load = loads + 1 /\ live'.page.url = url
          BY <5>2
        <5> QED
          BY <3>1, <4>1, <4>4, <5>2, <5>3 DEF ToSet
      <4> QED
        BY <4>3, <4>5, <4>6 DEF Fail
    <3> QED
      BY <3>2, <3>3
  <2>2. ServeRequest /\ Head(work).kind = "reload" => reload
    BY DEF ServeRequest
  <2> QED
    BY <2>1, <2>2 DEF Reload
<1> QED
  BY <1>1, Invariant, PTL DEF ReloadFetches

\* What an insertion puts in.
LEMMA InsertedSet ==
  ASSUME NEW l \in Tab, NEW s \in Seq(Tab), NEW a \in 0..Len(s)
  PROVE  ToSet(InsertAt(s, a + 1, l)) = {l} \cup ToSet(s)
<1> DEFINE strip == InsertAt(s, a + 1, l)
<1>0. Len(s) \in Nat /\ DOMAIN s = 1..Len(s)
  OBVIOUS
<1>7. /\ strip \in Seq(Tab) /\ Len(strip) = Len(s) + 1
      /\ \A i \in 1..(Len(s) + 1) :
           strip[i] = IF i <= a THEN s[i] ELSE IF i = a + 1 THEN l ELSE s[i - 1]
  BY Displayed
<1> HIDE DEF strip
<1>8. DOMAIN strip = 1..(Len(s) + 1)
  BY <1>7
<1>1. /\ strip \in Seq(Tab) /\ DOMAIN strip = 1..(Len(s) + 1)
      /\ \A i \in 1..(Len(s) + 1) :
           strip[i] = IF i <= a THEN s[i] ELSE IF i = a + 1 THEN l ELSE s[i - 1]
  BY <1>7, <1>8
<1>2. ASSUME NEW i \in DOMAIN strip PROVE strip[i] \in {l} \cup ToSet(s)
  <2>1. CASE i <= a
    <3>1. strip[i] = s[i] /\ i \in DOMAIN s
      BY <1>0, <1>1, <2>1
    <3> QED
      BY <3>1 DEF ToSet
  <2>2. CASE i = a + 1
    BY <1>0, <1>1, <2>2
  <2>3. CASE i > a + 1
    <3>1. strip[i] = s[i - 1] /\ i - 1 \in DOMAIN s
      BY <1>0, <1>1, <2>3
    <3> QED
      BY <3>1 DEF ToSet
  <2> QED
    BY <1>0, <1>1, <2>1, <2>2, <2>3
<1>3. l \in ToSet(strip)
  <2>1. a + 1 \in DOMAIN strip /\ strip[a + 1] = l
    BY <1>0, <1>1
  <2> QED
    BY <2>1 DEF ToSet
<1>4. ASSUME NEW i \in DOMAIN s PROVE s[i] \in ToSet(strip)
  <2>1. CASE i <= a
    <3>1. i \in DOMAIN strip /\ strip[i] = s[i]
      BY <1>0, <1>1, <2>1
    <3> QED
      BY <3>1 DEF ToSet
  <2>2. CASE i > a
    <3>1. i + 1 \in DOMAIN strip /\ strip[i + 1] = s[i]
      BY <1>0, <1>1, <2>2
    <3> QED
      BY <3>1 DEF ToSet
  <2> QED
    BY <1>0, <2>1, <2>2
<1>5. ToSet(strip) \subseteq {l} \cup ToSet(s)
  BY <1>2 DEF ToSet
<1>6. ToSet(s) \subseteq ToSet(strip)
  BY <1>4 DEF ToSet
<1> QED
  BY <1>3, <1>5, <1>6 DEF strip

\* Whichever tab is active and however many there are, closing one takes exactly it out
\* of the strip, and switching shows the one asked for and loses or doubles none
\* (close_tab, switch_to_tab).
THEOREM StripIsKept == Spec => StripKept
<1>1. IInv => [\A index \in 0..(tab_count - 1) :
                  /\ CloseTab(index) => Strip' = RemoveAt(Strip, index + 1)
                  /\ SwitchToTab(index) => /\ live' = Strip[index + 1]
                                           /\ ToSet(Strip') = ToSet(Strip)]_vars
  <2> SUFFICES ASSUME IInv
               PROVE  \A index \in 0..(tab_count - 1) :
                        /\ CloseTab(index) => Strip' = RemoveAt(Strip, index + 1)
                        /\ SwitchToTab(index) => /\ live' = Strip[index + 1]
                                                 /\ ToSet(Strip') = ToSet(Strip)
    OBVIOUS
  <2> TAKE index \in 0..(tab_count - 1)
  <2>1. CloseTab(index) => Strip' = RemoveAt(Strip, index + 1)
    BY Closed
  <2>2. ASSUME SwitchToTab(index)
        PROVE  live' = Strip[index + 1] /\ ToSet(Strip') = ToSet(Strip)
    <3>1. /\ index # active_tab
          /\ live' = tabs[Slot(index)]
          /\ tabs' = [tabs EXCEPT ![Slot(index)] = live]
          /\ active_tab' = index
      BY <2>2 DEF SwitchToTab
    <3>2. /\ tabs \in Seq(Tab) /\ Len(tabs) \in Nat /\ live \in Tab
          /\ active_tab \in 0..Len(tabs) /\ index \in 0..Len(tabs)
      BY DEF IInv, Types, tab_count
    <3>3. Slot(index) \in 1..Len(tabs)
      BY <3>1, <3>2 DEF Slot
    <3>4. PICK n \in Nat : n = Len(tabs)
      BY <3>2
    <3>5. PICK p \in 1..n, a \in 0..n, k \in 0..n :
            p = Slot(index) /\ a = active_tab /\ k = index
      BY <3>2, <3>3, <3>4
    <3>6. /\ live' = tabs[p] /\ tabs' = [tabs EXCEPT ![p] = live] /\ k # a
          /\ p = IF k < a THEN k + 1 ELSE k
      BY <3>1, <3>5 DEF Slot
    <3>7. /\ tabs' \in Seq(Tab) /\ Len(tabs') = n /\ live' \in Tab
          /\ DOMAIN tabs = 1..n /\ DOMAIN tabs' = 1..n
          /\ \A i \in 1..n : tabs'[i] = IF i = p THEN live ELSE tabs[i]
      BY <3>2, <3>4, <3>6
    <3>8. Strip = InsertAt(tabs, a + 1, live) /\ Strip' = InsertAt(tabs', k + 1, live')
      BY <3>1, <3>5 DEF Strip
    <3>9. tabs \in Seq(Tab) /\ live \in Tab /\ a \in 0..Len(tabs) /\ k \in 0..Len(tabs')
      BY <3>2, <3>4, <3>7
    <3>10. live' = Strip[index + 1]
      <4> DEFINE strip == InsertAt(tabs, a + 1, live)
      <4>1. \A i \in 1..(Len(tabs) + 1) :
              strip[i] = IF i <= a THEN tabs[i] ELSE IF i = a + 1 THEN live ELSE tabs[i - 1]
        BY <3>9, Displayed
      <4>2. k + 1 \in 1..(Len(tabs) + 1) /\ (k + 1) - 1 = k
        BY <3>4
      <4> HIDE DEF strip
      <4>3. strip[k + 1] = tabs[p]
        BY <3>6, <4>1, <4>2
      <4> QED
        BY <3>5, <3>6, <3>8, <4>3 DEF strip
    <3>11. ToSet(Strip) = {live} \cup ToSet(tabs)
      BY <3>8, <3>9, InsertedSet
    <3>12. ToSet(Strip') = {live'} \cup ToSet(tabs')
      BY <3>7, <3>8, <3>9, InsertedSet
    <3>13. {live} \cup ToSet(tabs) = {tabs[p]} \cup ToSet(tabs')
      BY <3>7 DEF ToSet
    <3> QED
      BY <3>6, <3>10, <3>11, <3>12, <3>13
  <2> QED
    BY <2>1, <2>2
<1> QED
  BY <1>1, Invariant, PTL DEF StripKept

============================================================================
