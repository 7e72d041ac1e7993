----------------------------- MODULE PageProofs -----------------------------
(***************************************************************************)
(* Proofs about what a page is made of (PageObjects): what has ended is    *)
(* told to have ended, what is started is answered whole and in order, and *)
(* a paused animation keeps its time.  Each kind of object has an invariant*)
(* of its own; PageInv puts them together.                                 *)
(***************************************************************************)
EXTENDS PageObjects, Functions, FiniteSetTheorems, SequenceTheorems, WellFoundedInduction, TLAPS

----------------------------------------------------------------------------
(* Sequences. *)

\* A sequence with one more in front.
LEMMA InFront ==
  ASSUME NEW T, NEW x \in T, NEW s \in Seq(T)
  PROVE  /\ <<x>> \o s \in Seq(T) /\ DOMAIN (<<x>> \o s) = 1..(Len(s) + 1)
         /\ (<<x>> \o s)[1] = x
         /\ \A n \in DOMAIN s : n + 1 \in DOMAIN (<<x>> \o s) /\ (<<x>> \o s)[n + 1] = s[n]
         /\ \A n \in DOMAIN (<<x>> \o s) : n = 1 \/ (n - 1 \in DOMAIN s /\ (<<x>> \o s)[n] = s[n - 1])
<1>1. <<x>> \in Seq(T) /\ Len(<<x>>) = 1 /\ <<x>>[1] = x
  OBVIOUS
<1> DEFINE one == <<x>>
<1> HIDE DEF one
<1>2. one \o s \in Seq(T) /\ Len(one \o s) = Len(s) + 1
  BY <1>1 DEF one
<1>3. \A n \in 1..(Len(s) + 1) : (one \o s)[n] = IF n <= 1 THEN one[n] ELSE s[n - 1]
  BY <1>1 DEF one
<1> QED
  BY <1>1, <1>2, <1>3 DEF one

\* A sequence without its first.
LEMMA Behind ==
  ASSUME NEW T, NEW s \in Seq(T), s # <<>>
  PROVE  /\ Head(s) \in T /\ Head(s) = s[1] /\ 1 \in DOMAIN s
         /\ Tail(s) \in Seq(T) /\ Len(s) \in Nat \ {0} /\ DOMAIN Tail(s) = 1..(Len(s) - 1)
         /\ \A n \in DOMAIN Tail(s) : n + 1 \in DOMAIN s /\ Tail(s)[n] = s[n + 1]
         /\ \A n \in DOMAIN s : n = 1 \/ (n - 1 \in DOMAIN Tail(s) /\ Tail(s)[n - 1] = s[n])
<1>1. Len(s) \in Nat /\ Len(s) # 0 /\ DOMAIN s = 1..Len(s)
  OBVIOUS
<1>2. Head(s) \in T /\ Head(s) = s[1]
  BY <1>1
<1>3. Tail(s) \in Seq(T) /\ Len(Tail(s)) = Len(s) - 1
  BY <1>1
<1>4. \A n \in 1..(Len(s) - 1) : Tail(s)[n] = s[n + 1]
  BY <1>1
<1> QED
  BY <1>1, <1>2, <1>3, <1>4

\* A sequence with one more behind.
LEMMA Appended ==
  ASSUME NEW T, NEW x \in T, NEW s \in Seq(T)
  PROVE  /\ Append(s, x) \in Seq(T) /\ DOMAIN Append(s, x) = 1..(Len(s) + 1) /\ Len(s) \in Nat
         /\ Len(Append(s, x)) = Len(s) + 1 /\ Append(s, x)[Len(s) + 1] = x /\ DOMAIN s = 1..Len(s)
         /\ \A n \in DOMAIN s : Append(s, x)[n] = s[n]
  OBVIOUS

----------------------------------------------------------------------------
(* What is computed item by item: a function on 0..n, each value made of the one before. *)

\* A set of naturals has a least member.
LEMMA LeastMember ==
  ASSUME NEW S, S \subseteq Nat, S # {}
  PROVE  \E m \in S : \A k \in S : m <= k
<1>1. PICK m \in S : \A k \in S : <<k, m>> \notin OpToRel(<, Nat)
  BY WFMin, NatLessThanWellFounded
<1>2. \A k \in S : ~(k < m)
  BY <1>1 DEF OpToRel
<1>3. \A k \in S : m <= k
  BY <1>2
<1> QED
  BY <1>3

\* What holds of 0 and is handed on holds up to n.
LEMMA UpTo ==
  ASSUME NEW n \in Nat, NEW B, 0 \in B, \A k \in 0..n : k \in B /\ k < n => k + 1 \in B
  PROVE  \A k \in 0..n : k \in B
<1> DEFINE odd == {k \in 0..n : k \notin B}
<1> SUFFICES ASSUME odd # {} PROVE FALSE
  OBVIOUS
<1>1. odd \subseteq Nat
  OBVIOUS
<1>2. PICK m \in odd : \A k \in odd : m <= k
  <2> HIDE DEF odd
  <2> QED
    BY <1>1, LeastMember
<1>3. m \in 0..n /\ m \notin B /\ m # 0
  BY <1>2
<1>4. m - 1 \in 0..n /\ m - 1 \in B /\ m - 1 < n
  BY <1>2, <1>3
<1> QED
  BY <1>3, <1>4

\* it starts at base, and F makes each value of the one before.
Iterates(it, base, F, n) == it[0] = base /\ \A i \in 1..n : it[i] = F[<<i, it[i - 1]>>]

\* Such a function exists.
LEMMA Iterated ==
  ASSUME NEW n \in Nat, NEW S, NEW base \in S, NEW F \in [(1..n) \X S -> S]
  PROVE  \E it \in [0..n -> S] : Iterates(it, base, F, n)
<1> SUFFICES \E it \in [0..n -> S] : it[0] = base /\ \A i \in 1..n : it[i] = F[<<i, it[i - 1]>>]
  BY DEF Iterates
<1> DEFINE Fits(it, m) == it[0] = base /\ \A i \in 1..m : it[i] = F[<<i, it[i - 1]>>]
           B == {m \in 0..n : \E it \in [0..m -> S] : Fits(it, m)}
<1>1. 0 \in B
  <2> DEFINE it == [i \in 0..0 |-> base]
  <2>1. it \in [0..0 -> S] /\ Fits(it, 0)
    OBVIOUS
  <2> HIDE DEF it, Fits
  <2> QED
    BY <2>1
<1>2. ASSUME NEW m \in 0..n, m \in B, m < n PROVE m + 1 \in B
  <2>1. PICK it \in [0..m -> S] : Fits(it, m)
    BY <1>2
  <2> DEFINE top == F[<<m + 1, it[m]>>]
             up == [i \in 0..(m + 1) |-> IF i <= m THEN it[i] ELSE top]
  <2>2. top \in S
    <3>1. <<m + 1, it[m]>> \in (1..n) \X S
      BY <1>2
    <3> QED
      BY <3>1
  <2>3. up \in [0..(m + 1) -> S]
    <3> HIDE DEF top
    <3> QED
      BY <2>2
  <2>4. up[m + 1] = top /\ \A i \in 0..m : up[i] = it[i]
    <3> HIDE DEF top
    <3> QED
      BY <1>2
  <2> HIDE DEF up
  <2>5. Fits(up, m + 1)
    <3>1. up[0] = base
      BY <2>1, <2>4
    <3>2. ASSUME NEW i \in 1..(m + 1) PROVE up[i] = F[<<i, up[i - 1]>>]
      <4>1. i - 1 \in 0..m /\ up[i - 1] = it[i - 1]
        BY <2>4
      <4>2. CASE i \in 1..m
        BY <2>1, <2>4, <4>1, <4>2
      <4>3. CASE i = m + 1
        BY <2>4, <4>1, <4>3
      <4> QED
        BY <4>2, <4>3
    <3> QED
      BY <3>1, <3>2
  <2> HIDE DEF Fits
  <2> QED
    BY <1>2, <2>3, <2>5
<1>3. n \in B
  <2>1. \A k \in 0..n : k \in B
    <3> HIDE DEF B
    <3> QED
      BY <1>1, <1>2, UpTo
  <2> QED
    BY <2>1
<1> QED
  BY <1>3

\* f is what passing over the places D of cs keeps of them: those in S, in their order.
Chosen(f, cs, S, T, D) ==
  /\ f \in Seq(T)
  /\ \A i \in DOMAIN f : f[i] \in S /\ \E a \in D : f[i] = cs[a]
  /\ \A i, j \in DOMAIN f : i < j => \E a, b \in D : a < b /\ f[i] = cs[a] /\ f[j] = cs[b]
  /\ \A a \in D : cs[a] \in S => \E i \in DOMAIN f : f[i] = cs[a]

\* One item more.
LEMMA ChosenMore ==
  ASSUME NEW T, NEW S, NEW cs \in Seq(T), NEW k \in Nat, k + 1 \in 1..Len(cs), NEW f, Chosen(f, cs, S, T, 1..k)
  PROVE  Chosen(IF cs[k + 1] \in S THEN Append(f, cs[k + 1]) ELSE f, cs, S, T, 1..(k + 1))
<1> DEFINE x == cs[k + 1]
           m == Len(f)
<1>1. /\ f \in Seq(T)
      /\ \A i \in DOMAIN f : f[i] \in S /\ \E a \in 1..k : f[i] = cs[a]
      /\ \A i, j \in DOMAIN f : i < j => \E a, b \in 1..k : a < b /\ f[i] = cs[a] /\ f[j] = cs[b]
      /\ \A a \in 1..k : cs[a] \in S => \E i \in DOMAIN f : f[i] = cs[a]
  BY DEF Chosen
<1>2. x \in T /\ x = cs[k + 1] /\ m \in Nat /\ DOMAIN f = 1..m
  BY <1>1
<1>3. /\ \A a \in 1..k : a \in 1..(k + 1) /\ a < k + 1
      /\ k + 1 \in 1..(k + 1)
      /\ \A a \in 1..(k + 1) : a \in 1..k \/ a = k + 1
  OBVIOUS
<1>4. CASE x \notin S
  <2>1. \A i \in DOMAIN f : f[i] \in S /\ \E a \in 1..(k + 1) : f[i] = cs[a]
    BY <1>1, <1>3
  <2>2. \A i, j \in DOMAIN f : i < j => \E a, b \in 1..(k + 1) : a < b /\ f[i] = cs[a] /\ f[j] = cs[b]
    <3> TAKE i, j \in DOMAIN f
    <3> HAVE i < j
    <3>1. PICK a, b \in 1..k : a < b /\ f[i] = cs[a] /\ f[j] = cs[b]
      BY <1>1
    <3> QED
      BY <1>3, <3>1
  <2>3. \A a \in 1..(k + 1) : cs[a] \in S => \E i \in DOMAIN f : f[i] = cs[a]
    BY <1>1, <1>2, <1>3, <1>4
  <2> QED
    BY <1>1, <1>4, <2>1, <2>2, <2>3 DEF Chosen
<1>5. CASE x \in S
  <2> DEFINE g == Append(f, x)
  <2>1. /\ g \in Seq(T) /\ DOMAIN g = 1..(m + 1) /\ g[m + 1] = x
        /\ \A i \in DOMAIN f : g[i] = f[i]
    BY <1>1, <1>2, Appended
  <2> HIDE DEF g, x, m
  <2>2. \A i \in DOMAIN g : i \in DOMAIN f \/ i = m + 1
    BY <1>2, <2>1
  <2>3. \A i \in DOMAIN g : g[i] \in S /\ \E a \in 1..(k + 1) : g[i] = cs[a]
    <3> TAKE i \in DOMAIN g
    <3>1. CASE i \in DOMAIN f
      BY <1>1, <1>3, <2>1, <3>1
    <3>2. CASE i = m + 1
      BY <1>2, <1>3, <1>5, <2>1, <3>2
    <3> QED
      BY <2>2, <3>1, <3>2
  <2>4. \A i, j \in DOMAIN g : i < j => \E a, b \in 1..(k + 1) : a < b /\ g[i] = cs[a] /\ g[j] = cs[b]
    <3> TAKE i, j \in DOMAIN g
    <3> HAVE i < j
    <3>1. i \in DOMAIN f
      BY <1>2, <2>1
    <3>2. CASE j \in DOMAIN f
      <4>1. PICK a, b \in 1..k : a < b /\ f[i] = cs[a] /\ f[j] = cs[b]
        BY <1>1, <3>1, <3>2
      <4> QED
        BY <1>3, <2>1, <3>1, <3>2, <4>1
    <3>3. CASE j = m + 1
      <4>1. PICK a \in 1..k : f[i] = cs[a]
        BY <1>1, <3>1
      <4> QED
        BY <1>2, <1>3, <2>1, <3>1, <3>3, <4>1
    <3> QED
      BY <2>2, <3>2, <3>3
  <2>5. \A a \in 1..(k + 1) : cs[a] \in S => \E i \in DOMAIN g : g[i] = cs[a]
    <3> TAKE a \in 1..(k + 1)
    <3> HAVE cs[a] \in S
    <3>1. CASE a \in 1..k
      <4>1. PICK i \in DOMAIN f : f[i] = cs[a]
        BY <1>1, <3>1
      <4> QED
        BY <1>2, <2>1, <4>1
    <3>2. CASE a = k + 1
      BY <1>2, <2>1, <3>2
    <3> QED
      BY <1>3, <3>1, <3>2
  <2>6. Chosen(g, cs, S, T, 1..(k + 1))
    BY <2>1, <2>3, <2>4, <2>5 DEF Chosen
  <2> QED
    BY <1>5, <2>6 DEF g, x
<1> QED
  BY <1>4, <1>5

\* Among takes the items of a sequence that are in S, in their order.
LEMMA AmongChosen ==
  ASSUME NEW T, NEW cs \in Seq(T), NEW S
  PROVE  Chosen(MO!Among(cs, S), cs, S, T, DOMAIN cs)
<1> DEFINE m == Len(cs)
           D == Seq(T)
           nil == <<>>
           F == [p \in (1..m) \X D |-> IF cs[p[1]] \in S THEN Append(p[2], cs[p[1]]) ELSE p[2]]
           Step(kept) == [n \in 0..m |->
                            IF n = 0 THEN nil
                            ELSE IF cs[n] \in S THEN Append(kept[n - 1], cs[n]) ELSE kept[n - 1]]
           rec == CHOOSE kept : kept = Step(kept)
<1>0. m \in Nat /\ nil \in D /\ \A n \in 1..m : cs[n] \in T
  OBVIOUS
<1>1. \A f \in D, x \in T : Append(f, x) \in D
  OBVIOUS
<1>2. MO!Among(cs, S) = rec[m]
  BY DEF MO!Among
<1>3. F \in [(1..m) \X D -> D]
  <2> HIDE DEF m, D
  <2>1. ASSUME NEW p \in (1..m) \X D
        PROVE  (IF cs[p[1]] \in S THEN Append(p[2], cs[p[1]]) ELSE p[2]) \in D
    <3>1. p[1] \in 1..m /\ p[2] \in D
      OBVIOUS
    <3> QED
      BY <1>0, <1>1, <3>1
  <2> QED
    BY <2>1
<1>4. \A i \in 1..m, f \in D : F[<<i, f>>] = IF cs[i] \in S THEN Append(f, cs[i]) ELSE f
  OBVIOUS
<1> HIDE DEF F, m, D, nil
<1>5. PICK it \in [0..m -> D] : it[0] = nil /\ \A i \in 1..m : it[i] = F[<<i, it[i - 1]>>]
  <2>1. PICK it \in [0..m -> D] : Iterates(it, nil, F, m)
    BY <1>0, <1>3, Iterated
  <2> QED
    BY <2>1 DEF Iterates
<1>6. \A i \in 1..m : it[i] = IF cs[i] \in S THEN Append(it[i - 1], cs[i]) ELSE it[i - 1]
  <2> TAKE i \in 1..m
  <2>1. i - 1 \in 0..m
    BY <1>0
  <2> QED
    BY <1>4, <1>5, <2>1
<1>7. it = Step(it)
  <2>1. it = [n \in 0..m |-> it[n]]
    OBVIOUS
  <2>2. ASSUME NEW n \in 0..m
        PROVE  it[n] = IF n = 0 THEN nil
                       ELSE IF cs[n] \in S THEN Append(it[n - 1], cs[n]) ELSE it[n - 1]
    <3>1. CASE n = 0
      BY <1>5, <3>1
    <3>2. CASE n \in 1..m
      <4>1. n # 0
        BY <1>0, <3>2
      <4> QED
        BY <1>6, <3>2, <4>1
    <3> QED
      BY <1>0, <3>1, <3>2
  <2> QED
    BY <2>1, <2>2
<1>8. rec = Step(rec)
  <2> HIDE DEF Step
  <2> QED
    BY <1>7
<1> HIDE DEF rec
<1>9. \A n \in 0..m :
        rec[n] = IF n = 0 THEN nil
                 ELSE IF cs[n] \in S THEN Append(rec[n - 1], cs[n]) ELSE rec[n - 1]
  BY <1>8
<1> HIDE DEF Step
<1> DEFINE B == {n \in 0..m : Chosen(rec[n], cs, S, T, 1..n)}
<1>10. 0 \in B
  <2>1. rec[0] = <<>> /\ 0 \in 0..m
    BY <1>0, <1>9 DEF nil
  <2>2. Chosen(<<>>, cs, S, T, 1..0)
    BY DEF Chosen
  <2> QED
    BY <2>1, <2>2
<1>11. \A k \in 0..m : k \in B /\ k < m => k + 1 \in B
  <2> TAKE k \in 0..m
  <2> HAVE k \in B /\ k < m
  <2>1. k \in Nat /\ k + 1 \in 0..m /\ k + 1 # 0 /\ (k + 1) - 1 = k /\ k + 1 \in 1..Len(cs)
    BY <1>0 DEF m
  <2>2. rec[k + 1] = IF cs[k + 1] \in S THEN Append(rec[k], cs[k + 1]) ELSE rec[k]
    BY <1>9, <2>1
  <2>3. Chosen(rec[k + 1], cs, S, T, 1..(k + 1))
    BY <2>1, <2>2, ChosenMore
  <2> QED
    BY <2>1, <2>3
<1> HIDE DEF B
<1>12. \A k \in 0..m : k \in B
  BY <1>0, <1>10, <1>11, UpTo
<1>13. m \in 0..m
  BY <1>0
<1>14. Chosen(rec[m], cs, S, T, 1..m)
  BY <1>12, <1>13 DEF B
<1>15. DOMAIN cs = 1..m
  BY DEF m
<1> QED
  BY <1>2, <1>14, <1>15

----------------------------------------------------------------------------
(* Abort signals. *)

AbortCalls == [of : AB!Signal, reason : AB!Signal, events : Nat, follow : Seq(AB!Signal)]
AbortStates ==
  [made : 0..MaxSignals, reason : [AB!Signal -> 0..MaxSignals], follow : [AB!Signal -> Seq(AB!Signal)],
   listeners : [AB!Signal -> Nat], calls : Seq(AbortCalls), sources : [AB!Signal -> SUBSET AB!Signal]]

\* s is among those that the call c will come to.
ComesTo(c, s) == \E k \in DOMAIN c.follow : c.follow[k] = s

\* A signal follows its sources as long as none is aborted; once one is, it is aborted or
\* a call will come to it.  x, if it is a signal, is not asked: it is about to abort.
Followed(a, x) ==
  /\ \A s \in AB!Signal : s > a.made => a.reason[s] = 0 /\ a.sources[s] = {}
  /\ \A s \in AB!Signal : \A src \in a.sources[s] : src <= a.made
  /\ \A src \in AB!Signal : \A k \in DOMAIN a.follow[src] : src \in a.sources[a.follow[src][k]]
  /\ \A s \in AB!Signal \ {x} : \A src \in a.sources[s] :
       a.reason[src] = 0 /\ a.reason[s] = 0 => \E k \in DOMAIN a.follow[src] : a.follow[src][k] = s
  /\ \A n \in DOMAIN a.calls :
       /\ a.reason[a.calls[n].of] = a.calls[n].reason
       /\ \A k \in DOMAIN a.calls[n].follow : a.calls[n].of \in a.sources[a.calls[n].follow[k]]
  /\ \A s \in AB!Signal \ {x} : \A src \in a.sources[s] :
       a.reason[src] # 0 /\ a.reason[s] = 0 => \E n \in DOMAIN a.calls : ComesTo(a.calls[n], s)
  /\ \A s \in AB!Signal :
       a.reason[s] # 0 => a.reason[s] = s \/ \E src \in a.sources[s] : a.reason[s] = a.reason[src]

AbortInv == object \in AbortStates /\ Followed(object, 0)

\* A call of fire_abort on the signal x that was about to abort.
LEMMA FiredFollowed ==
  ASSUME MaxSignals \in Nat, NEW a \in AbortStates, NEW x \in AB!Signal, x <= a.made,
         NEW r \in AB!Signal, Followed(a, x),
         r = x \/ \E src \in a.sources[x] : a.reason[src] = r
  PROVE  AB!Fired(a, x, r) \in AbortStates /\ Followed(AB!Fired(a, x, r), 0)
<1> USE DEF AB!Signal, AB!NotYet
<1>1. CASE a.reason[x] # 0
  <2>1. AB!Fired(a, x, r) = a
    BY <1>1 DEF AB!Fired
  <2>2. Followed(a, 0)
    BY <1>1 DEF Followed
  <2> QED
    BY <2>1, <2>2
<1>2. CASE a.reason[x] = 0
  <2> DEFINE c == [of |-> x, reason |-> r, events |-> 1 + a.listeners[x], follow |-> a.follow[x]]
             b == AB!Fired(a, x, r)
  <2>1. b = [a EXCEPT !.reason[x] = r, !.calls = <<c>> \o @]
    BY <1>2 DEF AB!Fired
  <2>2. c \in AbortCalls
    BY DEF AbortStates, AbortCalls
  <2>3. c.of = x /\ c.reason = r /\ c.follow = a.follow[x]
    OBVIOUS
  <2> HIDE DEF c, b
  <2>4. /\ b.made = a.made /\ b.follow = a.follow /\ b.sources = a.sources
        /\ b.reason = [a.reason EXCEPT ![x] = r] /\ b.calls = <<c>> \o a.calls
        /\ b.listeners = a.listeners
    BY <2>1 DEF AbortStates
  <2>5. b.calls \in Seq(AbortCalls)
    BY <2>2, <2>4 DEF AbortStates
  <2>6. b \in AbortStates
    <3>1. b.reason \in [AB!Signal -> 0..MaxSignals]
      BY <2>4 DEF AbortStates
    <3>2. b = [made |-> a.made, reason |-> b.reason, follow |-> a.follow, listeners |-> a.listeners,
               calls |-> b.calls, sources |-> a.sources]
      BY <2>1, <2>4 DEF AbortStates
    <3> QED
      BY <2>5, <3>1, <3>2 DEF AbortStates
  <2>7. /\ 1 \in DOMAIN b.calls /\ b.calls[1] = c
        /\ \A n \in DOMAIN a.calls : n + 1 \in DOMAIN b.calls /\ b.calls[n + 1] = a.calls[n]
        /\ \A n \in DOMAIN b.calls : n = 1 \/ (n - 1 \in DOMAIN a.calls /\ b.calls[n] = a.calls[n - 1])
    <3>1. a.calls \in Seq(AbortCalls)
      BY DEF AbortStates
    <3> QED
      BY <2>2, <2>4, <3>1, InFront
  <2>8. /\ b.reason[x] = r /\ \A s \in 1..MaxSignals : s # x => b.reason[s] = a.reason[s]
        /\ r # 0
    BY <2>4 DEF AbortStates
  <2>9. \A s \in AB!Signal : s > b.made => b.reason[s] = 0 /\ b.sources[s] = {}
    <3>1. \A s \in AB!Signal : s > a.made => a.reason[s] = 0 /\ a.sources[s] = {}
      BY Zenon DEF Followed
    <3>2. a.made \in Nat
      BY DEF AbortStates
    <3>3. \A s \in AB!Signal : s > a.made => s # x
      BY <3>2
    <3> QED
      BY <2>4, <2>8, <3>1, <3>3
  <2>10. /\ \A s \in AB!Signal : \A src \in b.sources[s] : src <= b.made
         /\ \A src \in AB!Signal : \A k \in DOMAIN b.follow[src] : src \in b.sources[b.follow[src][k]]
    BY <2>4 DEF Followed
  <2>11. \A s \in AB!Signal \ {0} : \A src \in b.sources[s] :
           b.reason[src] = 0 /\ b.reason[s] = 0 => \E k \in DOMAIN b.follow[src] : b.follow[src][k] = s
    <3> TAKE s \in AB!Signal \ {0}
    <3> TAKE src \in b.sources[s]
    <3> HAVE b.reason[src] = 0 /\ b.reason[s] = 0
    <3>1. s # x /\ src # x /\ src \in AB!Signal
      BY <2>4, <2>8 DEF AbortStates
    <3>2. a.reason[src] = 0 /\ a.reason[s] = 0
      BY <2>8, <3>1
    <3> QED
      BY <2>4, <3>1, <3>2 DEF Followed
  <2>12. ASSUME NEW n \in DOMAIN b.calls
         PROVE  /\ b.reason[b.calls[n].of] = b.calls[n].reason
                /\ \A k \in DOMAIN b.calls[n].follow : b.calls[n].of \in b.sources[b.calls[n].follow[k]]
    <3>1. CASE n = 1
      <4>1. b.reason[b.calls[n].of] = b.calls[n].reason
        BY <2>3, <2>7, <2>8, <3>1
      <4>2. \A k \in DOMAIN b.calls[n].follow : b.calls[n].of \in b.sources[b.calls[n].follow[k]]
        BY <2>3, <2>4, <2>7, <3>1 DEF Followed
      <4> QED
        BY <4>1, <4>2
    <3>2. CASE n # 1
      <4>1. n - 1 \in DOMAIN a.calls /\ b.calls[n] = a.calls[n - 1]
        BY <2>7, <3>2
      <4>2. a.calls[n - 1] \in AbortCalls
        BY <4>1 DEF AbortStates
      <4>3. a.reason[a.calls[n - 1].of] = a.calls[n - 1].reason /\ a.calls[n - 1].reason # 0
        BY <4>1, <4>2 DEF Followed, AbortCalls
      <4>4. a.calls[n - 1].of # x /\ a.calls[n - 1].of \in 1..MaxSignals
        BY <1>2, <4>2, <4>3 DEF AbortCalls
      <4>5. b.reason[b.calls[n].of] = b.calls[n].reason
        BY <2>8, <4>1, <4>3, <4>4
      <4>6. \A k \in DOMAIN b.calls[n].follow : b.calls[n].of \in b.sources[b.calls[n].follow[k]]
        BY <2>4, <4>1 DEF Followed
      <4> QED
        BY <4>5, <4>6
    <3> QED
      BY <3>1, <3>2
  <2>13. \A s \in AB!Signal \ {0} : \A src \in b.sources[s] :
           b.reason[src] # 0 /\ b.reason[s] = 0 => \E n \in DOMAIN b.calls : ComesTo(b.calls[n], s)
    <3> TAKE s \in AB!Signal \ {0}
    <3> TAKE src \in b.sources[s]
    <3> HAVE b.reason[src] # 0 /\ b.reason[s] = 0
    <3>1. s # x /\ src \in AB!Signal /\ src \in a.sources[s] /\ a.reason[s] = 0
      BY <2>4, <2>8 DEF AbortStates
    <3>2. CASE src = x
      <4>1. \E k \in DOMAIN a.follow[x] : a.follow[x][k] = s
        BY <1>2, <3>1, <3>2 DEF Followed
      <4>2. ComesTo(c, s)
        BY <2>3, <4>1 DEF ComesTo
      <4> QED
        BY <2>7, <4>2
    <3>3. CASE src # x
      <4>1. a.reason[src] # 0
        BY <2>8, <3>1, <3>3
      <4>2. PICK n \in DOMAIN a.calls : ComesTo(a.calls[n], s)
        BY <3>1, <4>1 DEF Followed
      <4>3. n + 1 \in DOMAIN b.calls /\ b.calls[n + 1] = a.calls[n]
        BY <2>7
      <4> QED
        BY <4>2, <4>3
    <3> QED
      BY <3>2, <3>3
  <2>14. \A s \in AB!Signal :
           b.reason[s] # 0 => b.reason[s] = s \/ \E src \in b.sources[s] : b.reason[s] = b.reason[src]
    <3> TAKE s \in AB!Signal
    <3> HAVE b.reason[s] # 0
    <3>1. CASE s = x
      <4>1. CASE r = x
        BY <2>8, <3>1, <4>1
      <4>2. CASE r # x
        <5>1. PICK src \in a.sources[x] : a.reason[src] = r
          BY <4>2
        <5>2. src \in AB!Signal /\ src # x
          BY <1>2, <2>8, <5>1 DEF AbortStates
        <5> QED
          BY <2>4, <2>8, <3>1, <5>1, <5>2
      <4> QED
        BY <4>1, <4>2
    <3>2. CASE s # x
      <4>1. a.reason[s] # 0 /\ b.reason[s] = a.reason[s]
        BY <2>8, <3>2
      <4>2. a.reason[s] = s \/ \E src \in a.sources[s] : a.reason[s] = a.reason[src]
        BY <4>1 DEF Followed
      <4>3. \A src \in a.sources[s] : a.reason[s] = a.reason[src] => b.reason[s] = b.reason[src]
        BY <1>2, <2>8, <4>1 DEF AbortStates
      <4> QED
        BY <2>4, <4>1, <4>2, <4>3
    <3> QED
      BY <3>1, <3>2
  <2>15. Followed(b, 0)
    BY <2>9, <2>10, <2>11, <2>12, <2>13, <2>14 DEF Followed
  <2> QED
    BY <2>6, <2>15 DEF b
<1> QED
  BY <1>1, <1>2 DEF AbortStates

\* A new signal that follows some of its sources.
LEMMA JoinedFollowed ==
  ASSUME MaxSignals \in Nat, AbortInv, object.made < MaxSignals,
         NEW S \in SUBSET (1..object.made), NEW of \in SUBSET S
  PROVE  LET i == object.made + 1  b == AB!Joined(i, S, of) IN
         /\ i \in AB!Signal /\ b \in AbortStates /\ b.made = i /\ b.sources[i] = S
         /\ b.reason = object.reason /\ b.reason[i] = 0 /\ b.listeners = object.listeners
         /\ Followed(b, i)
         /\ (\A s \in S : object.reason[s] = 0 /\ s \in of) => Followed(b, 0)
<1> USE DEF AB!Signal
<1> DEFINE i == object.made + 1
           b == AB!Joined(i, S, of)
<1>1. object \in AbortStates /\ Followed(object, 0) /\ i \in AB!Signal /\ object.made \in Nat
  <2>1. object \in AbortStates /\ Followed(object, 0)
    BY Zenon DEF AbortInv
  <2>2. object.made \in 0..MaxSignals
    BY <2>1 DEF AbortStates
  <2> QED
    BY <2>1, <2>2
<1>2. b = [object EXCEPT !.made = i, !.sources[i] = S,
             !.follow = [s \in AB!Signal |-> IF s \in of THEN Append(object.follow[s], i) ELSE object.follow[s]]]
  BY <1>1 DEF AB!Joined, AB!New, AbortStates
<1> HIDE DEF i, b
<1>3. /\ b.made = i /\ b.reason = object.reason /\ b.listeners = object.listeners /\ b.calls = object.calls
      /\ b.sources = [object.sources EXCEPT ![i] = S]
      /\ b.follow = [s \in AB!Signal |-> IF s \in of THEN Append(object.follow[s], i) ELSE object.follow[s]]
  BY <1>1, <1>2 DEF AbortStates
<1>4. b.sources \in [AB!Signal -> SUBSET AB!Signal] /\ b.follow \in [AB!Signal -> Seq(AB!Signal)]
  <2>1. b.sources \in [AB!Signal -> SUBSET AB!Signal]
    BY <1>1, <1>3 DEF AbortStates, i
  <2>2. object.follow \in [AB!Signal -> Seq(AB!Signal)]
    BY <1>1 DEF AbortStates
  <2>3. \A s \in AB!Signal : object.follow[s] \in Seq(AB!Signal) /\ Append(object.follow[s], i) \in Seq(AB!Signal)
    BY <1>1, <2>2
  <2> QED
    BY <1>3, <2>1, <2>3
<1>5. b \in AbortStates
  <2>1. b = [made |-> i, reason |-> object.reason, follow |-> b.follow, listeners |-> object.listeners,
             calls |-> object.calls, sources |-> b.sources]
    BY <1>1, <1>2, <1>3 DEF AbortStates
  <2> QED
    BY <1>1, <1>4, <2>1 DEF AbortStates
<1>6. /\ \A s \in AB!Signal : s # i => b.sources[s] = object.sources[s]
      /\ b.sources[i] = S /\ object.sources[i] = {} /\ b.reason[i] = 0
  BY <1>1, <1>3 DEF AbortStates, Followed, i
<1>7. \A s, t \in AB!Signal : t \in object.sources[s] => t \in b.sources[s]
  BY <1>6
<1>8. ASSUME NEW s \in AB!Signal
      PROVE  /\ \A k \in DOMAIN object.follow[s] : k \in DOMAIN b.follow[s] /\ b.follow[s][k] = object.follow[s][k]
             /\ \A k \in DOMAIN b.follow[s] : \/ k \in DOMAIN object.follow[s] /\ b.follow[s][k] = object.follow[s][k]
                                              \/ s \in of /\ b.follow[s][k] = i
             /\ s \in of => \E k \in DOMAIN b.follow[s] : b.follow[s][k] = i
  <2>1. object.follow[s] \in Seq(AB!Signal)
    BY <1>1 DEF AbortStates
  <2>2. CASE s \in of
    <3>1. b.follow[s] = Append(object.follow[s], i)
      BY <1>3, <2>2
    <3> DEFINE f == object.follow[s]
    <3>2. /\ DOMAIN Append(f, i) = 1..(Len(f) + 1) /\ Len(f) \in Nat /\ DOMAIN f = 1..Len(f)
          /\ Append(f, i)[Len(f) + 1] = i /\ \A n \in DOMAIN f : Append(f, i)[n] = f[n]
      <4> HIDE DEF f
      <4> QED
        BY <1>1, <2>1, Appended DEF f
    <3> HIDE DEF f
    <3>3. b.follow[s] = Append(f, i)
      BY <3>1 DEF f
    <3>4. \A k \in DOMAIN f : k \in DOMAIN b.follow[s] /\ b.follow[s][k] = f[k]
      BY <3>2, <3>3
    <3>5. \A k \in DOMAIN b.follow[s] : k \in DOMAIN f \/ k = Len(f) + 1
      BY <3>2, <3>3
    <3>6. Len(f) + 1 \in DOMAIN b.follow[s] /\ b.follow[s][Len(f) + 1] = i
      BY <3>2, <3>3
    <3> QED
      BY <2>2, <3>4, <3>5, <3>6 DEF f
  <2>3. CASE s \notin of
    BY <1>3, <2>3
  <2> QED
    BY <2>2, <2>3
<1>9. \A s \in AB!Signal : s > b.made => b.reason[s] = 0 /\ b.sources[s] = {}
  BY <1>1, <1>3, <1>6 DEF Followed, i
<1>10. \A s \in AB!Signal : \A src \in b.sources[s] : src <= b.made
  <2> TAKE s \in AB!Signal
  <2> TAKE src \in b.sources[s]
  <2>1. CASE s = i
    <3>1. src \in 1..object.made
      BY <1>6, <2>1
    <3> QED
      BY <1>1, <1>3, <3>1 DEF i
  <2>2. CASE s # i
    <3>1. src \in object.sources[s]
      BY <1>6, <2>2
    <3>2. src <= object.made
      BY <1>1, <3>1 DEF Followed
    <3>3. src \in Int /\ object.made \in Int
      BY <1>1, <1>4 DEF AbortStates
    <3> QED
      BY <1>3, <3>2, <3>3 DEF i
  <2> QED
    BY <2>1, <2>2
<1>11. \A src \in AB!Signal : \A k \in DOMAIN b.follow[src] : src \in b.sources[b.follow[src][k]]
  <2> TAKE src \in AB!Signal
  <2> TAKE k \in DOMAIN b.follow[src]
  <2>1. CASE src \in of /\ b.follow[src][k] = i
    BY <1>6, <2>1
  <2>2. CASE k \in DOMAIN object.follow[src] /\ b.follow[src][k] = object.follow[src][k]
    <3>1. src \in object.sources[object.follow[src][k]]
      BY <1>1, <2>2 DEF Followed
    <3>2. object.follow[src][k] \in AB!Signal
      BY <1>1, <2>2 DEF AbortStates
    <3> QED
      BY <1>7, <2>2, <3>1, <3>2
  <2> QED
    BY <1>8, <2>1, <2>2
<1>12. \A s \in AB!Signal \ {i} : \A src \in b.sources[s] :
         b.reason[src] = 0 /\ b.reason[s] = 0 => \E k \in DOMAIN b.follow[src] : b.follow[src][k] = s
  <2> TAKE s \in AB!Signal \ {i}
  <2> TAKE src \in b.sources[s]
  <2> HAVE b.reason[src] = 0 /\ b.reason[s] = 0
  <2>1. src \in object.sources[s] /\ src \in AB!Signal
    BY <1>1, <1>6 DEF AbortStates
  <2>2. PICK k \in DOMAIN object.follow[src] : object.follow[src][k] = s
    BY <1>1, <1>3, <2>1 DEF Followed
  <2> QED
    BY <1>8, <2>1, <2>2
<1>13. ASSUME NEW n \in DOMAIN b.calls
       PROVE  /\ b.reason[b.calls[n].of] = b.calls[n].reason
              /\ \A k \in DOMAIN b.calls[n].follow : b.calls[n].of \in b.sources[b.calls[n].follow[k]]
  <2>1. n \in DOMAIN object.calls /\ b.calls[n] = object.calls[n] /\ object.calls[n] \in AbortCalls
    BY <1>1, <1>3 DEF AbortStates
  <2>2. b.reason[b.calls[n].of] = b.calls[n].reason
    BY <1>1, <1>3, <2>1 DEF Followed
  <2>3. ASSUME NEW k \in DOMAIN b.calls[n].follow
        PROVE  b.calls[n].of \in b.sources[b.calls[n].follow[k]]
    <3>1. object.calls[n].of \in object.sources[object.calls[n].follow[k]]
      BY <1>1, <2>1 DEF Followed
    <3>2. object.calls[n].of \in AB!Signal /\ object.calls[n].follow[k] \in AB!Signal
      BY <2>1 DEF AbortCalls
    <3> QED
      BY <1>7, <2>1, <3>1, <3>2
  <2> QED
    BY <2>2, <2>3
<1>14. \A s \in AB!Signal \ {i} : \A src \in b.sources[s] :
         b.reason[src] # 0 /\ b.reason[s] = 0 => \E n \in DOMAIN b.calls : ComesTo(b.calls[n], s)
  <2> TAKE s \in AB!Signal \ {i}
  <2> TAKE src \in b.sources[s]
  <2> HAVE b.reason[src] # 0 /\ b.reason[s] = 0
  <2>1. src \in object.sources[s]
    BY <1>6
  <2>2. \E n \in DOMAIN object.calls : ComesTo(object.calls[n], s)
    BY <1>1, <1>3, <2>1 DEF Followed
  <2> QED
    BY <1>3, <2>2
<1>15. \A s \in AB!Signal :
         b.reason[s] # 0 => b.reason[s] = s \/ \E src \in b.sources[s] : b.reason[s] = b.reason[src]
  <2> TAKE s \in AB!Signal
  <2> HAVE b.reason[s] # 0
  <2>1. s # i /\ b.sources[s] = object.sources[s]
    BY <1>6
  <2> QED
    BY <1>1, <1>3, <2>1 DEF Followed
<1>16. Followed(b, i)
  BY <1>9, <1>10, <1>11, <1>12, <1>13, <1>14, <1>15 DEF Followed
<1>17. ASSUME \A s \in S : object.reason[s] = 0 /\ s \in of
       PROVE  Followed(b, 0)
  <2>1. \A src \in b.sources[i] : b.reason[src] = 0 /\ \E k \in DOMAIN b.follow[src] : b.follow[src][k] = i
    <3> TAKE src \in b.sources[i]
    <3>0. src \in S
      BY <1>6
    <3>1. src \in AB!Signal /\ src \in of
      BY <1>1, <1>17, <3>0
    <3> QED
      BY <1>3, <1>8, <1>17, <3>0, <3>1
  <2>2. \A s \in AB!Signal : \A src \in b.sources[s] :
         b.reason[src] = 0 /\ b.reason[s] = 0 => \E k \in DOMAIN b.follow[src] : b.follow[src][k] = s
    BY <1>12, <2>1
  <2>3. \A s \in AB!Signal : \A src \in b.sources[s] :
         b.reason[src] # 0 /\ b.reason[s] = 0 => \E n \in DOMAIN b.calls : ComesTo(b.calls[n], s)
    BY <1>14, <2>1
  <2> QED
    BY <1>9, <1>10, <1>11, <1>13, <1>15, <2>2, <2>3 DEF Followed
<1>18. i \in AB!Signal /\ b.made = i /\ b.reason = object.reason /\ b.reason[i] = 0 /\ b.listeners = object.listeners
  BY <1>1, <1>3, <1>6
<1> QED
  BY <1>5, <1>6, <1>16, <1>17, <1>18 DEF b, i

\* At first there is no signal.
LEMMA AbortFirst ==
  ASSUME MaxSignals \in Nat, AB!Init
  PROVE  AbortInv
<1>1. object.calls = <<>> /\ <<>> \in Seq(AbortCalls)
  BY DEF AB!Init
<1>2. object \in AbortStates
  BY <1>1 DEF AB!Init, AbortStates, AB!Signal, AB!NotYet
<1>3. Followed(object, 0)
  BY <1>1 DEF AB!Init, Followed, AB!Signal, AB!NotYet
<1> QED
  BY <1>2, <1>3 DEF AbortInv

\* A call of fire_abort goes on.
LEMMA AbortProceeds ==
  ASSUME MaxSignals \in Nat, AbortInv, AB!Proceed
  PROVE  AbortInv'
<1> USE DEF AB!Signal
<1> DEFINE c == Head(object.calls)
<1>1. object \in AbortStates /\ Followed(object, 0) /\ object.calls \in Seq(AbortCalls) /\ object.calls # <<>>
  BY DEF AbortInv, AbortStates, AB!Proceed
<1>2. c \in AbortCalls /\ c = object.calls[1] /\ 1 \in DOMAIN object.calls
  BY <1>1, Behind
<1> HIDE DEF c
<1>3. c.events \in Nat /\ c.follow \in Seq(AB!Signal) /\ c.of \in AB!Signal /\ c.reason \in AB!Signal
  BY <1>2 DEF AbortCalls
<1>4. CASE c.events > 0
  <2> DEFINE d == [c EXCEPT !.events = @ - 1]
  <2>1. object' = [object EXCEPT !.calls = [@ EXCEPT ![1] = d]]
    BY <1>2, <1>4 DEF AB!Proceed, c
  <2>2. d \in AbortCalls /\ d.of = c.of /\ d.reason = c.reason /\ d.follow = c.follow
    BY <1>2, <1>3, <1>4 DEF AbortCalls
  <2> HIDE DEF d
  <2>3. /\ object'.calls = [object.calls EXCEPT ![1] = d] /\ object'.made = object.made
        /\ object'.reason = object.reason /\ object'.follow = object.follow
        /\ object'.sources = object.sources
    BY <1>1, <2>1 DEF AbortStates
  <2>4. object'.calls \in Seq(AbortCalls) /\ DOMAIN object'.calls = DOMAIN object.calls
    BY <1>1, <1>2, <2>2, <2>3
  <2>5. object' \in AbortStates
    BY <1>1, <2>1, <2>3, <2>4 DEF AbortStates
  <2>6. \A n \in DOMAIN object.calls : /\ object'.calls[n].of = object.calls[n].of
                                       /\ object'.calls[n].reason = object.calls[n].reason
                                       /\ object'.calls[n].follow = object.calls[n].follow
    BY <1>1, <1>2, <2>2, <2>3
  <2>7. \A n \in DOMAIN object.calls, s \in AB!Signal : ComesTo(object.calls[n], s) => ComesTo(object'.calls[n], s)
    BY <2>6 DEF ComesTo
  <2>8. \A n \in DOMAIN object'.calls :
          /\ object'.reason[object'.calls[n].of] = object'.calls[n].reason
          /\ \A k \in DOMAIN object'.calls[n].follow : object'.calls[n].of \in object'.sources[object'.calls[n].follow[k]]
    BY <1>1, <2>3, <2>4, <2>6 DEF Followed
  <2>9. \A s \in AB!Signal \ {0} : \A src \in object'.sources[s] :
          object'.reason[src] # 0 /\ object'.reason[s] = 0 => \E n \in DOMAIN object'.calls : ComesTo(object'.calls[n], s)
    <3> TAKE s \in AB!Signal \ {0}
    <3> TAKE src \in object'.sources[s]
    <3> HAVE object'.reason[src] # 0 /\ object'.reason[s] = 0
    <3>1. PICK n \in DOMAIN object.calls : ComesTo(object.calls[n], s)
      BY <1>1, <2>3 DEF Followed
    <3> QED
      BY <2>4, <2>7, <3>1
  <2>10. Followed(object', 0)
    BY <1>1, <2>3, <2>8, <2>9 DEF Followed
  <2> QED
    BY <2>5, <2>10 DEF AbortInv
<1>5. CASE ~(c.events > 0) /\ c.follow # <<>>
  <2> DEFINE f == Head(c.follow)
             d == [c EXCEPT !.follow = Tail(@)]
             a == [object EXCEPT !.calls = [@ EXCEPT ![1] = d]]
  <2>1. object' = AB!Fired(a, f, c.reason)
    <3>1. c.events = 0
      BY <1>3, <1>5
    <3>2. object' = AB!Fired([object EXCEPT !.calls[1].follow = Tail(@)], Head(c.follow), c.reason)
      BY <1>5, <3>1 DEF AB!Proceed, c
    <3>3. [object EXCEPT !.calls[1].follow = Tail(@)] = a
      BY <1>2
    <3> QED
      BY <3>2, <3>3
  <2>2. /\ f \in AB!Signal /\ f = c.follow[1] /\ 1 \in DOMAIN c.follow /\ Tail(c.follow) \in Seq(AB!Signal)
        /\ \A n \in DOMAIN Tail(c.follow) : n + 1 \in DOMAIN c.follow /\ Tail(c.follow)[n] = c.follow[n + 1]
        /\ \A n \in DOMAIN c.follow : n = 1 \/ (n - 1 \in DOMAIN Tail(c.follow) /\ Tail(c.follow)[n - 1] = c.follow[n])
    BY <1>3, <1>5, Behind
  <2>3. d \in AbortCalls /\ d.of = c.of /\ d.reason = c.reason /\ d.follow = Tail(c.follow)
    BY <1>2, <1>3, <2>2 DEF AbortCalls
  <2> HIDE DEF d, f, a
  <2>4. /\ a.calls = [object.calls EXCEPT ![1] = d] /\ a.made = object.made
        /\ a.reason = object.reason /\ a.follow = object.follow
        /\ a.sources = object.sources
    BY <1>1 DEF AbortStates, a
  <2>5. a.calls \in Seq(AbortCalls) /\ DOMAIN a.calls = DOMAIN object.calls
    BY <1>1, <1>2, <2>3, <2>4
  <2>6. a \in AbortStates
    BY <1>1, <2>4, <2>5 DEF AbortStates, a
  <2>7. /\ \A n \in DOMAIN object.calls : n # 1 => a.calls[n] = object.calls[n]
        /\ a.calls[1] = d
    BY <1>1, <1>2, <2>4
  <2>8. ASSUME NEW n \in DOMAIN a.calls
        PROVE  /\ a.reason[a.calls[n].of] = a.calls[n].reason
               /\ \A k \in DOMAIN a.calls[n].follow : a.calls[n].of \in a.sources[a.calls[n].follow[k]]
    <3>1. CASE n = 1
      <4>1. /\ object.reason[c.of] = c.reason
            /\ \A k \in DOMAIN c.follow : c.of \in object.sources[c.follow[k]]
        BY <1>1, <1>2 DEF Followed
      <4>2. \A k \in DOMAIN Tail(c.follow) : c.of \in object.sources[Tail(c.follow)[k]]
        BY <2>2, <4>1
      <4> QED
        BY <2>3, <2>4, <2>7, <3>1, <4>1, <4>2
    <3>2. CASE n # 1
      BY <1>1, <2>4, <2>5, <2>7, <3>2 DEF Followed
    <3> QED
      BY <3>1, <3>2
  <2>9. \A s \in AB!Signal \ {f} : \A src \in a.sources[s] :
          a.reason[src] # 0 /\ a.reason[s] = 0 => \E n \in DOMAIN a.calls : ComesTo(a.calls[n], s)
    <3> TAKE s \in AB!Signal \ {f}
    <3> TAKE src \in a.sources[s]
    <3> HAVE a.reason[src] # 0 /\ a.reason[s] = 0
    <3>1. PICK n \in DOMAIN object.calls : ComesTo(object.calls[n], s)
      BY <1>1, <2>4 DEF Followed
    <3>2. CASE n = 1
      <4>1. PICK k \in DOMAIN c.follow : c.follow[k] = s
        BY <1>2, <3>1, <3>2 DEF ComesTo
      <4>2. k - 1 \in DOMAIN Tail(c.follow) /\ Tail(c.follow)[k - 1] = s
        BY <2>2, <4>1
      <4>3. ComesTo(d, s)
        BY <2>3, <4>2 DEF ComesTo
      <4> QED
        BY <2>5, <2>7, <3>1, <3>2, <4>3
    <3>3. CASE n # 1
      BY <2>5, <2>7, <3>1, <3>3
    <3> QED
      BY <3>2, <3>3
  <2>10. Followed(a, f)
    <3>1. /\ \A s \in AB!Signal : s > a.made => a.reason[s] = 0 /\ a.sources[s] = {}
          /\ \A s \in AB!Signal : \A src \in a.sources[s] : src <= a.made
          /\ \A src \in AB!Signal : \A k \in DOMAIN a.follow[src] : src \in a.sources[a.follow[src][k]]
      BY <1>1, <2>4 DEF Followed
    <3>2. \A s \in AB!Signal \ {f} : \A src \in a.sources[s] :
            a.reason[src] = 0 /\ a.reason[s] = 0 => \E k \in DOMAIN a.follow[src] : a.follow[src][k] = s
      BY <1>1, <2>4 DEF Followed
    <3>3. \A s \in AB!Signal :
            a.reason[s] # 0 => a.reason[s] = s \/ \E src \in a.sources[s] : a.reason[s] = a.reason[src]
      BY <1>1, <2>4 DEF Followed
    <3> QED
      BY <2>8, <2>9, <3>1, <3>2, <3>3 DEF Followed
  <2>11. c.of \in a.sources[f] /\ a.reason[c.of] = c.reason
    BY <1>1, <1>2, <2>2, <2>4 DEF Followed
  <2>12. f <= a.made
    <3>1. a.sources[f] # {} /\ a.made \in Nat
      BY <2>6, <2>11 DEF AbortStates
    <3> QED
      BY <2>2, <2>10, <3>1 DEF Followed
  <2>13. object' \in AbortStates /\ Followed(object', 0)
    BY <1>3, <2>1, <2>2, <2>6, <2>10, <2>11, <2>12, FiredFollowed
  <2> QED
    BY <2>13 DEF AbortInv
<1>6. CASE ~(c.events > 0) /\ c.follow = <<>>
  <2>1. object' = [object EXCEPT !.calls = Tail(@)]
    BY <1>3, <1>6 DEF AB!Proceed, c
  <2>2. /\ object'.calls = Tail(object.calls) /\ object'.made = object.made
        /\ object'.reason = object.reason /\ object'.follow = object.follow
        /\ object'.sources = object.sources
    BY <1>1, <2>1 DEF AbortStates
  <2>3. /\ object'.calls \in Seq(AbortCalls)
        /\ \A n \in DOMAIN object'.calls : n + 1 \in DOMAIN object.calls /\ object'.calls[n] = object.calls[n + 1]
        /\ \A n \in DOMAIN object.calls : n = 1 \/ (n - 1 \in DOMAIN object'.calls /\ object'.calls[n - 1] = object.calls[n])
    BY <1>1, <2>2, Behind
  <2>4. object' \in AbortStates
    BY <1>1, <2>1, <2>2, <2>3 DEF AbortStates
  <2>5. \A s \in AB!Signal : ~ComesTo(object.calls[1], s)
    BY <1>2, <1>6 DEF ComesTo
  <2>6. \A n \in DOMAIN object'.calls :
          /\ object'.reason[object'.calls[n].of] = object'.calls[n].reason
          /\ \A k \in DOMAIN object'.calls[n].follow : object'.calls[n].of \in object'.sources[object'.calls[n].follow[k]]
    BY <1>1, <2>2, <2>3 DEF Followed
  <2>7. \A s \in AB!Signal \ {0} : \A src \in object'.sources[s] :
          object'.reason[src] # 0 /\ object'.reason[s] = 0 => \E n \in DOMAIN object'.calls : ComesTo(object'.calls[n], s)
    <3> TAKE s \in AB!Signal \ {0}
    <3> TAKE src \in object'.sources[s]
    <3> HAVE object'.reason[src] # 0 /\ object'.reason[s] = 0
    <3>1. PICK n \in DOMAIN object.calls : ComesTo(object.calls[n], s)
      BY <1>1, <2>2 DEF Followed
    <3> QED
      BY <2>3, <2>5, <3>1
  <2>8. Followed(object', 0)
    BY <1>1, <2>2, <2>6, <2>7 DEF Followed
  <2> QED
    BY <2>4, <2>8 DEF AbortInv
<1> QED
  BY <1>4, <1>5, <1>6

\* A script makes, combines and aborts signals, and listens.
LEMMA AbortScripts ==
  ASSUME MaxSignals \in Nat, AbortInv,
         \/ AB!Create \/ AB!CreateAborted
         \/ \E s \in AB!Made : AB!Abort(s) \/ AB!Listen(s) \/ AB!Unlisten(s)
  PROVE  AbortInv'
<1> USE DEF AB!Signal
<1> DEFINE i == object.made + 1
<1>1. object \in AbortStates /\ Followed(object, 0) /\ object.made \in 0..MaxSignals
  BY DEF AbortInv, AbortStates
<1>2. AB!New({}) = AB!Joined(i, {}, {})
  <2>1. object.follow = [s \in AB!Signal |-> IF s \in {} THEN Append(object.follow[s], i) ELSE object.follow[s]]
    BY <1>1 DEF AbortStates
  <2> QED
    BY <1>1, <2>1 DEF AB!New, AB!Joined, AbortStates
<1>3. ASSUME AB!Create PROVE AbortInv'
  <2>1. object.made < MaxSignals /\ object' = AB!Joined(i, {}, {})
    BY <1>2, <1>3 DEF AB!Create
  <2> QED
    BY <2>1, JoinedFollowed DEF AbortInv
<1>4. ASSUME AB!CreateAborted PROVE AbortInv'
  <2> DEFINE b == AB!Joined(i, {}, {})
  <2>1. object.made < MaxSignals /\ object' = [b EXCEPT !.reason[i] = i]
    BY <1>2, <1>4 DEF AB!CreateAborted
  <2>2. i \in AB!Signal /\ b \in AbortStates /\ b.made = i /\ b.sources[i] = {} /\ Followed(b, i) /\ b.reason[i] = 0
    BY <2>1, JoinedFollowed
  <2> HIDE DEF b, i
  <2>3. /\ object'.calls = b.calls /\ object'.made = b.made /\ object'.follow = b.follow
        /\ object'.sources = b.sources /\ object'.reason = [b.reason EXCEPT ![i] = i]
    BY <2>1, <2>2 DEF AbortStates
  <2>4. object' \in AbortStates
    BY <2>1, <2>2, <2>3 DEF AbortStates
  <2>5. object'.reason[i] = i /\ i # 0 /\ \A s \in AB!Signal : s # i => object'.reason[s] = b.reason[s]
    BY <2>2, <2>3 DEF AbortStates
  <2>6. \A s \in AB!Signal : i \notin b.sources[s]
    <3> SUFFICES ASSUME NEW s \in AB!Signal, i \in b.sources[s] PROVE FALSE
      OBVIOUS
    <3>1. s # i
      BY <2>2
    <3>2. b.sources[s] = object.sources[s]
      BY <1>1, <3>1 DEF AB!Joined, AB!New, b, i, AbortStates
    <3> QED
      BY <1>1, <3>2 DEF Followed, i
  <2>7. \A n \in DOMAIN b.calls : b.calls[n].of # i
    <3> SUFFICES ASSUME NEW n \in DOMAIN b.calls, b.calls[n].of = i PROVE FALSE
      OBVIOUS
    <3>1. b.calls[n] \in AbortCalls /\ b.reason[i] = b.calls[n].reason
      BY <2>2 DEF Followed, AbortStates
    <3> QED
      BY <2>2, <3>1 DEF AbortCalls
  <2>8. Followed(object', 0)
    <3>1. /\ \A s \in AB!Signal : s > object'.made => object'.reason[s] = 0 /\ object'.sources[s] = {}
          /\ \A s \in AB!Signal : \A src \in object'.sources[s] : src <= object'.made
          /\ \A src \in AB!Signal : \A k \in DOMAIN object'.follow[src] : src \in object'.sources[object'.follow[src][k]]
      BY <2>2, <2>3, <2>5 DEF Followed
    <3>2. \A s \in AB!Signal \ {0} : \A src \in object'.sources[s] :
            object'.reason[src] = 0 /\ object'.reason[s] = 0 => \E k \in DOMAIN object'.follow[src] : object'.follow[src][k] = s
      <4> TAKE s \in AB!Signal \ {0}
      <4> TAKE src \in object'.sources[s]
      <4>1. s # i => object'.reason[s] = b.reason[s] /\ object'.reason[src] = b.reason[src]
        BY <2>2, <2>3, <2>5, <2>6 DEF AbortStates
      <4> QED
        BY <2>2, <2>3, <2>5, <4>1 DEF Followed
    <3>3. \A n \in DOMAIN object'.calls :
            /\ object'.reason[object'.calls[n].of] = object'.calls[n].reason
            /\ \A k \in DOMAIN object'.calls[n].follow : object'.calls[n].of \in object'.sources[object'.calls[n].follow[k]]
      <4> TAKE n \in DOMAIN object'.calls
      <4>1. b.calls[n] \in AbortCalls
        BY <2>2, <2>3 DEF AbortStates
      <4>2. b.calls[n].of \in AB!Signal
        BY <4>1 DEF AbortCalls
      <4> QED
        BY <2>2, <2>3, <2>5, <2>7, <4>2 DEF Followed
    <3>4. \A s \in AB!Signal \ {0} : \A src \in object'.sources[s] :
            object'.reason[src] # 0 /\ object'.reason[s] = 0 => \E n \in DOMAIN object'.calls : ComesTo(object'.calls[n], s)
      <4> TAKE s \in AB!Signal \ {0}
      <4> TAKE src \in object'.sources[s]
      <4>1. s # i => object'.reason[s] = b.reason[s] /\ object'.reason[src] = b.reason[src]
        BY <2>2, <2>3, <2>5, <2>6 DEF AbortStates
      <4> QED
        BY <2>2, <2>3, <2>5, <4>1 DEF Followed
    <3>5. \A s \in AB!Signal :
            object'.reason[s] # 0 => object'.reason[s] = s \/ \E src \in object'.sources[s] : object'.reason[s] = object'.reason[src]
      <4> TAKE s \in AB!Signal
      <4> HAVE object'.reason[s] # 0
      <4>1. CASE s = i
        BY <2>5, <4>1
      <4>2. CASE s # i
        <5>1. b.reason[s] = s \/ \E src \in b.sources[s] : b.reason[s] = b.reason[src]
          BY <2>2, <2>5, <4>2 DEF Followed
        <5>2. \A src \in b.sources[s] : b.reason[src] = object'.reason[src]
          BY <2>2, <2>5, <2>6 DEF AbortStates
        <5> QED
          BY <2>3, <2>5, <4>2, <5>1, <5>2
      <4> QED
        BY <4>1, <4>2
    <3> QED
      BY <3>1, <3>2, <3>3, <3>4, <3>5 DEF Followed
  <2> QED
    BY <2>4, <2>8 DEF AbortInv
<1>5. ASSUME NEW s \in AB!Made, AB!Abort(s) PROVE AbortInv'
  <2>1. s \in AB!Signal /\ s <= object.made
    BY <1>1 DEF AB!Made
  <2>2. Followed(object, s)
    BY <1>1 DEF Followed
  <2>3. object' = AB!Fired(object, s, s)
    BY <1>5 DEF AB!Abort
  <2> QED
    BY <1>1, <2>1, <2>2, <2>3, FiredFollowed DEF AbortInv
<1>6. ASSUME NEW s \in AB!Made, AB!Listen(s) \/ AB!Unlisten(s) PROVE AbortInv'
  <2>1. s \in AB!Signal /\ object.listeners \in [AB!Signal -> Nat]
    BY <1>1 DEF AB!Made, AbortStates
  <2>2. PICK n \in Nat : object' = [object EXCEPT !.listeners[s] = n]
    BY <1>6, <2>1 DEF AB!Listen, AB!Unlisten
  <2>3. /\ object'.calls = object.calls /\ object'.made = object.made /\ object'.follow = object.follow
        /\ object'.sources = object.sources /\ object'.reason = object.reason
    BY <1>1, <2>2 DEF AbortStates
  <2>4. object' \in AbortStates
    BY <1>1, <2>1, <2>2 DEF AbortStates
  <2>5. Followed(object', 0)
    BY <1>1, <2>3 DEF Followed
  <2> QED
    BY <2>4, <2>5 DEF AbortInv
<1> QED
  BY <1>3, <1>4, <1>5, <1>6

\* AbortSignal.any.
LEMMA AbortCombines ==
  ASSUME MaxSignals \in Nat, AbortInv, NEW sources, AB!AnyOf(sources),
         NEW n \in Nat, sources \in [1..n -> 1..object.made], DOMAIN sources = 1..n, Len(sources) = n
  PROVE  AbortInv'
<1> USE DEF AB!Signal, AB!NotYet
<1> DEFINE i == object.made + 1
           S == Range(sources)
<1>1. object \in AbortStates /\ Followed(object, 0) /\ object.made < MaxSignals /\ object.made \in Nat
  BY DEF AbortInv, AbortStates, AB!AnyOf
<1>2. Range(sources) \in SUBSET (1..object.made)
  BY DEF Range
<1>3. AB!Range(sources) = Range(sources)
  BY DEF AB!Range, Range
<1>4. CASE /\ \A k \in 1..n : object.reason[sources[k]] = 0
           /\ object' = AB!Joined(i, S, S)
  <2>1. \A s \in S : object.reason[s] = 0 /\ s \in S
    BY <1>4 DEF Range
  <2> HIDE DEF S
  <2>2. object' \in AbortStates /\ Followed(object', 0)
    BY <1>1, <1>2, <1>4, <2>1, JoinedFollowed DEF S
  <2> QED
    BY <2>2 DEF AbortInv
<1>5. ASSUME NEW k \in 1..n, object.reason[sources[k]] # 0,
             object' = AB!Fired(AB!Joined(i, S, {sources[j] : j \in 1..(k - 1)}), i, object.reason[sources[k]])
      PROVE  AbortInv'
  <2> DEFINE of == {sources[j] : j \in 1..(k - 1)}
             b == AB!Joined(i, S, of)
             r == object.reason[sources[k]]
  <2>1. of \in SUBSET S /\ sources[k] \in S /\ S \in SUBSET (1..object.made)
    <3>1. \A j \in 1..n : sources[j] \in S
      BY Zenon DEF Range
    <3>2. \A j \in 1..(k - 1) : j \in 1..n
      OBVIOUS
    <3> HIDE DEF S
    <3> QED
      BY <1>2, <3>1, <3>2 DEF S
  <2>9. object.made < MaxSignals
    BY <1>1
  <2> HIDE DEF of, S
  <2>2. /\ i \in AB!Signal /\ b \in AbortStates /\ b.made = i /\ b.sources[i] = S
        /\ b.reason = object.reason /\ Followed(b, i)
    BY <2>1, <2>9, JoinedFollowed, ZenonT(30)
  <2>3. r \in AB!Signal
    <3>1. sources[k] \in AB!Signal /\ object.reason \in [AB!Signal -> 0..MaxSignals]
      BY <1>1 DEF AbortStates
    <3>2. r \in 0..MaxSignals /\ r # 0
      BY <1>5, <3>1
    <3> QED
      BY <3>2
  <2>4. b.reason[sources[k]] = r
    BY <2>2
  <2>5. object' = AB!Fired(b, i, r)
    BY <1>5 DEF of
  <2> HIDE DEF b, r, i
  <2>6. i <= b.made
    BY <2>2
  <2>7. object' \in AbortStates /\ Followed(object', 0)
    BY <2>1, <2>2, <2>3, <2>4, <2>5, <2>6, FiredFollowed
  <2> QED
    BY <2>7 DEF AbortInv
<1> QED
  BY <1>3, <1>4, <1>5 DEF AB!AnyOf

\* What an abort signal does keeps what followers wait for.
LEMMA AbortSteps ==
  ASSUME MaxSignals \in Nat, AbortInv, AB!Next
  PROVE  AbortInv'
<1> DEFINE m == object.made
<1>1. m \in Nat
  BY DEF AbortInv, AbortStates
<1>2. ASSUME NEW sources \in AB!Orders(AB!Made), AB!AnyOf(sources) PROVE AbortInv'
  <2> DEFINE n == Cardinality(1..m)
  <2>1. n = m
    BY <1>1, FS_Interval
  <2>2. AB!Orders(AB!Made) \subseteq [1..m -> 1..m]
    BY <2>1 DEF AB!Orders, AB!Bijection, AB!Injection, AB!Made, AB!Cardinality, Cardinality
  <2>3. sources \in [1..m -> 1..m] /\ DOMAIN sources = 1..m /\ Len(sources) = m
    BY <1>1, <2>2
  <2> QED
    BY <1>1, <1>2, <2>3, AbortCombines
<1>3. ASSUME NEW s \in AB!Made, AB!AnyOf(<<s>>) PROVE AbortInv'
  <2>1. <<s>> \in [1..1 -> 1..m] /\ DOMAIN <<s>> = 1..1 /\ Len(<<s>>) = 1
    BY DEF AB!Made
  <2> QED
    BY <1>3, <2>1, AbortCombines
<1> QED
  BY <1>2, <1>3, AbortProceeds, AbortScripts DEF AB!Next

\* Whoever follows an aborted signal is aborted or waits for a call under way.
LEMMA AbortTold ==
  ASSUME MaxSignals \in Nat, AbortInv
  PROVE  AB!FollowersAbort
<1> USE DEF AB!Signal, AB!NotYet
<1>1. object \in AbortStates /\ Followed(object, 0) /\ object.made \in 0..MaxSignals
  BY DEF AbortInv, AbortStates
<1>2. ASSUME NEW s \in AB!Made, NEW src \in object.sources[s], object.reason[src] # 0, object.reason[s] = 0
      PROVE  s \in AB!Due
  <2>1. PICK n \in DOMAIN object.calls : ComesTo(object.calls[n], s)
    BY <1>1, <1>2 DEF Followed, AB!Made
  <2>2. s \in AB!Range(object.calls[n].follow)
    BY <2>1 DEF ComesTo, AB!Range
  <2> QED
    BY <2>1, <2>2 DEF AB!Due
<1>3. \A s \in AB!Made : object.reason[s] # 0 =>
        object.reason[s] = s \/ \E src \in object.sources[s] : object.reason[s] = object.reason[src]
  BY <1>1 DEF Followed, AB!Made
<1> QED
  BY <1>2, <1>3 DEF AB!FollowersAbort

----------------------------------------------------------------------------
(* The page's input. *)

Compositions == Seq({"start", "update", "end"})
InputFields ==
  {"focused", "find", "devtools", "query", "command", "address", "focus", "hover", "preedit", "inputs",
   "frames", "ime", "painted", "events"}

\* What the focused node has heard is balanced, and open exactly while it has a preedit.
Balanced(events) ==
  \A i \in DOMAIN events :
    IF i = 1 THEN events[i] = "start"
    ELSE /\ events[i] = "start" <=> events[i - 1] = "end"
         /\ events[i] = "update" => events[i - 1] \in {"start", "update"}
Ended(events) == events = <<>> \/ events[Len(events)] = "end"
Composed(u) ==
  /\ DOMAIN u = InputFields
  /\ u.events \in Compositions /\ Balanced(u.events) /\ PI!NoNode \notin u.preedit
  /\ u.focus = PI!NoNode => u.events = <<>>
  /\ u.focus \in u.preedit <=> ~Ended(u.events)

\* A step that tells the focused node nothing, or forgets what it was told.
Quiet(u, v) ==
  /\ DOMAIN u = InputFields /\ DOMAIN v = InputFields
  /\ \/ v.focus = u.focus /\ v.preedit = u.preedit /\ v.events = u.events
     \/ v.events = <<>> /\ v.focus \notin v.preedit /\ v.preedit \subseteq u.preedit

InputInv == Composed(object)

\* After a quiet step all is as before.
LEMMA QuietComposed ==
  ASSUME NEW u, NEW v, Composed(u), Quiet(u, v)
  PROVE  Composed(v)
<1>1. <<>> \in Compositions /\ DOMAIN <<>> = {}
  BY DEF Compositions
<1> QED
  BY <1>1 DEF Composed, Quiet, Balanced, Ended

\* What is painted and what the page is navigated to are quiet.
LEMMA QuietHelpers ==
  ASSUME NEW u, DOMAIN u = InputFields, NEW m \in BOOLEAN, NEW n, PI!NoNode \notin u.preedit
  PROVE  /\ Quiet(u, u) /\ Quiet(u, PI!AfterListeners(u, m)) /\ Quiet(u, PI!set_focus(u, n))
         /\ Quiet(u, PI!recascade_and_paint([u EXCEPT !.focus = PI!NoNode, !.events = <<>>]))
         /\ \A v \in PI!Navigated(u) \cup PI!Submitted(u, n) : Quiet(u, v)
<1> USE DEF InputFields, PI!recascade_and_paint
<1>1. Quiet(u, u)
  BY DEF Quiet
<1>2. Quiet(u, PI!AfterListeners(u, m))
  BY <1>1 DEF Quiet, PI!AfterListeners
<1>3. Quiet(u, PI!set_focus(u, n))
  BY <1>1 DEF Quiet, PI!set_focus
<1>4. Quiet(u, PI!recascade_and_paint([u EXCEPT !.focus = PI!NoNode, !.events = <<>>]))
  BY DEF Quiet
<1>5. ASSUME NEW frames PROVE Quiet(u, PI!Page(u, frames))
  BY DEF Quiet, PI!Page
<1> QED
  BY <1>1, <1>2, <1>3, <1>4, <1>5 DEF PI!Navigated, PI!Submitted

\* Two quiet steps are one.
LEMMA QuietTwice ==
  ASSUME NEW u, NEW v, NEW w, Quiet(u, v), Quiet(v, w), PI!NoNode \notin u.preedit
  PROVE  Quiet(u, w)
BY DEF Quiet

\* At first nothing is composed.
LEMMA InputFirst ==
  ASSUME PI!Init
  PROVE  InputInv
<1>1. <<>> \in Compositions /\ DOMAIN <<>> = {}
  BY DEF Compositions
<1> QED
  BY <1>1 DEF PI!Init, InputInv, Composed, InputFields, Ended, Balanced

\* The pointer, the window and its bars are quiet.
LEMMA PointerQuiet ==
  ASSUME InputInv,
         \/ PI!ClickAddress \/ PI!ClickNowhere \/ PI!Resize \/ PI!ToggleFind \/ PI!ToggleDevtools
         \/ PI!FocusAddress \/ PI!SwitchIme
         \/ \E n : PI!MovePointer(n) \/ PI!ClickInFrame(n)
  PROVE  Quiet(object, object')
<1>1. DOMAIN object = InputFields
  BY DEF InputInv, Composed
<1> USE DEF InputFields, Quiet
<1>2. CASE PI!ClickAddress \/ PI!ClickNowhere \/ PI!ToggleFind \/ PI!ToggleDevtools \/ PI!FocusAddress
  BY <1>1, <1>2 DEF PI!ClickAddress, PI!ClickNowhere, PI!ToggleFind, PI!ToggleDevtools, PI!FocusAddress,
                    PI!Clicked
<1>3. CASE PI!Resize
  BY <1>1, <1>3 DEF PI!Resize
<1>4. CASE PI!SwitchIme
  BY <1>1, <1>4 DEF PI!SwitchIme
<1>5. CASE \E n : PI!MovePointer(n) \/ PI!ClickInFrame(n)
  BY <1>1, <1>5 DEF PI!MovePointer, PI!ClickInFrame, PI!Clicked, PI!recascade_and_paint
<1> QED
  BY <1>2, <1>3, <1>4, <1>5

\* So is a click on a node.
LEMMA ClickQuiet ==
  ASSUME InputInv, NEW n, NEW prevented \in BOOLEAN, NEW mutated \in BOOLEAN,
         PI!ClickNode(n, prevented, mutated)
  PROVE  Quiet(object, object')
<1> DEFINE c == PI!Clicked
           u == PI!AfterListeners(c, mutated)
<1>1. DOMAIN object = InputFields /\ PI!NoNode \notin object.preedit
  BY DEF InputInv, Composed
<1>2. Quiet(object, c)
  BY <1>1 DEF PI!Clicked, Quiet, InputFields
<1>3. DOMAIN c = InputFields /\ PI!NoNode \notin c.preedit
  BY <1>1, <1>2 DEF Quiet
<1> HIDE DEF c
<1>4. Quiet(c, u)
  BY <1>3, QuietHelpers
<1>5. DOMAIN u = InputFields /\ PI!NoNode \notin u.preedit
  BY <1>3, <1>4 DEF Quiet
<1>6. \/ object' = u
      \/ object' = PI!recascade_and_paint([u EXCEPT !.focus = PI!NoNode, !.events = <<>>])
      \/ object' \in PI!Navigated(u) \cup PI!Submitted(u, n) \/ object' = PI!set_focus(u, n)
  BY DEF PI!ClickNode, c
<1> HIDE DEF u
<1>7. Quiet(u, object')
  BY <1>5, <1>6, QuietHelpers
<1> QED
  BY <1>1, <1>2, <1>3, <1>4, <1>7, QuietTwice

\* So are keys.
LEMMA KeysQuiet ==
  ASSUME InputInv, NEW key \in {"char", "Backspace", "Enter", "Escape"},
         \/ PI!DevtoolsKey(key) \/ PI!FindKey(key) \/ PI!ChromeKey(key)
         \/ \E prevented, mutated \in BOOLEAN : PI!PageKey(key, prevented, mutated)
  PROVE  Quiet(object, object')
<1>1. DOMAIN object = InputFields /\ PI!NoNode \notin object.preedit
  BY DEF InputInv, Composed
<1>2. CASE PI!DevtoolsKey(key) \/ PI!FindKey(key)
  BY <1>1, <1>2 DEF PI!DevtoolsKey, PI!FindKey, Quiet, InputFields
<1>3. CASE PI!ChromeKey(key)
  <2> DEFINE c == [object EXCEPT !.focused = FALSE]
  <2>1. Quiet(object, c)
    BY <1>1 DEF Quiet, InputFields
  <2>2. DOMAIN c = InputFields /\ PI!NoNode \notin c.preedit
    BY <1>1, <2>1 DEF Quiet
  <2>3. \/ object' = [object EXCEPT !.address = PI!Typed(@)] \/ object' = [object EXCEPT !.address = PI!Popped(@)]
        \/ object' = c \/ object' \in PI!Navigated(c)
    BY <1>3 DEF PI!ChromeKey
  <2>4. CASE object' = [object EXCEPT !.address = PI!Typed(@)] \/ object' = [object EXCEPT !.address = PI!Popped(@)]
    BY <1>1, <2>4 DEF Quiet, InputFields
  <2> HIDE DEF c
  <2>5. CASE object' = c \/ object' \in PI!Navigated(c)
    <3>1. Quiet(c, object')
      BY <2>2, <2>5, QuietHelpers
    <3> QED
      BY <1>1, <2>1, <3>1, QuietTwice
  <2> QED
    BY <2>3, <2>4, <2>5
<1>4. ASSUME NEW prevented \in BOOLEAN, NEW mutated \in BOOLEAN, PI!PageKey(key, prevented, mutated)
      PROVE  Quiet(object, object')
  <2> DEFINE u == PI!AfterListeners(object, mutated)
  <2>1. Quiet(object, u)
    BY <1>1, QuietHelpers
  <2>2. DOMAIN u = InputFields /\ PI!NoNode \notin u.preedit
    BY <1>1, <2>1 DEF Quiet
  <2>3. \/ object' = u \/ object' \in PI!Submitted(u, u.focus) \/ object' = PI!set_focus(u, PI!NoNode)
        \/ object' = [u EXCEPT !.inputs[u.focus] = PI!Typed(@)] \/ object' = [u EXCEPT !.inputs[u.focus] = PI!Popped(@)]
    BY <1>4 DEF PI!PageKey
  <2> HIDE DEF u
  <2>4. Quiet(u, object')
    <3>1. CASE object' = [u EXCEPT !.inputs[u.focus] = PI!Typed(@)] \/ object' = [u EXCEPT !.inputs[u.focus] = PI!Popped(@)]
      BY <2>2, <3>1 DEF Quiet, InputFields
    <3> QED
      BY <2>2, <2>3, <3>1, QuietHelpers
  <2> QED
    BY <1>1, <2>1, <2>4, QuietTwice
<1> QED
  BY <1>2, <1>3, <1>4

\* More events that go on where it was, and end as they should.
LEMMA Continued ==
  ASSUME NEW events \in Compositions, Balanced(events), NEW e \in {"update", "end"}
  PROVE  LET after == events \o (IF Ended(events) THEN <<"start">> ELSE <<>>) \o <<e>> IN
         /\ after \in Compositions /\ Balanced(after) /\ (Ended(after) <=> e = "end")
         /\ ~Ended(events) => after = Append(events, e)
<1> DEFINE T == {"start", "update", "end"}
<1>1. ASSUME NEW s \in Seq(T), NEW x \in T
      PROVE  /\ s \o <<x>> = Append(s, x) /\ Append(s, x) \in Seq(T) /\ s \o <<>> = s
             /\ DOMAIN Append(s, x) = 1..(Len(s) + 1) /\ DOMAIN s = 1..Len(s) /\ Len(s) \in Nat
             /\ Append(s, x)[Len(s) + 1] = x /\ \A i \in DOMAIN s : Append(s, x)[i] = s[i]
             /\ Len(Append(s, x)) = Len(s) + 1 /\ Append(s, x) # <<>>
  <2> HIDE DEF T
  <2> QED
    OBVIOUS
<1>2. ASSUME NEW s \in Seq(T), Balanced(s), NEW x \in T,
             IF s = <<>> THEN x = "start"
             ELSE /\ x = "start" <=> s[Len(s)] = "end"
                  /\ x = "update" => s[Len(s)] \in {"start", "update"}
      PROVE  Balanced(Append(s, x))
  <2> SUFFICES ASSUME NEW i \in DOMAIN Append(s, x)
               PROVE  IF i = 1 THEN Append(s, x)[i] = "start"
                      ELSE /\ Append(s, x)[i] = "start" <=> Append(s, x)[i - 1] = "end"
                           /\ Append(s, x)[i] = "update" => Append(s, x)[i - 1] \in {"start", "update"}
    BY DEF Balanced
  <2> HIDE DEF T
  <2>1. CASE i = Len(s) + 1
    <3>1. CASE s = <<>>
      <4>1. Len(s) = 0
        BY <3>1
      <4> QED
        BY <1>1, <1>2, <2>1, <3>1, <4>1
    <3>2. CASE s # <<>>
      <4>1. Len(s) # 0
        BY <3>2
      <4>2. i - 1 \in DOMAIN s /\ i - 1 = Len(s)
        BY <1>1, <2>1, <4>1
      <4> QED
        BY <1>1, <1>2, <2>1, <3>2, <4>1, <4>2
    <3> QED
      BY <3>1, <3>2
  <2>2. CASE i # Len(s) + 1
    <3>1. i \in DOMAIN s /\ (i = 1 \/ i - 1 \in DOMAIN s)
      BY <1>1, <2>2
    <3> QED
      BY <1>1, <1>2, <3>1 DEF Balanced
  <2> QED
    BY <2>1, <2>2
<1>3. events \in Seq(T) /\ e \in T /\ "start" \in T
  BY DEF Compositions
<1>4. ASSUME NEW before \in Seq(T)
      PROVE  /\ before \o <<e>> = Append(before, e) /\ before \o <<>> = before
             /\ before \o <<"start">> = Append(before, "start")
             /\ Append(before, e) \in Seq(T) /\ Append(before, "start") \in Seq(T)
             /\ Ended(Append(before, e)) <=> e = "end"
  <2> HIDE DEF T
  <2> QED
    BY <1>1, <1>3, <1>4 DEF Ended
<1>5. ASSUME ~Ended(events) PROVE Balanced(Append(events, e))
  <2>1. events # <<>> /\ events[Len(events)] \in T /\ events[Len(events)] # "end"
    BY <1>1, <1>3, <1>5 DEF Ended
  <2> QED
    BY <1>2, <1>3, <2>1
<1>6. ASSUME Ended(events) PROVE Balanced(Append(Append(events, "start"), e))
  <2>1. Balanced(Append(events, "start"))
    BY <1>2, <1>3, <1>6 DEF Ended
  <2> DEFINE s == Append(events, "start")
  <2>2. s \in Seq(T) /\ s # <<>> /\ s[Len(s)] = "start"
    BY <1>1, <1>3
  <2> HIDE DEF s, T
  <2> QED
    BY <1>2, <1>3, <2>1, <2>2 DEF s
<1>7. Seq(T) = Compositions
  BY DEF Compositions
<1> HIDE DEF T
<1>8. CASE Ended(events)
  <2> DEFINE s == Append(events, "start")
  <2>1. events \o <<"start">> = s /\ s \in Seq(T)
    BY <1>3, <1>4
  <2>2. Balanced(Append(s, e))
    BY <1>6, <1>8
  <2> HIDE DEF s
  <2> QED
    BY <1>4, <1>7, <1>8, <2>1, <2>2
<1>9. CASE ~Ended(events)
  BY <1>3, <1>4, <1>5, <1>7, <1>9
<1> QED
  BY <1>8, <1>9

\* The input method tells the focused node of a start and an end in turn.
LEMMA MethodComposed ==
  ASSUME InputInv, NEW mutated \in BOOLEAN,
         PI!Preedit(mutated) \/ PI!PreeditCleared(mutated) \/ PI!Commit(mutated)
  PROVE  InputInv'
<1> DEFINE f == object.focus
           evs == object.events
           start == IF f \in object.preedit THEN <<>> ELSE <<"start">>
<1>1. /\ DOMAIN object = InputFields /\ PI!NoNode \notin object.preedit /\ f # PI!NoNode
      /\ evs \in Compositions /\ Balanced(evs) /\ (f \in object.preedit <=> ~Ended(evs))
  BY DEF InputInv, Composed, PI!Preedit, PI!PreeditCleared, PI!Commit
<1>2. ASSUME NEW u, Composed(u), object' = PI!AfterListeners(u, mutated) PROVE InputInv'
  <2>1. Quiet(u, object')
    BY <1>2, QuietHelpers DEF Composed
  <2> QED
    BY <1>2, <2>1, QuietComposed DEF InputInv
<1>3. ASSUME NEW e \in {"update", "end"}
      PROVE  /\ evs \o start \o <<e>> \in Compositions /\ Balanced(evs \o start \o <<e>>)
             /\ Ended(evs \o start \o <<e>>) <=> e = "end"
  <2>1. start = IF Ended(evs) THEN <<"start">> ELSE <<>>
    BY <1>1
  <2> HIDE DEF evs, f, start
  <2> QED
    BY <1>1, <2>1, Continued
<1>4. CASE PI!Preedit(mutated)
  <2> DEFINE u == [object EXCEPT !.preedit = @ \cup {f}, !.events = evs \o start \o <<"update">>]
  <2>1. object' = PI!AfterListeners(u, mutated)
    BY <1>4 DEF PI!Preedit
  <2>2. /\ DOMAIN u = InputFields /\ u.focus = f /\ u.preedit = object.preedit \cup {f}
        /\ u.events = evs \o start \o <<"update">>
    BY <1>1 DEF InputFields
  <2> HIDE DEF u, start, evs, f
  <2>3. Composed(u)
    BY <1>1, <1>3, <2>2 DEF Composed
  <2> QED
    BY <1>2, <2>1, <2>3
<1>5. CASE PI!PreeditCleared(mutated) /\ f \notin object.preedit
  BY <1>5 DEF PI!PreeditCleared, InputInv
<1>6. CASE PI!PreeditCleared(mutated) /\ f \in object.preedit
  <2> DEFINE u == [object EXCEPT !.preedit = @ \ {f}, !.events = Append(evs, "end")]
  <2>1. object' = PI!AfterListeners(u, mutated)
    BY <1>6 DEF PI!PreeditCleared
  <2>2. /\ DOMAIN u = InputFields /\ u.focus = f /\ u.preedit = object.preedit \ {f}
        /\ u.events = Append(evs, "end")
    BY <1>1 DEF InputFields
  <2>3. Append(evs, "end") \in Compositions /\ Balanced(Append(evs, "end")) /\ Ended(Append(evs, "end"))
    <3>1. evs \o start \o <<"end">> = Append(evs, "end")
      <4>1. start = <<>>
        BY <1>6
      <4> HIDE DEF evs, f, start
      <4> QED
        BY <1>1, <4>1 DEF Compositions
    <3> QED
      BY <1>3, <3>1
  <2> HIDE DEF u, evs, f
  <2>4. Composed(u)
    BY <1>1, <2>2, <2>3 DEF Composed
  <2> QED
    BY <1>2, <2>1, <2>4
<1>7. CASE PI!Commit(mutated)
  <2> DEFINE u == [object EXCEPT !.preedit = @ \ {f}, !.events = evs \o start \o <<"end">>]
             v == IF f \in PI!Field THEN [u EXCEPT !.inputs[f] = PI!Typed(@)] ELSE u
  <2>1. object' = PI!AfterListeners(v, mutated)
    BY <1>7 DEF PI!Commit
  <2>2. /\ DOMAIN v = InputFields /\ v.focus = f /\ v.preedit = object.preedit \ {f}
        /\ v.events = evs \o start \o <<"end">>
    BY <1>1 DEF InputFields
  <2> HIDE DEF v, start, evs, f
  <2>3. Composed(v)
    BY <1>1, <1>3, <2>2 DEF Composed
  <2> QED
    BY <1>2, <2>1, <2>3
<1> QED
  BY <1>4, <1>5, <1>6, <1>7

\* What the user does leaves compositions balanced.
LEMMA InputSteps ==
  ASSUME InputInv, PI!Next
  PROVE  InputInv'
<1>1. ASSUME Quiet(object, object') PROVE InputInv'
  BY <1>1, QuietComposed DEF InputInv
<1> QED
  BY <1>1, PointerQuiet, ClickQuiet, KeysQuiet, MethodComposed DEF PI!Next

\* Compositions are balanced as the property says.
LEMMA InputTold ==
  ASSUME InputInv
  PROVE  PI!CompositionsBalanced
BY DEF InputInv, Composed, Balanced, PI!CompositionsBalanced

----------------------------------------------------------------------------
(* Animations: the promises. *)

Fates == {"pending", "finished", "cancelled"}

\* The promises of each animation of `of`, what became of them, and those to be settled: an
\* animation's newest is pending and in nobody's queue as long as it can be resolved.
Promised(of, told, queue) ==
  /\ told \in Seq(Fates) /\ queue \in Seq(0..Len(told))
  /\ \A i \in DOMAIN of : of[i].reject \in 1..Len(told) /\ of[i].resolve \in {0, of[i].reject}
  /\ \A i, j \in DOMAIN of : i # j => of[i].reject # of[j].reject
  /\ \A i \in DOMAIN of : of[i].live /\ of[i].resolve # 0 =>
       told[of[i].resolve] = "pending" /\ of[i].resolve \notin Range(queue)
  /\ \A i \in DOMAIN of : of[i].resolve = 0 \/ ~of[i].live =>
       told[of[i].reject] # "pending" \/ of[i].reject \in Range(queue)

\* What settling a promise does.
Settled(told, p, how) == IF p = 0 THEN told ELSE [told EXCEPT ![p] = IF @ = "pending" THEN how ELSE @]

\* The same promises, of animations that were changed otherwise.
SamePromises(a, b) == b.resolve = a.resolve /\ b.reject = a.reject /\ b.live = a.live

LEMMA PromisesKept ==
  ASSUME NEW of, NEW told, NEW queue, Promised(of, told, queue),
         NEW of2, DOMAIN of2 = DOMAIN of, \A i \in DOMAIN of : SamePromises(of[i], of2[i])
  PROVE  Promised(of2, told, queue)
BY DEF Promised, SamePromises

\* Settling one promise.
LEMMA SettledFates ==
  ASSUME NEW told \in Seq(Fates), NEW p \in 0..Len(told), NEW how \in Fates \ {"pending"}
  PROVE  /\ Settled(told, p, how) \in Seq(Fates) /\ Len(Settled(told, p, how)) = Len(told)
         /\ \A q \in 1..Len(told) : q # p => Settled(told, p, how)[q] = told[q]
         /\ \A q \in 1..Len(told) : told[q] # "pending" => Settled(told, p, how)[q] # "pending"
         /\ p # 0 => Settled(told, p, how)[p] # "pending"
BY DEF Settled, Fates

\* An animation is cancelled or finished: its newest promise is settled.
LEMMA PromiseSettled ==
  ASSUME NEW of, NEW told, NEW queue, Promised(of, told, queue), NEW j \in DOMAIN of,
         NEW how \in Fates \ {"pending"}, NEW p, NEW of2, DOMAIN of2 = DOMAIN of,
         \A i \in DOMAIN of : i # j => SamePromises(of[i], of2[i]),
         of2[j].reject = of[j].reject,
         \/ p = of[j].reject /\ ~of2[j].live /\ of2[j].resolve = of[j].resolve
         \/ p = of[j].resolve /\ of[j].live /\ of2[j].live /\ of2[j].resolve = 0
  PROVE  Promised(of2, Settled(told, p, how), queue)
<1> DEFINE told2 == Settled(told, p, how)
<1>1. told \in Seq(Fates) /\ p \in 0..Len(told) /\ Len(told) \in Nat
  BY DEF Promised
<1>2. /\ told2 \in Seq(Fates) /\ Len(told2) = Len(told)
      /\ \A q \in 1..Len(told) : q # p => told2[q] = told[q]
      /\ \A q \in 1..Len(told) : told[q] # "pending" => told2[q] # "pending"
      /\ p # 0 => told2[p] # "pending"
  BY <1>1, SettledFates
<1> HIDE DEF told2
<1>3. /\ \A i \in DOMAIN of2 : of2[i].reject \in 1..Len(told2) /\ of2[i].resolve \in {0, of2[i].reject}
      /\ \A i, k \in DOMAIN of2 : i # k => of2[i].reject # of2[k].reject
  <2>1. \A i \in DOMAIN of : of2[i].reject = of[i].reject /\ of2[i].resolve \in {0, of[i].resolve}
    BY DEF SamePromises
  <2> QED
    BY <1>2, <2>1 DEF Promised
<1>4. ASSUME NEW i \in DOMAIN of2, i # j
      PROVE  /\ of2[i].live /\ of2[i].resolve # 0 => told2[of2[i].resolve] = "pending" /\ of2[i].resolve \notin Range(queue)
             /\ of2[i].resolve = 0 \/ ~of2[i].live => told2[of2[i].reject] # "pending" \/ of2[i].reject \in Range(queue)
  <2>1. /\ SamePromises(of[i], of2[i]) /\ of[i].reject \in 1..Len(told) /\ of[i].resolve \in {0, of[i].reject}
        /\ of[i].reject # p
    BY <1>4 DEF Promised
  <2> QED
    BY <1>2, <1>4, <2>1 DEF Promised, SamePromises
<1>5. /\ ~(of2[j].live /\ of2[j].resolve # 0)
      /\ told2[of2[j].reject] # "pending" \/ of2[j].reject \in Range(queue)
  <2>1. of[j].reject \in 1..Len(told) /\ of[j].resolve \in {0, of[j].reject}
    BY DEF Promised
  <2>2. CASE p # 0
    BY <1>2, <2>1, <2>2
  <2>3. CASE p = 0
    <3>1. told[of[j].reject] # "pending" \/ of[j].reject \in Range(queue)
      BY <2>1, <2>3 DEF Promised
    <3> QED
      BY <1>2, <2>1, <3>1
  <2> QED
    BY <2>2, <2>3
<1>6. queue \in Seq(0..Len(told2))
  BY <1>2 DEF Promised
<1> QED
  BY <1>2, <1>3, <1>4, <1>5, <1>6 DEF Promised, told2

\* The first promise of the queue is settled.
LEMMA PromiseDrained ==
  ASSUME NEW of, NEW told, NEW queue, Promised(of, told, queue), queue # <<>>
  PROVE  Promised(of, Settled(told, Head(queue), "finished"), Tail(queue))
<1> DEFINE p == Head(queue)
           told2 == Settled(told, p, "finished")
           rest == Tail(queue)
<1>1. /\ told \in Seq(Fates) /\ queue \in Seq(0..Len(told)) /\ Len(told) \in Nat
  BY DEF Promised
<1>2. /\ p \in 0..Len(told) /\ p = queue[1] /\ 1 \in DOMAIN queue /\ rest \in Seq(0..Len(told))
      /\ \A n \in DOMAIN rest : n + 1 \in DOMAIN queue /\ rest[n] = queue[n + 1]
      /\ \A n \in DOMAIN queue : n = 1 \/ (n - 1 \in DOMAIN rest /\ rest[n - 1] = queue[n])
  <2> DEFINE T == 0..Len(told)
  <2>1. queue \in Seq(T)
    BY <1>1
  <2> HIDE DEF T
  <2>2. /\ p \in T /\ p = queue[1] /\ 1 \in DOMAIN queue /\ rest \in Seq(T)
        /\ \A n \in DOMAIN rest : n + 1 \in DOMAIN queue /\ rest[n] = queue[n + 1]
        /\ \A n \in DOMAIN queue : n = 1 \/ (n - 1 \in DOMAIN rest /\ rest[n - 1] = queue[n])
    BY <2>1, Behind
  <2> QED
    BY <2>2 DEF T
<1>3. /\ told2 \in Seq(Fates) /\ Len(told2) = Len(told)
      /\ \A q \in 1..Len(told) : q # p => told2[q] = told[q]
      /\ \A q \in 1..Len(told) : told[q] # "pending" => told2[q] # "pending"
      /\ p # 0 => told2[p] # "pending"
  BY <1>1, <1>2, SettledFates DEF Fates
<1> HIDE DEF told2, p, rest
<1>4. \A q : q \in Range(queue) <=> (q = p \/ q \in Range(rest))
  BY <1>2 DEF Range
<1>5. ASSUME NEW i \in DOMAIN of
      PROVE  /\ of[i].live /\ of[i].resolve # 0 => told2[of[i].resolve] = "pending" /\ of[i].resolve \notin Range(rest)
             /\ of[i].resolve = 0 \/ ~of[i].live => told2[of[i].reject] # "pending" \/ of[i].reject \in Range(rest)
  <2>1. of[i].reject \in 1..Len(told) /\ of[i].resolve \in {0, of[i].reject}
    BY DEF Promised
  <2>2. of[i].live /\ of[i].resolve # 0 => told2[of[i].resolve] = "pending" /\ of[i].resolve \notin Range(rest)
    BY <1>3, <1>4, <2>1 DEF Promised
  <2>3. of[i].resolve = 0 \/ ~of[i].live => told2[of[i].reject] # "pending" \/ of[i].reject \in Range(rest)
    BY <1>3, <1>4, <2>1 DEF Promised
  <2> QED
    BY <2>2, <2>3
<1>6. rest \in Seq(0..Len(told2))
  BY <1>2, <1>3
<1>7. Promised(of, told2, rest)
  BY <1>3, <1>5, <1>6 DEF Promised
<1> QED
  BY <1>7 DEF told2, p, rest

\* A tick queues the promises of those it ends.
Ticked(of, of2, over, queue) ==
  /\ DOMAIN of2 = DOMAIN of /\ over \subseteq DOMAIN of
  /\ \A i \in DOMAIN of : /\ of2[i].reject = of[i].reject /\ of2[i].live = of[i].live
                          /\ of2[i].resolve = IF i \in over THEN 0 ELSE of[i].resolve
  /\ Range(queue) = {of[i].resolve : i \in over}

LEMMA PromisesTicked ==
  ASSUME NEW of, NEW told, Promised(of, told, <<>>), NEW over, NEW of2,
         NEW queue \in Seq(0..Len(told)), Ticked(of, of2, over, queue)
  PROVE  Promised(of2, told, queue)
<1> USE DEF Ticked
<1>1. Range(<<>>) = {}
  BY DEF Range
<1>2. ASSUME NEW i \in DOMAIN of2, of2[i].live, of2[i].resolve # 0
      PROVE  told[of2[i].resolve] = "pending" /\ of2[i].resolve \notin Range(queue)
  <2>1. i \notin over /\ of2[i].resolve = of[i].resolve /\ of[i].live
    BY <1>2
  <2>2. \A j \in over : j # i /\ (of[j].resolve = 0 \/ of[j].resolve = of[j].reject) /\ of[j].reject # of[i].reject
    BY <2>1 DEF Promised
  <2> QED
    BY <1>2, <2>1, <2>2 DEF Promised
<1>3. ASSUME NEW i \in DOMAIN of2, of2[i].resolve = 0 \/ ~of2[i].live
      PROVE  told[of2[i].reject] # "pending" \/ of2[i].reject \in Range(queue)
  <2>1. CASE of[i].resolve = 0 \/ ~of[i].live
    BY <1>1, <2>1 DEF Promised
  <2>2. CASE of[i].resolve # 0 /\ of[i].live
    BY <1>3, <2>2 DEF Promised
  <2> QED
    BY <2>1, <2>2
<1> QED
  BY <1>2, <1>3 DEF Promised

\* An animation is made, with a new promise.
LEMMA PromiseMade ==
  ASSUME NEW A, NEW of \in Seq(A), NEW told, NEW queue, Promised(of, told, queue),
         NEW a \in A, a.resolve = Len(told) + 1, a.reject = Len(told) + 1, a.live
  PROVE  Promised(Append(of, a), Append(told, "pending"), queue)
<1> DEFINE of2 == Append(of, a)
           told2 == Append(told, "pending")
           n == Len(of) + 1
<1>1. told \in Seq(Fates) /\ queue \in Seq(0..Len(told)) /\ "pending" \in Fates
  BY DEF Promised, Fates
<1>2. /\ told2 \in Seq(Fates) /\ Len(told2) = Len(told) + 1 /\ told2[Len(told) + 1] = "pending"
      /\ \A k \in 1..Len(told) : told2[k] = told[k]
      /\ Len(told) \in Nat
  BY <1>1, Appended
<1>3. /\ DOMAIN of2 = DOMAIN of \cup {n} /\ n \notin DOMAIN of /\ of2[n] = a
      /\ \A i \in DOMAIN of : of2[i] = of[i]
  BY Appended
<1>4. queue \in Seq(0..Len(told2)) /\ \A q \in Range(queue) : q \in 0..Len(told)
  BY <1>1, <1>2 DEF Range
<1> HIDE DEF of2, told2, n
<1>5. \A i \in DOMAIN of : /\ of2[i] = of[i] /\ of[i].reject \in 1..Len(told)
                           /\ of[i].resolve \in {0, of[i].reject} /\ of2[i].reject # a.reject
  BY <1>2, <1>3 DEF Promised
<1>6. \A i, j \in DOMAIN of2 : i # j => of2[i].reject # of2[j].reject
  BY <1>3, <1>5 DEF Promised
<1>7. ASSUME NEW i \in DOMAIN of2
      PROVE  /\ of2[i].reject \in 1..Len(told2) /\ of2[i].resolve \in {0, of2[i].reject}
             /\ of2[i].live /\ of2[i].resolve # 0 => told2[of2[i].resolve] = "pending" /\ of2[i].resolve \notin Range(queue)
             /\ of2[i].resolve = 0 \/ ~of2[i].live => told2[of2[i].reject] # "pending" \/ of2[i].reject \in Range(queue)
  <2>1. CASE i = n
    <3>1. of2[i] = a /\ Len(told) + 1 \notin Range(queue)
      BY <1>2, <1>3, <1>4, <2>1
    <3> QED
      BY <1>2, <3>1
  <2>2. CASE i # n
    <3>1. i \in DOMAIN of /\ of2[i] = of[i] /\ of[i].reject \in 1..Len(told) /\ of[i].resolve \in {0, of[i].reject}
      BY <1>3, <1>5, <2>2
    <3>2. told2[of[i].reject] = told[of[i].reject]
      BY <1>2, <3>1
    <3>3. /\ of[i].live /\ of[i].resolve # 0 => told[of[i].resolve] = "pending" /\ of[i].resolve \notin Range(queue)
          /\ of[i].resolve = 0 \/ ~of[i].live => told[of[i].reject] # "pending" \/ of[i].reject \in Range(queue)
      BY <3>1 DEF Promised
    <3> QED
      BY <1>2, <3>1, <3>2, <3>3
  <2> QED
    BY <2>1, <2>2
<1>8. Promised(of2, told2, queue)
  BY <1>2, <1>4, <1>6, <1>7 DEF Promised
<1> QED
  BY <1>8 DEF of2, told2

\* Every animation gets a handle with a promise of its own.
Listed(of, of2, m, n, place) ==
  /\ DOMAIN of2 = DOMAIN of
  /\ \A i \in DOMAIN of : of[i].live => place[i] \in 1..n
  /\ \A i, j \in DOMAIN of : of[i].live /\ of[j].live /\ place[i] = place[j] => i = j
  /\ \A i \in DOMAIN of :
       IF of[i].live THEN of2[i].resolve = m + place[i] /\ of2[i].reject = m + place[i] /\ of2[i].live
       ELSE of2[i] = of[i]

LEMMA PromisesListed ==
  ASSUME NEW of, NEW told, NEW queue, Promised(of, told, queue), NEW n \in Nat, NEW of2, NEW place,
         Listed(of, of2, Len(told), n, place), NEW told2, told2 = told \o [k \in 1..n |-> "pending"]
  PROVE  Promised(of2, told2, queue)
<1> USE DEF Listed
<1> DEFINE new == [k \in 1..n |-> "pending"]
<1>1. told \in Seq(Fates) /\ queue \in Seq(0..Len(told)) /\ Len(told) \in Nat
  BY DEF Promised
<1>2. new \in Seq(Fates) /\ Len(new) = n /\ \A k \in 1..n : new[k] = "pending"
  BY DEF Fates
<1>3. /\ told2 \in Seq(Fates) /\ Len(told2) = Len(told) + n
      /\ \A k \in 1..Len(told) : told2[k] = told[k]
      /\ \A k \in 1..n : told2[Len(told) + k] = "pending"
  <2> HIDE DEF new
  <2>1. told2 = told \o new
    BY DEF new
  <2> QED
    BY <1>1, <1>2, <2>1
<1>4. queue \in Seq(0..Len(told2)) /\ \A q \in Range(queue) : q \in 0..Len(told)
  BY <1>1, <1>3 DEF Range
<1>5. \A i \in DOMAIN of : /\ of[i].reject \in 1..Len(told) /\ of[i].resolve \in {0, of[i].reject}
                           /\ of[i].live => of2[i].reject > Len(told) /\ of2[i].reject \in 1..Len(told2)
  <2> TAKE i \in DOMAIN of
  <2>1. of[i].reject \in 1..Len(told) /\ of[i].resolve \in {0, of[i].reject}
    BY DEF Promised
  <2>2. ASSUME of[i].live PROVE of2[i].reject > Len(told) /\ of2[i].reject \in 1..Len(told2)
    <3>1. place[i] \in 1..n /\ of2[i].reject = Len(told) + place[i]
      BY <2>2
    <3> QED
      BY <1>1, <1>3, <3>1
  <2> QED
    BY <2>1, <2>2
<1>6. \A i, j \in DOMAIN of2 : i # j => of2[i].reject # of2[j].reject
  <2> TAKE i, j \in DOMAIN of2
  <2> HAVE i # j
  <2>1. CASE of[i].live /\ of[j].live
    BY <1>1, <2>1
  <2>2. CASE ~(of[i].live /\ of[j].live)
    BY <1>1, <1>5, <2>2 DEF Promised
  <2> QED
    BY <2>1, <2>2
<1>7. ASSUME NEW i \in DOMAIN of2
      PROVE  /\ of2[i].reject \in 1..Len(told2) /\ of2[i].resolve \in {0, of2[i].reject}
             /\ of2[i].live /\ of2[i].resolve # 0 => told2[of2[i].resolve] = "pending" /\ of2[i].resolve \notin Range(queue)
             /\ of2[i].resolve = 0 \/ ~of2[i].live => told2[of2[i].reject] # "pending" \/ of2[i].reject \in Range(queue)
  <2>1. CASE of[i].live
    BY <1>1, <1>3, <1>4, <1>5, <2>1
  <2>2. CASE ~of[i].live
    BY <1>1, <1>3, <1>5, <2>2 DEF Promised
  <2> QED
    BY <2>1, <2>2
<1> QED
  BY <1>3, <1>4, <1>6, <1>7 DEF Promised

----------------------------------------------------------------------------
(* Animations: what they are, between two steps. *)

Anims(O) ==
  [options : O, state : {"running", "paused", "finished"}, start : Int, held : Int, rate : Int,
   live : BOOLEAN, resolve : Nat, reject : Nat, shown : Int, ended : BOOLEAN]
AnimFields ==
  {"now", "of", "queue", "ticked", "told", "active", "remaining", "parked", "finished"}

\* One that the last tick ended shows the keyframe its direction ends at.
ShownAtEnd(a) ==
  a.ended => /\ a.state = "finished"
             /\ a.live /\ a.options.direction = "normal" => a.shown = a.options.duration
             /\ a.live /\ a.options.direction = "reverse" => a.shown = 0

\* The last transition is in the slot or finished.
Slotted(active, finished) ==
  /\ finished \in Seq(BOOLEAN) /\ active \in {0, Len(finished)}
  /\ finished # <<>> /\ active = 0 => finished[Len(finished)] = TRUE

AnimState(O, u) ==
  /\ DOMAIN u = AnimFields /\ u.now \in Int
  /\ u.of \in Seq(Anims(O)) /\ \A i \in DOMAIN u.of : ShownAtEnd(u.of[i])
  /\ Promised(u.of, u.told, u.queue) /\ Slotted(u.active, u.finished)

\* What is paused keeps its time until it is ended or cancelled, and runs on from it.
PauseHeld(a, b, now) ==
  a.state = "paused" /\ b.live /\ b.state \in {"paused", "running"} =>
    a.held = IF b.state = "paused" THEN b.held ELSE (now - b.start) * b.rate

AnimStep(O, u, v) ==
  AnimState(O, v) /\ \A i \in DOMAIN u.of : PauseHeld(u.of[i], v.of[i], v.now)

\* One animation is changed, and a promise of its settled or none.
LEMMA AnimChanged ==
  ASSUME NEW O, NEW u, AnimState(O, u), NEW id \in DOMAIN u.of, NEW a \in Anims(O),
         ShownAtEnd(a), PauseHeld(u.of[id], a, u.now),
         NEW v, DOMAIN v = AnimFields, v.of = [u.of EXCEPT ![id] = a], v.now = u.now, v.queue = u.queue,
         v.active = u.active, v.finished = u.finished,
         \/ SamePromises(u.of[id], a) /\ v.told = u.told
         \/ \E how \in Fates \ {"pending"} : \E p :
              /\ v.told = Settled(u.told, p, how) /\ a.reject = u.of[id].reject
              /\ \/ p = u.of[id].reject /\ ~a.live /\ a.resolve = u.of[id].resolve
                 \/ p = u.of[id].resolve /\ u.of[id].live /\ a.live /\ a.resolve = 0
  PROVE  AnimStep(O, u, v)
<1> DEFINE A == Anims(O)
<1>1. u.of \in Seq(A) /\ a \in A
  BY DEF AnimState
<1> HIDE DEF A
<1>2. v.of \in Seq(A) /\ DOMAIN v.of = DOMAIN u.of /\ v.of[id] = a
  BY <1>1
<1>3. \A i \in DOMAIN u.of : i # id => v.of[i] = u.of[i]
  BY <1>1
<1>4. \A i \in DOMAIN v.of : ShownAtEnd(v.of[i])
  BY <1>2, <1>3 DEF AnimState
<1>5. \A i \in DOMAIN u.of : PauseHeld(u.of[i], v.of[i], v.now)
  BY <1>2, <1>3 DEF PauseHeld
<1>6. \A i \in DOMAIN u.of : i # id => SamePromises(u.of[i], v.of[i])
  BY <1>3 DEF SamePromises
<1>7. Promised(v.of, v.told, v.queue)
  <2>1. Promised(u.of, u.told, u.queue)
    BY DEF AnimState
  <2>2. CASE SamePromises(u.of[id], a) /\ v.told = u.told
    <3>1. \A i \in DOMAIN u.of : SamePromises(u.of[i], v.of[i])
      BY <1>2, <1>6, <2>2
    <3> QED
      BY <1>2, <2>1, <2>2, <3>1, PromisesKept
  <2>3. ASSUME NEW how \in Fates \ {"pending"}, NEW p, v.told = Settled(u.told, p, how), a.reject = u.of[id].reject,
               \/ p = u.of[id].reject /\ ~a.live /\ a.resolve = u.of[id].resolve
               \/ p = u.of[id].resolve /\ u.of[id].live /\ a.live /\ a.resolve = 0
        PROVE  Promised(v.of, v.told, v.queue)
    BY <1>2, <1>6, <2>1, <2>3, PromiseSettled
  <2> QED
    BY <2>2, <2>3
<1> QED
  BY <1>2, <1>4, <1>5, <1>7 DEF AnimStep, AnimState, A

\* Time passes, a promise is settled, or a transition goes on.
LEMMA AnimKept ==
  ASSUME NEW O, NEW u, AnimState(O, u), NEW v, DOMAIN v = AnimFields, v.of = u.of, v.now \in Int,
         \/ v.told = u.told /\ v.queue = u.queue
         \/ u.queue # <<>> /\ v.told = Settled(u.told, Head(u.queue), "finished") /\ v.queue = Tail(u.queue),
         Slotted(v.active, v.finished)
  PROVE  AnimStep(O, u, v)
<1>1. \A i \in DOMAIN u.of : PauseHeld(u.of[i], v.of[i], v.now)
  BY DEF PauseHeld
<1>2. Promised(v.of, v.told, v.queue)
  BY PromiseDrained DEF AnimState
<1> QED
  BY <1>1, <1>2 DEF AnimState, AnimStep

\* An animation is made.
LEMMA AnimMade ==
  ASSUME NEW O, NEW u, AnimState(O, u), NEW a \in Anims(O), ShownAtEnd(a),
         a.resolve = Len(u.told) + 1, a.reject = Len(u.told) + 1, a.live,
         NEW v, DOMAIN v = AnimFields, v.of = Append(u.of, a), v.told = Append(u.told, "pending"),
         v.now = u.now, v.queue = u.queue, v.active = u.active, v.finished = u.finished
  PROVE  AnimStep(O, u, v)
<1> DEFINE A == Anims(O)
<1>1. u.of \in Seq(A) /\ a \in A
  BY DEF AnimState
<1> HIDE DEF A
<1>2. /\ v.of \in Seq(A) /\ DOMAIN v.of = 1..(Len(u.of) + 1) /\ v.of[Len(u.of) + 1] = a
      /\ \A i \in DOMAIN u.of : v.of[i] = u.of[i]
      /\ DOMAIN u.of = 1..Len(u.of) /\ Len(u.of) \in Nat
  BY <1>1, Appended
<1>3. \A i \in DOMAIN u.of : PauseHeld(u.of[i], v.of[i], v.now)
  BY <1>2 DEF PauseHeld
<1>4. \A i \in DOMAIN v.of : ShownAtEnd(v.of[i])
  BY <1>2 DEF AnimState
<1>5. Promised(v.of, v.told, v.queue)
  BY <1>1, PromiseMade DEF AnimState
<1> QED
  BY <1>2, <1>3, <1>4, <1>5 DEF AnimState, AnimStep, A

\* Every animation is changed, and goes on or ends.
LEMMA AnimAll ==
  ASSUME NEW O, NEW u, AnimState(O, u), NEW v, DOMAIN v = AnimFields,
         v.of = [i \in DOMAIN u.of |-> v.of[i]], v.now = u.now,
         \A i \in DOMAIN u.of :
           v.of[i] \in Anims(O) /\ ShownAtEnd(v.of[i]) /\ PauseHeld(u.of[i], v.of[i], u.now),
         Promised(v.of, v.told, v.queue), Slotted(v.active, v.finished)
  PROVE  AnimStep(O, u, v)
<1> DEFINE A == Anims(O)
<1>1. u.of \in Seq(A) /\ \A i \in DOMAIN u.of : v.of[i] \in A
  BY DEF AnimState
<1> HIDE DEF A
<1>2. v.of \in Seq(A) /\ DOMAIN v.of = DOMAIN u.of
  BY <1>1
<1> QED
  BY <1>2 DEF AnimState, AnimStep, A

\* A transition takes the slot or leaves it.
LEMMA SlotTaken ==
  ASSUME NEW active, NEW finished, Slotted(active, finished), NEW ok \in BOOLEAN
  PROVE  /\ Slotted(Len(finished) + 1, Append(finished, ok))
         /\ active # 0 => Slotted(0, [finished EXCEPT ![active] = TRUE])
<1>1. finished \in Seq(BOOLEAN) /\ active \in {0, Len(finished)} /\ Len(finished) \in Nat
  BY DEF Slotted
<1>2. Append(finished, ok) \in Seq(BOOLEAN) /\ Len(Append(finished, ok)) = Len(finished) + 1
  BY <1>1
<1>3. Slotted(Len(finished) + 1, Append(finished, ok))
  BY <1>1, <1>2 DEF Slotted
<1>4. ASSUME active # 0 PROVE Slotted(0, [finished EXCEPT ![active] = TRUE])
  <2> DEFINE g == [finished EXCEPT ![active] = TRUE]
  <2>1. active = Len(finished) /\ active \in DOMAIN finished
    BY <1>1, <1>4
  <2>2. g \in Seq(BOOLEAN) /\ Len(g) = Len(finished) /\ g[active] = TRUE
    BY <1>1, <2>1
  <2> QED
    BY <2>1, <2>2 DEF Slotted
<1> QED
  BY <1>3, <1>4

----------------------------------------------------------------------------
(* Animations: their steps, for any options and bounds. *)

\* At first there is none.
LEMMA AnimFirst ==
  ASSUME NEW O, NEW M, NEW T, NEW V,
         Ani(O, M, T, V)!Init
  PROVE  AnimState(O, object)
<1>1. <<>> \in Seq(Anims(O)) /\ <<>> \in Seq(Fates) /\ <<>> \in Seq(BOOLEAN) /\ <<>> \in Seq(0..Len(<<>>))
  OBVIOUS
<1>2. DOMAIN <<>> = {} /\ Len(<<>>) = 0
  OBVIOUS
<1> QED
  BY <1>1, <1>2 DEF Ani!Init, Ani!None, AnimState, AnimFields, Promised, Slotted

\* Scripts make animations and get new handles of them.
LEMMA AnimHandles ==
  ASSUME NEW O, NEW M, NEW T, NEW V,
         AnimState(O, object),
         \/ \E o \in O : Ani(O, M, T, V)!Animate(o)
         \/ \E order \in Ani(O, M, T, V)!Orders({i \in Ani(O, M, T, V)!Id : object.of[i].live}) :
              Ani(O, M, T, V)!GetAnimations(order)
  PROVE  AnimStep(O, object, object')
<1>1. /\ DOMAIN object = AnimFields /\ object.now \in Int /\ Len(object.told) \in Nat
      /\ object.of \in Seq(Anims(O)) /\ \A i \in DOMAIN object.of : ShownAtEnd(object.of[i])
      /\ Promised(object.of, object.told, object.queue) /\ Slotted(object.active, object.finished)
  BY DEF AnimState, Promised
<1>2. ASSUME NEW o \in O, Ani(O, M, T, V)!Animate(o) PROVE AnimStep(O, object, object')
  <2> DEFINE n == Len(object.told) + 1
             z == [options |-> o, state |-> "running", start |-> object.now, held |-> 0, rate |-> 1, live |-> TRUE,
                   resolve |-> Ani(O, M, T, V)!None, reject |-> Ani(O, M, T, V)!None, shown |-> 0, ended |-> FALSE]
             a == Ani(O, M, T, V)!Handled(z, n)
  <2>1. object' = [object EXCEPT !.told = Append(@, "pending"), !.of = Append(@, a)]
    BY <1>2 DEF Ani!Animate
  <2>2. z \in Anims(O) /\ ~z.ended /\ z.live
    BY <1>1 DEF Anims, Ani!None
  <2>3. n \in Nat
    BY <1>1
  <2>4. a = [z EXCEPT !.resolve = n, !.reject = n]
    BY DEF Ani!Handled
  <2> HIDE DEF a, n, z
  <2>5. a \in Anims(O) /\ ~a.ended /\ a.resolve = n /\ a.reject = n /\ a.live
    BY <2>2, <2>3, <2>4 DEF Anims
  <2>6. ShownAtEnd(a)
    BY <2>5 DEF ShownAtEnd
  <2>7. /\ DOMAIN object' = AnimFields /\ object'.of = Append(object.of, a)
        /\ object'.told = Append(object.told, "pending") /\ object'.now = object.now
        /\ object'.queue = object.queue /\ object'.active = object.active /\ object'.finished = object.finished
    BY <1>1, <2>1 DEF AnimFields
  <2> QED
    BY <2>5, <2>6, <2>7, AnimMade DEF n
<1>3. ASSUME NEW order \in Ani(O, M, T, V)!Orders({i \in Ani(O, M, T, V)!Id : object.of[i].live}),
             Ani(O, M, T, V)!GetAnimations(order)
      PROVE  AnimStep(O, object, object')
  <2> DEFINE live == {i \in DOMAIN object.of : object.of[i].live}
             n == Cardinality(live)
             Place(i) == CHOOSE k \in DOMAIN order : order[k] = i
             place == [i \in DOMAIN object.of |-> Place(i)]
             F(i) == IF object.of[i].live THEN Ani(O, M, T, V)!Handled(object.of[i], Len(object.told) + Place(i))
                     ELSE object.of[i]
  <2>1. n \in Nat
    <3>1. IsFiniteSet(DOMAIN object.of)
      <4>1. DOMAIN object.of = 1..Len(object.of) /\ Len(object.of) \in Int /\ 1 \in Int
        BY <1>1
      <4> QED
        BY <4>1, FS_Interval, Zenon
    <3> QED
      BY <3>1, FS_Subset, FS_CardinalityType
  <2>2. order \in [1..n -> live] /\ \A i \in live : \E k \in 1..n : order[k] = i
    <3>1. order \in Ani(O, M, T, V)!Bijection(1..n, live)
      BY <1>3 DEF Ani!Orders, Ani!Id, Ani!Cardinality, Cardinality
    <3> QED
      BY <3>1 DEF Ani!Bijection, Ani!Injection, Ani!Surjection
  <2>3. DOMAIN order = 1..n /\ Len(order) = n
    BY <2>1, <2>2
  <2>4. object' = [object EXCEPT !.told = @ \o [k \in DOMAIN order |-> "pending"],
                                 !.of = [i \in DOMAIN object.of |-> F(i)]]
    BY <1>3 DEF Ani!GetAnimations, Ani!Id
  <2>5. ASSUME NEW i \in live PROVE place[i] = Place(i) /\ place[i] \in 1..n /\ order[place[i]] = i
    <3>1. Place(i) \in DOMAIN order /\ order[Place(i)] = i
      BY <2>2, <2>3, <2>5
    <3> QED
      BY <2>3, <3>1
  <2> HIDE DEF n, place, Place, F
  <2>6. /\ object'.told = object.told \o [k \in 1..n |-> "pending"]
        /\ object'.of = [i \in DOMAIN object.of |-> F(i)]
        /\ DOMAIN object' = AnimFields /\ object'.now = object.now
        /\ object'.queue = object.queue /\ object'.active = object.active /\ object'.finished = object.finished
    BY <1>1, <2>3, <2>4 DEF AnimFields
  <2>7. ASSUME NEW i \in DOMAIN object.of
        PROVE  /\ F(i) \in Anims(O) /\ ShownAtEnd(F(i)) /\ PauseHeld(object.of[i], F(i), object.now)
               /\ IF object.of[i].live THEN /\ F(i).resolve = Len(object.told) + place[i]
                                            /\ F(i).reject = Len(object.told) + place[i] /\ F(i).live
                  ELSE F(i) = object.of[i]
    <3> DEFINE a == object.of[i]
               p == Len(object.told) + place[i]
               b == F(i)
    <3>1. a \in Anims(O) /\ ShownAtEnd(a)
      BY <1>1
    <3>2. CASE ~a.live
      BY <3>1, <3>2 DEF PauseHeld, F
    <3>3. CASE a.live
      <4>1. place[i] \in 1..n /\ place[i] = Place(i)
        BY <2>5, <3>3
      <4>2. p \in Nat
        BY <1>1, <2>1, <4>1
      <4>3. b = [a EXCEPT !.resolve = p, !.reject = p]
        BY <3>3, <4>1 DEF Ani!Handled, F
      <4> HIDE DEF a, p, b
      <4>4. b \in Anims(O)
        BY <3>1, <4>2, <4>3 DEF Anims
      <4>5. /\ b.state = a.state /\ b.held = a.held /\ b.live = a.live /\ b.ended = a.ended
            /\ b.shown = a.shown /\ b.options = a.options /\ b.resolve = p /\ b.reject = p
        BY <3>1, <4>3 DEF Anims
      <4>6. ShownAtEnd(b) /\ PauseHeld(a, b, object.now)
        BY <3>1, <4>5 DEF ShownAtEnd, PauseHeld
      <4> QED
        BY <3>3, <4>4, <4>5, <4>6 DEF a, p, b
    <3> QED
      BY <3>2, <3>3
  <2>8. \A i \in DOMAIN object.of : object'.of[i] = F(i)
    BY <2>6
  <2>9. Promised(object'.of, object'.told, object'.queue)
    <3>1. \A i \in DOMAIN object.of : object.of[i].live => place[i] \in 1..n
      BY <2>5
    <3>2. \A i, j \in DOMAIN object.of : object.of[i].live /\ object.of[j].live /\ place[i] = place[j] => i = j
      BY <2>5
    <3>3. DOMAIN object'.of = DOMAIN object.of
      BY <2>6
    <3>4. Listed(object.of, object'.of, Len(object.told), n, place)
      BY <2>7, <2>8, <3>1, <3>2, <3>3 DEF Listed
    <3>5. /\ Promised(object.of, object.told, object.queue)
          /\ object'.told = object.told \o [k \in 1..n |-> "pending"] /\ object'.queue = object.queue
      BY <1>1, <2>6
    <3> QED
      BY <2>1, <3>4, <3>5, PromisesListed
  <2>10. object'.of = [i \in DOMAIN object.of |-> object'.of[i]]
    BY <2>6
  <2> QED
    BY <1>1, <2>6, <2>7, <2>8, <2>9, <2>10, AnimAll
<1> QED
  BY <1>2, <1>3

\* Scripts play, pause, turn, cancel and finish an animation.
LEMMA AnimScripts ==
  ASSUME NEW O, NEW M, NEW T, NEW V,
         Ani(O, M, T, V)!Bounds, AnimState(O, object), NEW id \in Ani(O, M, T, V)!Id,
         \/ Ani(O, M, T, V)!Play(id) \/ Ani(O, M, T, V)!Pause(id)
         \/ Ani(O, M, T, V)!ReverseRate(id)
         \/ \E rate \in Rates : Ani(O, M, T, V)!UpdatePlaybackRate(id, rate)
         \/ Ani(O, M, T, V)!Cancel(id) \/ Ani(O, M, T, V)!Finish(id)
  PROVE  AnimStep(O, object, object')
<1> DEFINE a == object.of[id]
<1>1. /\ DOMAIN object = AnimFields /\ object.now \in Int /\ id \in DOMAIN object.of
      /\ a \in Anims(O) /\ ShownAtEnd(a) /\ object.of \in Seq(Anims(O))
  BY DEF AnimState, Ani!Id
<1>2. ASSUME NEW b \in Anims(O), ShownAtEnd(b), PauseHeld(a, b, object.now),
             SamePromises(a, b), Ani(O, M, T, V)!Change(id, b)
      PROVE  AnimStep(O, object, object')
  <2>1. object' = [object EXCEPT !.of[id] = b]
    BY <1>2 DEF Ani!Change
  <2>2. /\ DOMAIN object' = AnimFields /\ object'.of = [object.of EXCEPT ![id] = b]
        /\ object'.told = object.told /\ object'.now = object.now
        /\ object'.queue = object.queue /\ object'.active = object.active /\ object'.finished = object.finished
    BY <1>1, <2>1 DEF AnimFields
  <2> QED
    BY <1>1, <1>2, <2>2, AnimChanged
<1> DEFINE t == Ani(O, M, T, V)!CurrentTime(a)
<1>3. t \in Int /\ (a.state = "paused" => t = a.held)
  <2>1. a.held \in Int /\ a.start \in Int /\ a.rate \in Int
    BY <1>1 DEF Anims
  <2> QED
    BY <1>1, <2>1 DEF Ani!CurrentTime
<1>4. CASE Ani(O, M, T, V)!Play(id)
  <2> DEFINE b(passed) == Ani(O, M, T, V)!Resumed(a, passed)
             c == [a EXCEPT !.state = "running", !.start = object.now, !.held = 0, !.ended = FALSE]
  <2>1. \/ a.state = "paused" /\ \E passed \in -a.held..a.held :
              passed * a.rate = a.held /\ Ani(O, M, T, V)!Change(id, b(passed))
        \/ a.state = "finished" /\ Ani(O, M, T, V)!Change(id, c)
    <3>1. a.state \in {"paused", "finished", "running"}
      BY <1>1 DEF Anims
    <3>2. CASE a.state = "paused"
      <4> HIDE DEF c
      <4> QED
        BY <1>4, <3>2, Zenon DEF Ani!Play
    <3>3. CASE a.state = "finished"
      BY <1>4, <3>3, Zenon DEF Ani!Play
    <3>4. CASE a.state = "running"
      BY <1>4, <3>4, Zenon DEF Ani!Play
    <3> QED
      BY <3>1, <3>2, <3>3, <3>4
  <2>2. ASSUME a.state = "paused", NEW passed \in -a.held..a.held, passed * a.rate = a.held,
               Ani(O, M, T, V)!Change(id, b(passed))
        PROVE  AnimStep(O, object, object')
    <3> DEFINE e == b(passed)
    <3> HIDE DEF a
    <3>1. /\ a.held \in Int /\ a.rate \in Int /\ a.start \in Int /\ ~a.ended /\ passed \in Int
      BY <1>1, <2>2 DEF Anims, ShownAtEnd
    <3>2. e = [a EXCEPT !.state = "running", !.start = object.now - passed]
      BY DEF Ani!Resumed
    <3>3. object.now - passed \in Int
      BY <1>1, <3>1
    <3>4. e \in Anims(O) /\ e.state = "running" /\ e.start = object.now - passed
          /\ e.rate = a.rate /\ e.ended = a.ended /\ SamePromises(a, e)
      BY <1>1, <3>2, <3>3 DEF Anims, SamePromises
    <3>5. Ani(O, M, T, V)!Change(id, e)
      BY <2>2
    <3> HIDE DEF e
    <3>6. a.held = (object.now - e.start) * e.rate
      <4>1. object.now - e.start = passed
        BY <1>1, <3>1, <3>4
      <4> QED
        BY <2>2, <3>4, <4>1
    <3>7. ShownAtEnd(e) /\ PauseHeld(a, e, object.now)
      BY <3>1, <3>4, <3>6 DEF ShownAtEnd, PauseHeld
    <3> QED
      BY <1>2, <3>4, <3>5, <3>7
  <2>3. CASE a.state = "finished" /\ Ani(O, M, T, V)!Change(id, c)
    <3> HIDE DEF a
    <3>1. c \in Anims(O)
      <4>1. ASSUME NEW s \in {"running", "paused", "finished"}, NEW n \in Int, NEW h \in Int, NEW e \in BOOLEAN
            PROVE  [a EXCEPT !.state = s, !.start = n, !.held = h, !.ended = e] \in Anims(O)
        BY <1>1 DEF Anims
      <4>2. "running" \in {"running", "paused", "finished"} /\ 0 \in Int /\ FALSE \in BOOLEAN
        OBVIOUS
      <4> QED
        BY <1>1, <4>1, <4>2, Zenon
    <3>2. c.resolve = a.resolve /\ c.reject = a.reject /\ c.live = a.live /\ ~c.ended
      BY <1>1 DEF Anims
    <3> HIDE DEF c
    <3>3. SamePromises(a, c) /\ ShownAtEnd(c) /\ PauseHeld(a, c, object.now)
      BY <2>3, <3>2 DEF SamePromises, ShownAtEnd, PauseHeld
    <3> QED
      BY <1>2, <2>3, <3>1, <3>3
  <2> QED
    BY <2>1, <2>2, <2>3
<1>5. CASE Ani(O, M, T, V)!Pause(id)
  <2> DEFINE b == [a EXCEPT !.state = "paused", !.held = IF t < 0 THEN 0 ELSE t]
  <2>1. a.state = "running" /\ Ani(O, M, T, V)!Change(id, b)
    BY <1>5 DEF Ani!Pause
  <2> HIDE DEF a, t
  <2>2. b \in Anims(O)
    <3>1. ASSUME NEW s \in {"running", "paused", "finished"}, NEW h \in Int
          PROVE  [a EXCEPT !.state = s, !.held = h] \in Anims(O)
      BY <1>1 DEF Anims
    <3> DEFINE h == IF t < 0 THEN 0 ELSE t
    <3>2. "paused" \in {"running", "paused", "finished"} /\ h \in Int
      BY <1>3
    <3> QED
      BY <3>1, <3>2, Zenon
  <2>3. b.resolve = a.resolve /\ b.reject = a.reject /\ b.live = a.live /\ b.ended = a.ended
    BY <1>1 DEF Anims
  <2> HIDE DEF b
  <2>4. SamePromises(a, b) /\ ShownAtEnd(b) /\ PauseHeld(a, b, object.now)
    BY <1>1, <2>1, <2>3 DEF SamePromises, ShownAtEnd, PauseHeld
  <2> QED
    BY <1>2, <2>1, <2>2, <2>4
<1>6. CASE \/ Ani(O, M, T, V)!ReverseRate(id)
           \/ \E rate \in Rates : Ani(O, M, T, V)!UpdatePlaybackRate(id, rate)
  <2>1. PICK r \in Int : Ani(O, M, T, V)!Change(id, [a EXCEPT !.rate = r])
    <3>1. -a.rate \in Int
      BY <1>1 DEF Anims
    <3>2. ASSUME Ani(O, M, T, V)!ReverseRate(id) PROVE Ani(O, M, T, V)!Change(id, [a EXCEPT !.rate = -a.rate])
      BY <3>2 DEF Ani!ReverseRate
    <3>3. ASSUME NEW rate \in Rates, Ani(O, M, T, V)!UpdatePlaybackRate(id, rate)
          PROVE  rate \in Int /\ Ani(O, M, T, V)!Change(id, [a EXCEPT !.rate = rate])
      <4>1. rate \in Nat
        BY DEF Ani!Bounds
      <4> QED
        BY <3>3, <4>1 DEF Ani!UpdatePlaybackRate
    <3> QED
      BY <1>6, <3>1, <3>2, <3>3
  <2> DEFINE b == [a EXCEPT !.rate = r]
  <2> HIDE DEF a
  <2>2. b \in Anims(O)
    BY <1>1 DEF Anims
  <2>3. /\ b.resolve = a.resolve /\ b.reject = a.reject /\ b.live = a.live /\ b.ended = a.ended
        /\ b.held = a.held /\ b.state = a.state /\ b.shown = a.shown /\ b.options = a.options
    BY <1>1 DEF Anims
  <2>4. Ani(O, M, T, V)!Change(id, b)
    BY <2>1
  <2> HIDE DEF b
  <2>5. SamePromises(a, b) /\ ShownAtEnd(b) /\ PauseHeld(a, b, object.now)
    BY <1>1, <2>3 DEF SamePromises, ShownAtEnd, PauseHeld
  <2> QED
    BY <1>2, <2>2, <2>4, <2>5
<1>7. CASE Ani(O, M, T, V)!Cancel(id)
  <2> DEFINE b == [a EXCEPT !.live = FALSE, !.start = 0, !.held = 0, !.rate = 1, !.shown = 0]
             p == a.reject
  <2>1. object' = [object EXCEPT !.of[id] = b, !.told = Settled(object.told, p, "cancelled")]
    BY <1>7 DEF Ani!Cancel, Ani!Settle, Settled, Ani!None
  <2> HIDE DEF a
  <2>2. /\ b \in Anims(O) /\ ShownAtEnd(b) /\ PauseHeld(a, b, object.now)
        /\ b.reject = a.reject /\ ~b.live /\ b.resolve = a.resolve
    <3>1. b \in Anims(O)
      <4>1. ASSUME NEW l \in BOOLEAN, NEW r \in Int, NEW z \in Int
            PROVE  [a EXCEPT !.live = l, !.start = z, !.held = z, !.rate = r, !.shown = z] \in Anims(O)
        BY <1>1 DEF Anims
      <4>2. FALSE \in BOOLEAN /\ 1 \in Int /\ 0 \in Int
        OBVIOUS
      <4> QED
        BY <4>1, <4>2, Zenon
    <3>2. b.reject = a.reject /\ ~b.live /\ b.resolve = a.resolve /\ b.ended = a.ended /\ b.state = a.state
      BY <1>1 DEF Anims
    <3> HIDE DEF b
    <3> QED
      BY <1>1, <3>1, <3>2 DEF ShownAtEnd, PauseHeld
  <2> HIDE DEF b, p
  <2>3. /\ DOMAIN object' = AnimFields /\ object'.of = [object.of EXCEPT ![id] = b]
        /\ object'.told = Settled(object.told, p, "cancelled") /\ object'.now = object.now
        /\ object'.queue = object.queue /\ object'.active = object.active /\ object'.finished = object.finished
    BY <1>1, <2>1 DEF AnimFields
  <2>4. "cancelled" \in Fates \ {"pending"}
    BY DEF Fates
  <2> QED
    BY <1>1, <2>2, <2>3, <2>4, AnimChanged DEF a, p
<1>8. CASE Ani(O, M, T, V)!Finish(id)
  <2> DEFINE b == [a EXCEPT !.state = "finished", !.resolve = 0, !.start = object.now - a.options.duration]
             p == a.resolve
  <2>1. a.live /\ object' = [object EXCEPT !.of[id] = b, !.told = Settled(object.told, p, "finished")]
    <3>1. Ani(O, M, T, V)!Settle(object.told, p, "finished") = Settled(object.told, p, "finished")
      BY DEF Ani!Settle, Settled, Ani!None
    <3>2. b = [a EXCEPT !.state = "finished", !.resolve = Ani(O, M, T, V)!None,
                         !.start = object.now - a.options.duration]
      BY DEF Ani!None
    <3>3. /\ a.live
          /\ object' = [object EXCEPT !.of[id] = b, !.told = Ani(O, M, T, V)!Settle(object.told, p, "finished")]
      <4> HIDE DEF b
      <4> QED
        BY <1>8, <3>2 DEF Ani!Finish
    <3> QED
      BY <3>1, <3>3
  <2> HIDE DEF a
  <2>2. a.options.duration \in Int
    <3>1. a.options \in O
      BY <1>1 DEF Anims
    <3> QED
      BY <3>1 DEF Ani!Bounds
  <2>3. /\ b \in Anims(O) /\ ShownAtEnd(b) /\ PauseHeld(a, b, object.now)
        /\ b.reject = a.reject /\ b.live /\ b.resolve = 0
    <3>1. b \in Anims(O)
      <4>1. ASSUME NEW s \in {"running", "paused", "finished"}, NEW q \in Nat, NEW n \in Int
            PROVE  [a EXCEPT !.state = s, !.resolve = q, !.start = n] \in Anims(O)
        BY <1>1 DEF Anims
      <4>2. "finished" \in {"running", "paused", "finished"} /\ 0 \in Nat /\ object.now - a.options.duration \in Int
        BY <1>1, <2>2
      <4> QED
        BY <4>1, <4>2, Zenon
    <3>2. /\ b.reject = a.reject /\ b.live = a.live /\ b.resolve = 0 /\ b.ended = a.ended
          /\ b.state = "finished" /\ b.shown = a.shown /\ b.options = a.options
      BY <1>1 DEF Anims
    <3> HIDE DEF b
    <3> QED
      BY <1>1, <2>1, <3>1, <3>2 DEF ShownAtEnd, PauseHeld
  <2> HIDE DEF b, p
  <2>4. /\ DOMAIN object' = AnimFields /\ object'.of = [object.of EXCEPT ![id] = b]
        /\ object'.told = Settled(object.told, p, "finished") /\ object'.now = object.now
        /\ object'.queue = object.queue /\ object'.active = object.active /\ object'.finished = object.finished
    BY <1>1, <2>1 DEF AnimFields
  <2>5. "finished" \in Fates \ {"pending"}
    BY DEF Fates
  <2> QED
    BY <1>1, <2>1, <2>3, <2>4, <2>5, AnimChanged DEF a, p
<1> QED
  BY <1>4, <1>5, <1>6, <1>7, <1>8

\* Time passes, a promise is settled, a transition takes the slot or is skipped.
LEMMA AnimGoesOn ==
  ASSUME NEW O, NEW M, NEW T, NEW V,
         AnimState(O, object),
         \/ Ani(O, M, T, V)!Drain \/ Ani(O, M, T, V)!Wait \/ Ani(O, M, T, V)!SkipTransition
         \/ \E ok \in BOOLEAN : Ani(O, M, T, V)!StartViewTransition(ok)
  PROVE  AnimStep(O, object, object')
<1>1. DOMAIN object = AnimFields /\ object.now \in Int /\ Slotted(object.active, object.finished)
  BY DEF AnimState
<1>2. /\ DOMAIN object' = AnimFields /\ object'.of = object.of /\ object'.now \in Int
      /\ \/ object'.told = object.told /\ object'.queue = object.queue
         \/ /\ object.queue # <<>> /\ object'.told = Settled(object.told, Head(object.queue), "finished")
            /\ object'.queue = Tail(object.queue)
  <2>1. CASE Ani(O, M, T, V)!Drain
    <3>1. Ani(O, M, T, V)!Settle(object.told, Head(object.queue), "finished")
            = Settled(object.told, Head(object.queue), "finished")
      BY DEF Ani!Settle, Settled, Ani!None
    <3> QED
      BY <1>1, <2>1, <3>1 DEF Ani!Drain, AnimFields
  <2>2. CASE Ani(O, M, T, V)!Wait
    BY <1>1, <2>2 DEF Ani!Wait, AnimFields
  <2>3. CASE Ani(O, M, T, V)!SkipTransition
    BY <1>1, <2>3 DEF Ani!SkipTransition, AnimFields
  <2>4. CASE \E ok \in BOOLEAN : Ani(O, M, T, V)!StartViewTransition(ok)
    BY <1>1, <2>4 DEF Ani!StartViewTransition, AnimFields
  <2> QED
    BY <2>1, <2>2, <2>3, <2>4
<1>3. Slotted(object'.active, object'.finished)
  <2>1. CASE Ani(O, M, T, V)!Drain \/ Ani(O, M, T, V)!Wait
    BY <1>1, <2>1 DEF Ani!Drain, Ani!Wait, AnimFields
  <2>2. CASE Ani(O, M, T, V)!SkipTransition
    BY <1>1, <2>2, SlotTaken DEF Ani!SkipTransition, AnimFields, Ani!None
  <2>3. ASSUME NEW ok \in BOOLEAN, Ani(O, M, T, V)!StartViewTransition(ok)
        PROVE  Slotted(object'.active, object'.finished)
    <3>1. (~ok) \in BOOLEAN
      OBVIOUS
    <3>2. object'.active = Len(object.finished) + 1 /\ object'.finished = Append(object.finished, ~ok)
      BY <1>1, <2>3 DEF Ani!StartViewTransition, AnimFields
    <3> QED
      BY <1>1, <3>1, <3>2, SlotTaken
  <2> QED
    BY <2>1, <2>2, <2>3
<1> QED
  BY <1>2, <1>3, AnimKept

\* A tick samples what runs and ends what ran out.
LEMMA AnimTicks ==
  ASSUME NEW O, NEW M, NEW T, NEW V,
         Ani(O, M, T, V)!Bounds, AnimState(O, object),
         NEW order \in Ani(O, M, T, V)!Orders(Ani(O, M, T, V)!Ended), Ani(O, M, T, V)!Tick(order)
  PROVE  AnimStep(O, object, object')
<1> DEFINE E == Ani(O, M, T, V)!Ended
           n == Cardinality(E)
           over == object.active # Ani(O, M, T, V)!None /\ object.remaining = 1
           F(i) == Ani(O, M, T, V)!Advanced(object.of[i], i \in E)
           of == [i \in DOMAIN object.of |-> F(i)]
           queue == [k \in DOMAIN order |-> object.of[order[k]].resolve]
           ticked == order # <<>>
           active == IF over THEN Ani(O, M, T, V)!None ELSE object.active
           remaining == IF object.remaining = 0 THEN 0 ELSE object.remaining - 1
           finished == IF over THEN [object.finished EXCEPT ![object.active] = TRUE] ELSE object.finished
<1>1. /\ DOMAIN object = AnimFields /\ object.now \in Int /\ object.of \in Seq(Anims(O))
      /\ Promised(object.of, object.told, object.queue) /\ Slotted(object.active, object.finished)
      /\ object.queue = <<>> /\ E \in SUBSET DOMAIN object.of
  BY DEF AnimState, Ani!Tick, Ani!Ended, Ani!Id
<1>2. object' = [object EXCEPT !.of = of, !.queue = queue, !.ticked = ticked, !.active = active,
                   !.remaining = remaining, !.finished = finished]
  <2> HIDE DEF E
  <2>1. Ani(O, M, T, V)!Id = DOMAIN object.of
    BY DEF Ani!Id
  <2> QED
    BY <2>1 DEF Ani!Tick, E
<1>3. Slotted(active, finished)
  BY <1>1, SlotTaken DEF Ani!None
<1> HIDE DEF of, queue, ticked, active, remaining, finished, F
<1>7. /\ DOMAIN object' = AnimFields /\ object'.of = of /\ object'.now = object.now /\ object'.told = object.told
      /\ object'.queue = queue /\ object'.active = active /\ object'.finished = finished
  BY <1>1, <1>2 DEF AnimFields
<1>4. ASSUME NEW i \in DOMAIN object.of
      PROVE  /\ F(i) \in Anims(O) /\ ShownAtEnd(F(i)) /\ PauseHeld(object.of[i], F(i), object.now)
             /\ F(i).reject = object.of[i].reject /\ F(i).live = object.of[i].live
             /\ F(i).resolve = IF i \in E THEN 0 ELSE object.of[i].resolve
  <2> DEFINE a == object.of[i]
             d == a.options.duration
             shown == IF Ani(O, M, T, V)!Sampled(a) THEN Ani(O, M, T, V)!Sample(a) ELSE a.shown
             b == F(i)
             resolve == IF i \in E THEN 0 ELSE a.resolve
             state == IF i \in E THEN "finished" ELSE a.state
             ended == i \in E \/ a.ended
  <2>1. a \in Anims(O) /\ ShownAtEnd(a)
    BY DEF AnimState
  <2>2. b = [a EXCEPT !.shown = shown, !.resolve = resolve, !.state = state, !.ended = ended]
    BY DEF F, Ani!Advanced, Ani!None
  <2>3. i \in E => Ani(O, M, T, V)!Sampled(a) /\ Ani(O, M, T, V)!Post(a) >= 0 /\ Ani(O, M, T, V)!Ends(a)
    BY DEF Ani!Ended
  <2> HIDE DEF E, a, b
  <2>4. /\ a.options \in O /\ a.held \in Int /\ a.start \in Int /\ a.rate \in Int /\ a.shown \in Int
        /\ a.state \in {"running", "paused", "finished"}
    BY <2>1 DEF Anims
  <2>5. d \in Nat \ {0} /\ a.options.delay \in Nat
    BY <2>4 DEF Ani!Bounds
  <2>6. Ani(O, M, T, V)!Post(a) \in Int
    BY <1>1, <2>4, <2>5 DEF Ani!Post, Ani!CurrentTime
  <2>7. Ani(O, M, T, V)!Sample(a) \in Int
    <3> DEFINE t == IF Ani(O, M, T, V)!Ends(a) THEN d ELSE Ani(O, M, T, V)!Post(a) % d
    <3>1. t \in Int
      BY <2>5, <2>6
    <3>2. Ani(O, M, T, V)!Sample(a) = IF Ani(O, M, T, V)!Post(a) < 0 THEN (IF a.options.backwards THEN 0 ELSE a.shown)
                         ELSE IF Ani(O, M, T, V)!GoesForward(a) THEN t ELSE d - t
      BY DEF Ani!Sample
    <3> QED
      BY <2>4, <2>5, <3>1, <3>2
  <2>8. i \in E => /\ a.options.direction = "normal" => shown = d
                   /\ a.options.direction = "reverse" => shown = 0
    <3> HAVE i \in E
    <3>1. shown = IF Ani(O, M, T, V)!GoesForward(a) THEN d ELSE d - d
      BY <2>3, <2>6 DEF Ani!Sample
    <3>2. /\ a.options.direction = "normal" => Ani(O, M, T, V)!GoesForward(a)
          /\ a.options.direction = "reverse" => ~Ani(O, M, T, V)!GoesForward(a)
      BY DEF Ani!GoesForward
    <3> QED
      BY <2>5, <3>1, <3>2
  <2>9. a.state = "finished" => shown = a.shown
    BY DEF Ani!Sampled
  <2>10. shown \in Int /\ resolve \in Nat /\ state \in {"running", "paused", "finished"} /\ ended \in BOOLEAN
    BY <2>1, <2>4, <2>7 DEF Anims
  <2> HIDE DEF shown, resolve, state, ended
  <2>11. b \in Anims(O)
    BY <2>1, <2>2, <2>10 DEF Anims
  <2>12. /\ b.reject = a.reject /\ b.live = a.live /\ b.held = a.held /\ b.options = a.options
         /\ b.resolve = resolve /\ b.shown = shown /\ b.state = state /\ b.ended = ended
    BY <2>1, <2>2 DEF Anims
  <2>13. ShownAtEnd(b)
    BY <2>1, <2>8, <2>9, <2>12 DEF ShownAtEnd, state, ended
  <2>14. PauseHeld(a, b, object.now)
    BY <2>12 DEF PauseHeld, state
  <2> QED
    BY <2>11, <2>12, <2>13, <2>14 DEF a, b, resolve
<1>5. Promised(object'.of, object'.told, object'.queue)
  <2>1. n \in Nat /\ order \in [1..n -> E] /\ \A i \in E : \E k \in 1..n : order[k] = i
    <3>1. IsFiniteSet(DOMAIN object.of)
      <4>1. DOMAIN object.of = 1..Len(object.of) /\ Len(object.of) \in Int /\ 1 \in Int
        BY <1>1
      <4> QED
        BY <4>1, FS_Interval, Zenon
    <3>2. IsFiniteSet(E) /\ n \in Nat
      BY <1>1, <3>1, FS_Subset, FS_CardinalityType
    <3>3. order \in Ani(O, M, T, V)!Bijection(1..n, E)
      BY DEF Ani!Orders, Ani!Cardinality, Cardinality
    <3> QED
      BY <3>2, <3>3 DEF Ani!Bijection, Ani!Injection, Ani!Surjection
  <2> HIDE DEF E, n
  <2>2. queue = [k \in 1..n |-> object.of[order[k]].resolve]
    BY <2>1 DEF queue
  <2>3. \A i \in DOMAIN object.of : object.of[i].resolve \in 0..Len(object.told)
    BY <1>1 DEF Promised
  <2>4. \A k \in 1..n : queue[k] \in 0..Len(object.told)
    BY <1>1, <2>1, <2>2, <2>3
  <2>5. queue \in Seq(0..Len(object.told)) /\ DOMAIN queue = 1..n
    BY <2>1, <2>2, <2>4
  <2>6. Range(queue) = {object.of[i].resolve : i \in E}
    <3>1. ASSUME NEW q \in Range(queue) PROVE q \in {object.of[i].resolve : i \in E}
      BY <2>1, <2>2, <3>1 DEF Range
    <3>2. ASSUME NEW i \in E PROVE object.of[i].resolve \in Range(queue)
      <4>1. PICK k \in 1..n : order[k] = i
        BY <2>1
      <4>2. queue[k] = object.of[i].resolve
        BY <2>2, <4>1
      <4> QED
        BY <2>5, <4>2 DEF Range
    <3> QED
      BY <3>1, <3>2
  <2>7. DOMAIN of = DOMAIN object.of /\ \A i \in DOMAIN object.of : of[i] = F(i)
    BY DEF of
  <2>8. Ticked(object.of, of, E, queue)
    BY <1>1, <1>4, <2>6, <2>7 DEF Ticked
  <2>9. Promised(object.of, object.told, <<>>)
    BY <1>1
  <2>10. Promised(of, object.told, queue)
    BY <2>5, <2>8, <2>9, PromisesTicked
  <2> QED
    BY <1>7, <2>10
<1>6. object'.of = [i \in DOMAIN object.of |-> object'.of[i]] /\ \A i \in DOMAIN object.of : object'.of[i] = F(i)
  BY <1>7 DEF of
<1> QED
  BY <1>3, <1>4, <1>5, <1>6, <1>7, AnimAll

\* Every step of animations and transitions.
LEMMA AnimSteps ==
  ASSUME NEW O, NEW M, NEW T, NEW V,
         Ani(O, M, T, V)!Bounds, AnimState(O, object), Ani(O, M, T, V)!Next
  PROVE  AnimStep(O, object, object')
BY AnimHandles, AnimScripts, AnimGoesOn, AnimTicks DEF Ani!Next, Ani!Script

\* What the state says is what the properties say.
LEMMA AnimTold ==
  ASSUME NEW O, NEW M, NEW T, NEW V,
         AnimState(O, object)
  PROVE  Ani(O, M, T, V)!EndingsTold
<1>1. /\ Promised(object.of, object.told, object.queue) /\ Slotted(object.active, object.finished)
      /\ object.of \in Seq(Anims(O)) /\ \A i \in DOMAIN object.of : ShownAtEnd(object.of[i])
  BY DEF AnimState
<1>2. Ani(O, M, T, V)!Range(object.queue) = Range(object.queue)
  BY DEF Ani!Range, Range
<1>3. ASSUME NEW i \in DOMAIN object.of, object.of[i].ended, object.of[i].live
      PROVE  Ani(O, M, T, V)!EndShown(object.of[i])
  BY <1>1, <1>3 DEF ShownAtEnd, Ani!EndShown
<1>4. object.finished # <<>> => object.finished[Len(object.finished)] \/ object.active = Len(object.finished)
  BY <1>1 DEF Slotted
<1> QED
  BY <1>1, <1>2, <1>3, <1>4 DEF Ani!EndingsTold, Promised, Ani!Id, Ani!None

LEMMA AnimHeld ==
  ASSUME NEW O, NEW M, NEW T, NEW V,
         AnimStep(O, object, object')
  PROVE  Ani(O, M, T, V)!PauseKept
BY DEF AnimStep, PauseHeld, Ani!PauseKept, Ani!Id

----------------------------------------------------------------------------
(* Layout observers. *)

LayStates(O, T, full) ==
  [now : [T -> 0..full], targets : [O -> SUBSET T], last : [O -> [T -> (-1)..full]],
   next : O \cup {0, 1}, calls : BOOLEAN,
   snap : [targets : [O -> SUBSET T], last : [O -> [T -> (-1)..full]]],
   told : [O -> [T -> (-1)..full]], touched : SUBSET O, over : BOOLEAN]

\* What o was told agrees with what it remembers; with what is in view.
Remembers(u, o) == \A t \in u.targets[o] : (u.told[o][t] > 0) = (u.last[o][t] > 0)
InView(u, o) == \A t \in u.targets[o] : (u.told[o][t] > 0) = (u.now[t] > 0)

\* Of an observer no callback interfered with: what it was told is what it remembers, the
\* tick's snapshot is still true of it before it is handled, and afterwards it was told
\* what is in view.
Heeded(u, o) ==
  /\ Remembers(u, o)
  /\ u.next # 0 /\ o >= u.next => u.snap.targets[o] = u.targets[o] /\ u.snap.last[o] = u.last[o]
  /\ u.over \/ (u.next # 0 /\ o < u.next) => InView(u, o)

LaySound(O, R, u) ==
  /\ u.over => u.next = 0
  /\ \A o \in O \ (R \cup u.touched) : Heeded(u, o)

LayInv(O, T, R, full, u) == u \in LayStates(O, T, full) /\ LaySound(O, R, u)

\* What the proofs use of the bounds.
LEMMA LayBounds ==
  ASSUME NEW O, NEW T, NEW R, NEW full,
         Lay(O, T, R, full)!Bounds
  PROVE  /\ full \in Nat /\ (\E n \in Nat : O = 1..n) /\ R \subseteq O
         /\ O \subseteq Int /\ 0 \notin O /\ \A o \in O : o >= 1
<1>1. /\ IsFiniteSet(O) /\ O = 1..Cardinality(O)
      /\ full \in Nat /\ R \subseteq O
  BY Zenon DEF Lay!Bounds, Lay!Cardinality, Lay!IsFiniteSet, Cardinality, IsFiniteSet
<1>2. Cardinality(O) \in Nat
  BY <1>1, FS_CardinalityType
<1> QED
  BY <1>1, <1>2

\* It holds at first.
LEMMA LayFirst ==
  ASSUME NEW O, NEW T, NEW R, NEW full,
         Lay(O, T, R, full)!Bounds, Lay(O, T, R, full)!Init
  PROVE  LayInv(O, T, R, full, object)
<1>1. full \in Nat /\ O \subseteq Int /\ 0 \notin O
  BY LayBounds
<1>2. object \in LayStates(O, T, full)
  BY <1>1 DEF Lay!Init, Lay!Nothing, Lay!None, LayStates
<1>3. LaySound(O, R, object)
  BY <1>1 DEF Lay!Init, Lay!Nothing, Lay!None, LaySound, Heeded, Remembers, InView
<1> QED
  BY <1>2, <1>3 DEF LayInv

\* A target is observed, or not any more.
LEMMA LayScripts ==
  ASSUME NEW O, NEW T, NEW R, NEW full,
         Lay(O, T, R, full)!Bounds, LayInv(O, T, R, full, object),
         NEW o \in O,
         \/ \E t \in T : Lay(O, T, R, full)!Observe(o, t)
         \/ \E ts \in SUBSET object.targets[o] : Lay(O, T, R, full)!Unobserve(o, ts)
  PROVE  LayInv(O, T, R, full, object')
<1> DEFINE u == object
           v == object'
           touched == Lay(O, T, R, full)!touch(o)
<1>t. full \in Nat /\ O \subseteq Int /\ 0 \notin O /\ u \in LayStates(O, T, full) /\ LaySound(O, R, u)
  BY LayBounds DEF LayInv
<1>1. touched = IF u.next = 0 THEN u.touched ELSE u.touched \cup {o}
  BY DEF Lay!touch
<1>2. ASSUME NEW t \in T, Lay(O, T, R, full)!Observe(o, t) PROVE LayInv(O, T, R, full, v)
  <2> DEFINE n == Lay(O, T, R, full)!first(o)
             targets == [u.targets EXCEPT ![o] = @ \cup {t}]
             last == [u.last EXCEPT ![o][t] = n]
             told == [u.told EXCEPT ![o][t] = n]
  <2>1. v = [u EXCEPT !.targets = targets, !.last = last, !.told = told, !.over = FALSE,
                     !.touched = touched]
    BY <1>2, <1>t DEF Lay!Observe, LayStates
  <2>n. n \in 0..full
    BY <1>t DEF Lay!first
  <2> HIDE DEF touched, n
  <2>f. targets \in [O -> SUBSET T] /\ last \in [O -> [T -> (-1)..full]] /\ told \in [O -> [T -> (-1)..full]]
    BY <2>n, <1>t DEF LayStates
  <2>g. /\ \A p \in O : p # o => targets[p] = u.targets[p] /\ last[p] = u.last[p] /\ told[p] = u.told[p]
        /\ targets[o] = u.targets[o] \cup {t} /\ last[o][t] = n /\ told[o][t] = n
        /\ \A q \in T : q # t => last[o][q] = u.last[o][q] /\ told[o][q] = u.told[o][q]
    BY <2>n, <1>t DEF LayStates
  <2>h. touched \in SUBSET O
    BY <1>1, <1>t DEF LayStates
  <2> HIDE DEF targets, last, told
  <2>2. v \in LayStates(O, T, full)
    BY <2>1, <2>f, <2>h, <1>t DEF LayStates
  <2>3. /\ v.now = u.now /\ v.next = u.next /\ v.snap = u.snap /\ ~v.over /\ v.touched = touched
        /\ \A p \in O : p # o => v.targets[p] = u.targets[p] /\ v.last[p] = u.last[p] /\ v.told[p] = u.told[p]
        /\ v.targets[o] = u.targets[o] \cup {t}
        /\ v.last[o][t] = n /\ v.told[o][t] = n
        /\ \A q \in T : q # t => v.last[o][q] = u.last[o][q] /\ v.told[o][q] = u.told[o][q]
    BY <2>1, <2>g, <1>t DEF LayStates
  <2>4. ASSUME NEW p \in O \ (R \cup touched) PROVE Heeded(v, p)
    <3>1. Heeded(u, p)
      BY <1>t, <1>1 DEF LaySound
    <3>2. CASE p # o
      BY <3>1, <3>2, <2>3 DEF Heeded, Remembers, InView
    <3>3. CASE p = o
      <4>1. u.next = 0
        BY <1>1, <3>3
      <4>2. u.targets[o] \subseteq T
        BY <1>t DEF LayStates
      <4> QED
        BY <3>1, <3>3, <4>1, <4>2, <2>3 DEF Heeded, Remembers
    <3> QED
      BY <3>2, <3>3
  <2>5. LaySound(O, R, v)
    BY <2>3, <2>4 DEF LaySound
  <2> QED
    BY <2>2, <2>5 DEF LayInv
<1>3. ASSUME NEW ts \in SUBSET u.targets[o], Lay(O, T, R, full)!Unobserve(o, ts) PROVE LayInv(O, T, R, full, v)
  <2> DEFINE targets == [u.targets EXCEPT ![o] = @ \ ts]
             gone == [t \in T |-> IF t \in ts THEN -1 ELSE u.told[o][t]]
             told == [u.told EXCEPT ![o] = gone]
  <2>1. v = [u EXCEPT !.targets = targets, !.touched = touched, !.told = told]
    BY <1>3, <1>t DEF Lay!Unobserve, Lay!None, LayStates
  <2>n. gone \in [T -> (-1)..full] /\ \A q \in T \ ts : gone[q] = u.told[o][q]
    BY <1>t DEF LayStates
  <2> HIDE DEF touched, gone
  <2>g. /\ targets \in [O -> SUBSET T] /\ told \in [O -> [T -> (-1)..full]]
        /\ \A p \in O : p # o => targets[p] = u.targets[p] /\ told[p] = u.told[p]
        /\ targets[o] = u.targets[o] \ ts /\ told[o] = gone
    BY <2>n, <1>t DEF LayStates
  <2>h. touched \in SUBSET O
    BY <1>1, <1>t DEF LayStates
  <2> HIDE DEF targets, told
  <2>2. v \in LayStates(O, T, full)
    BY <2>1, <2>g, <2>h, <1>t DEF LayStates
  <2>3. /\ v.now = u.now /\ v.next = u.next /\ v.snap = u.snap /\ v.over = u.over
        /\ v.touched = touched /\ v.last = u.last
        /\ \A p \in O : p # o => v.targets[p] = u.targets[p] /\ v.told[p] = u.told[p]
        /\ v.targets[o] = u.targets[o] \ ts
        /\ \A q \in T \ ts : v.told[o][q] = u.told[o][q]
    BY <2>1, <2>n, <2>g, <1>t DEF LayStates
  <2>4. ASSUME NEW p \in O \ (R \cup touched) PROVE Heeded(v, p)
    <3>1. Heeded(u, p)
      BY <1>t, <1>1 DEF LaySound
    <3>2. CASE p # o
      BY <3>1, <3>2, <2>3 DEF Heeded, Remembers, InView
    <3>3. CASE p = o
      <4>1. u.next = 0
        BY <1>1, <3>3
      <4>2. u.targets[o] \subseteq T
        BY <1>t DEF LayStates
      <4> QED
        BY <3>1, <3>3, <4>1, <4>2, <2>3 DEF Heeded, Remembers, InView
    <3> QED
      BY <3>2, <3>3
  <2>5. LaySound(O, R, v)
    BY <2>3, <2>4, <1>t DEF LaySound
  <2> QED
    BY <2>2, <2>5 DEF LayInv
<1> QED
  BY <1>2, <1>3

\* A tick starts with what is.
LEMMA LayStarts ==
  ASSUME NEW O, NEW T, NEW R, NEW full,
         Lay(O, T, R, full)!Bounds, LayInv(O, T, R, full, object), Lay(O, T, R, full)!Layout
  PROVE  LayInv(O, T, R, full, object')
<1> DEFINE u == object
           v == object'
<1>t. full \in Nat /\ u \in LayStates(O, T, full) /\ LaySound(O, R, u)
  BY LayBounds DEF LayInv
<1>1. PICK now \in [T -> 0..full] :
        v = [u EXCEPT !.now = now, !.next = 1, !.calls = FALSE, !.over = FALSE,
                      !.snap = [targets |-> u.targets, last |-> u.last]]
  BY DEF Lay!Layout
<1>2. /\ v.now = now /\ v.next = 1 /\ ~v.over /\ v.targets = u.targets /\ v.last = u.last
      /\ v.told = u.told /\ v.touched = u.touched /\ v.snap.targets = u.targets /\ v.snap.last = u.last
  BY <1>1, <1>t DEF LayStates
<1>3. v \in LayStates(O, T, full)
  BY <1>1, <1>t DEF LayStates
<1>4. ASSUME NEW p \in O \ (R \cup v.touched) PROVE Heeded(v, p)
  <2>1. Remembers(u, p)
    BY <1>2, <1>4, <1>t DEF LaySound, Heeded
  <2>2. p \in Int /\ p >= 1
    BY LayBounds
  <2> QED
    BY <1>2, <1>t, <2>1, <2>2 DEF Heeded, Remembers
<1>5. LaySound(O, R, v)
  BY <1>2, <1>4 DEF LaySound
<1> QED
  BY <1>3, <1>5 DEF LayInv

\* The numbers of one who has nothing to tell are in view as those last told.
LEMMA LayDiffers ==
  ASSUME NEW O, NEW T, NEW R, NEW full, NEW o \in O, o \notin R, NEW prev \in Int, NEW curr \in Int,
         ~Lay(O, T, R, full)!Differs(o, prev, curr)
  PROVE  (prev > 0) = (curr > 0)
  BY DEF Lay!Differs

\* The tick handles one observer.
LEMMA LayTicks ==
  ASSUME NEW O, NEW T, NEW R, NEW full,
         Lay(O, T, R, full)!Bounds, LayInv(O, T, R, full, object), Lay(O, T, R, full)!Tick
  PROVE  LayInv(O, T, R, full, object')
<1> DEFINE u == object
           v == object'
           o == u.next
           seen == u.snap.targets[o]
           fire == {t \in seen : Lay(O, T, R, full)!Differs(o, u.snap.last[o][t], u.now[t])}
           then == IF o + 1 \in O THEN o + 1 ELSE 0
           last == IF fire = {} THEN u.last[o]
                   ELSE [t \in T |-> IF t \in seen THEN u.now[t] ELSE u.snap.last[o][t]]
           told == [t \in T |-> IF t \in fire THEN u.now[t] ELSE u.told[o][t]]
           snap == IF then = 0
                   THEN [targets |-> [i \in O |-> {}], last |-> [i \in O |-> [t \in T |-> -1]]]
                   ELSE u.snap
<1>t. /\ full \in Nat /\ u \in LayStates(O, T, full) /\ LaySound(O, R, u) 
      /\ R \subseteq O /\ \E n \in Nat : O = 1..n
  BY LayBounds DEF LayInv
<1>1. /\ v = [u EXCEPT !.next = then, !.over = (then = 0), !.calls = (then # 0 /\ fire # {}),
                       !.snap = snap, !.last[o] = last,
                       !.told[o] = [t \in T |-> IF t \in fire THEN u.now[t] ELSE @[t]]]
      /\ u.next # 0
  BY DEF Lay!Tick, Lay!Nothing, Lay!None
<1>s. u.over = FALSE
  BY <1>1, <1>t DEF LaySound, LayStates
<1>2. CASE O = {}
  <2> DEFINE b == (then # 0 /\ fire # {})
  <2>1. then = 0
    BY <1>2
  <2>2. snap \in [targets : [O -> SUBSET T], last : [O -> [T -> (-1)..full]]]
    BY <1>2, <2>1
  <2>b. b \in BOOLEAN
    OBVIOUS
  <2> HIDE DEF b, fire, snap
  <2>3. v.next = 0
    BY <1>1, <2>1, <1>t DEF LayStates
  <2>4. v \in LayStates(O, T, full)
    <3> DEFINE last2 == v.last
               told2 == v.told
    <3>1. v = [now |-> u.now, targets |-> u.targets, last |-> last2, next |-> 0, calls |-> b,
               snap |-> snap, told |-> told2, touched |-> u.touched, over |-> TRUE]
      BY <1>1, <2>1, <1>t DEF LayStates, b
    <3>2. last2 \in [O -> [T -> (-1)..full]] /\ told2 \in [O -> [T -> (-1)..full]]
      BY <1>1, <1>2, <1>t DEF LayStates
    <3>3. u.now \in [T -> 0..full] /\ u.targets \in [O -> SUBSET T] /\ u.touched \in SUBSET O
      BY <1>t DEF LayStates
    <3> HIDE DEF last2, told2
    <3> QED
      BY <2>b, <2>2, <3>1, <3>2, <3>3 DEF LayStates
  <2> QED
    BY <1>2, <2>3, <2>4 DEF LayInv, LaySound
<1>3. CASE O # {}
  <2>1. o \in O /\ o \in Nat /\ then \in O \cup {0} /\ O \subseteq Nat
    BY <1>1, <1>3, <1>t DEF LayStates
  <2>2. /\ seen \subseteq T /\ fire \subseteq seen
        /\ u.snap.last[o] \in [T -> (-1)..full] /\ u.now \in [T -> 0..full]
        /\ u.last[o] \in [T -> (-1)..full] /\ u.told[o] \in [T -> (-1)..full]
    BY <2>1, <1>t DEF LayStates
  <2>3. /\ \A p \in O : p # o /\ then # 0 => ((p < then) <=> (p < o)) /\ ((p >= then) <=> (p >= o))
        /\ then # 0 => ~(o >= then)
    BY <2>1, <1>t
  <2> HIDE DEF seen, fire, then
  <2>4. last \in [T -> (-1)..full] /\ told \in [T -> (-1)..full]
    <3>1. 0..full \subseteq (-1)..full
      BY <1>t
    <3> QED
      BY <2>2, <3>1
  <2>5. snap \in [targets : [O -> SUBSET T], last : [O -> [T -> (-1)..full]]]
    <3>1. -1 \in (-1)..full
      BY <1>t
    <3> QED
      BY <3>1, <1>t DEF LayStates
  <2>6. snap = u.snap \/ then = 0
    OBVIOUS
  <2>7. /\ told = [t \in T |-> IF t \in fire THEN u.now[t] ELSE u.told[o][t]]
        /\ fire = {} => last = u.last[o]
        /\ fire # {} => last = [t \in T |-> IF t \in seen THEN u.now[t] ELSE u.snap.last[o][t]]
    OBVIOUS
  <2>8. v = [u EXCEPT !.next = then, !.over = (then = 0), !.calls = (then # 0 /\ fire # {}),
                     !.snap = snap, !.last[o] = last, !.told[o] = told]
    BY <1>1, <2>1, <1>t DEF LayStates
  <2> HIDE DEF last, told, snap
  <2>9. v \in LayStates(O, T, full)
    BY <2>1, <2>4, <2>5, <2>8, <1>t DEF LayStates
  <2>10. /\ v.now = u.now /\ v.targets = u.targets /\ v.touched = u.touched
         /\ v.next = then /\ v.snap = snap /\ v.over = (then = 0)
         /\ v.last[o] = last /\ v.told[o] = told
         /\ \A p \in O : p # o => v.last[p] = u.last[p] /\ v.told[p] = u.told[p]
    BY <2>8, <1>t, <2>1 DEF LayStates
  <2>11. ASSUME NEW p \in O \ (R \cup v.touched) PROVE Heeded(v, p)
    <3>1. Heeded(u, p)
      BY <2>10, <1>t DEF LaySound
    <3>2. CASE p # o
      <4>1. then = 0 => p < o
        BY <2>1, <3>2, <1>t DEF then
      <4>2. v.targets = u.targets /\ v.now = u.now /\ v.last[p] = u.last[p] /\ v.told[p] = u.told[p]
        BY <2>10, <3>2
      <4>3. Remembers(v, p)
        BY <3>1, <4>2 DEF Heeded, Remembers
      <4>4. v.next # 0 /\ p >= v.next => v.snap.targets[p] = v.targets[p] /\ v.snap.last[p] = v.last[p]
        BY <3>1, <3>2, <4>2, <1>1, <2>3, <2>6, <2>10 DEF Heeded
      <4>5. v.over \/ (v.next # 0 /\ p < v.next) => InView(v, p)
        <5>1. v.over \/ (v.next # 0 /\ p < v.next) => p < o
          BY <4>1, <3>2, <2>3, <2>10
        <5>2. p < o => InView(u, p)
          BY <3>1, <1>1 DEF Heeded
        <5> QED
          BY <5>1, <5>2, <4>2 DEF InView
      <4> QED
        BY <4>3, <4>4, <4>5 DEF Heeded
    <3>3. CASE p = o
      <4>1. seen = u.targets[o] /\ u.snap.last[o] = u.last[o] /\ Remembers(u, o)
        BY <3>1, <3>3, <2>1, <1>1 DEF Heeded, seen
      <4>2. ASSUME NEW t \in seen, t \notin fire
            PROVE  (u.last[o][t] > 0) = (u.now[t] > 0)
        <5>1. ~Lay(O, T, R, full)!Differs(o, u.last[o][t], u.now[t])
          BY <4>1, <4>2 DEF fire
        <5>2. u.last[o][t] \in Int /\ u.now[t] \in Int
          BY <2>2, <4>2, <1>t
        <5> QED
          BY <2>11, <3>3, <5>1, <5>2, LayDiffers
      <4>3. \A t \in seen : (told[t] > 0) = (u.now[t] > 0)
        BY <4>1, <4>2, <2>2, <2>7 DEF Remembers
      <4>4. \A t \in seen : (last[t] > 0) = (u.now[t] > 0)
        BY <4>1, <4>2, <2>2, <2>7
      <4> QED
        BY <3>3, <4>1, <4>3, <4>4, <2>3, <2>10 DEF Heeded, Remembers, InView
    <3> QED
      BY <3>2, <3>3
  <2>12. LaySound(O, R, v)
    BY <2>10, <2>11 DEF LaySound
  <2> QED
    BY <2>9, <2>12 DEF LayInv
<1> QED
  BY <1>2, <1>3

\* Every step keeps it.
LEMMA LaySteps ==
  ASSUME NEW O, NEW T, NEW R, NEW full,
         Lay(O, T, R, full)!Bounds, LayInv(O, T, R, full, object), Lay(O, T, R, full)!Next
  PROVE  LayInv(O, T, R, full, object')
  BY LayScripts, LayStarts, LayTicks DEF Lay!Next

\* It says what has been told.
LEMMA LayTold ==
  ASSUME NEW O, NEW T, NEW R, NEW full, LayInv(O, T, R, full, object)
  PROVE  Lay(O, T, R, full)!ToldInView
  BY DEF LayInv, LaySound, Heeded, InView, Lay!ToldInView

----------------------------------------------------------------------------
(* Requests. *)

XhrEvents == {"readystatechange", "load", "error", "abort"}
XhrCalls == [of : 0..MaxSends, told : Seq(XhrEvents)]
XhrStates ==
  [state : Int, status : 0..MaxSends, text : 0..MaxSends, aborted : BOOLEAN, calls : Seq(XhrCalls),
   sent : 0..MaxSends, ended : [1..MaxSends -> Seq(XhrEvents)]]

\* Each send is of one call at most, which has yet to tell how it ended or has told it once;
\* a send that is of none was told.
Sends(calls, ended, sent) ==
  /\ \A i \in DOMAIN calls : calls[i].of <= sent
  /\ \A i, j \in DOMAIN calls : i # j /\ calls[i].of = calls[j].of => calls[i].of = 0
  /\ \A i \in DOMAIN calls : calls[i].of # 0 =>
       /\ calls[i].told = <<>> => Len(ended[calls[i].of]) = 1
       /\ calls[i].told # <<>> => ended[calls[i].of] = <<>>
  /\ \A s \in 1..sent : Len(ended[s]) = 1 \/ ended[s] = <<>>
  /\ \A s \in 1..sent : ended[s] = <<>> => \E i \in DOMAIN calls : calls[i].of = s
  /\ \A s \in 1..MaxSends : s > sent => ended[s] = <<>>

XhrInv ==
  /\ object \in XhrStates
  /\ object.status # 0 => object.text = object.status
  /\ Sends(object.calls, object.ended, object.sent)

\* One more call, of no send or of a new one.
LEMMA SendsCalled ==
  ASSUME NEW calls \in Seq(XhrCalls), NEW ended \in [1..MaxSends -> Seq(XhrEvents)], NEW sent \in Nat,
         Sends(calls, ended, sent), NEW told, told # <<>>, NEW of \in 0..MaxSends, NEW sent2,
         \/ of = 0 /\ sent2 = sent
         \/ of = sent + 1 /\ sent2 = sent + 1,
         NEW c \in XhrCalls, c.of = of, c.told = told, MaxSends \in Nat
  PROVE  Sends(<<c>> \o calls, ended, sent2)
<1> DEFINE calls2 == <<c>> \o calls
<1>1. /\ 1 \in DOMAIN calls2 /\ calls2[1] = c
      /\ \A n \in DOMAIN calls : n + 1 \in DOMAIN calls2 /\ calls2[n + 1] = calls[n]
      /\ \A n \in DOMAIN calls2 : n = 1 \/ (n - 1 \in DOMAIN calls /\ calls2[n] = calls[n - 1])
      /\ DOMAIN calls2 \subseteq Int /\ DOMAIN calls \subseteq Int
  BY InFront
<1> HIDE DEF calls2
<1>2. \A n \in DOMAIN calls : calls[n].of \in Int /\ calls[n].of <= sent
  <2>1. \A n \in DOMAIN calls : calls[n] \in XhrCalls
    OBVIOUS
  <2> QED
    BY <2>1 DEF Sends, XhrCalls
<1>3. sent2 \in Nat /\ sent <= sent2 /\ of <= sent2
  OBVIOUS
<1>4. \A i \in DOMAIN calls2 : calls2[i].of <= sent2
  BY <1>1, <1>2, <1>3
<1>5. ASSUME NEW i \in DOMAIN calls2, NEW j \in DOMAIN calls2, i # j, calls2[i].of = calls2[j].of
      PROVE  calls2[i].of = 0
  <2>1. \A n \in DOMAIN calls : calls[n].of = of => of = 0
    BY <1>2
  <2>2. CASE i = 1 \/ j = 1
    BY <1>1, <1>5, <2>1, <2>2
  <2>3. CASE i # 1 /\ j # 1
    <3> DEFINE n == i - 1
               m == j - 1
    <3>1. n \in DOMAIN calls /\ m \in DOMAIN calls /\ calls2[i] = calls[n] /\ calls2[j] = calls[m]
      BY <1>1, <2>3
    <3>2. n # m
      BY <1>1, <1>5
    <3> HIDE DEF n, m
    <3> QED
      BY <1>5, <3>1, <3>2 DEF Sends
  <2> QED
    BY <2>2, <2>3
<1>6. of # 0 => ended[of] = <<>>
  BY DEF Sends
<1>7. \A i \in DOMAIN calls2 : calls2[i].of # 0 =>
       /\ calls2[i].told = <<>> => Len(ended[calls2[i].of]) = 1
       /\ calls2[i].told # <<>> => ended[calls2[i].of] = <<>>
  <2>1. \A n \in DOMAIN calls : calls[n].of # 0 =>
         /\ calls[n].told = <<>> => Len(ended[calls[n].of]) = 1
         /\ calls[n].told # <<>> => ended[calls[n].of] = <<>>
    BY DEF Sends
  <2> QED
    BY <1>1, <1>6, <2>1
<1>8. \A s \in 1..sent2 : s \in 1..sent \/ s = of
  OBVIOUS
<1>9. \A s \in 1..sent2 : Len(ended[s]) = 1 \/ ended[s] = <<>>
  BY <1>6, <1>8 DEF Sends
<1>10. ASSUME NEW s \in 1..sent2, ended[s] = <<>> PROVE \E i \in DOMAIN calls2 : calls2[i].of = s
  <2>1. CASE s = of
    BY <1>1, <2>1
  <2>2. CASE s \in 1..sent
    <3>1. PICK n \in DOMAIN calls : calls[n].of = s
      BY <1>10, <2>2 DEF Sends
    <3>2. n + 1 \in DOMAIN calls2 /\ calls2[n + 1] = calls[n]
      BY <1>1
    <3> QED
      BY <3>1, <3>2
  <2> QED
    BY <1>8, <2>1, <2>2
<1>11. \A s \in 1..MaxSends : s > sent2 => ended[s] = <<>>
  BY <1>3 DEF Sends
<1>12. Sends(calls2, ended, sent2)
  BY <1>4, <1>5, <1>7, <1>9, <1>10, <1>11 DEF Sends
<1> QED
  BY <1>12 DEF calls2

\* The innermost call returns.
LEMMA SendsReturned ==
  ASSUME NEW calls \in Seq(XhrCalls), NEW ended, NEW sent,
         Sends(calls, ended, sent), calls # <<>>, Head(calls).told = <<>>
  PROVE  Sends(Tail(calls), ended, sent)
<1> DEFINE rest == Tail(calls)
<1>1. /\ Head(calls) = calls[1] /\ 1 \in DOMAIN calls
      /\ \A n \in DOMAIN rest : n + 1 \in DOMAIN calls /\ rest[n] = calls[n + 1]
      /\ \A n \in DOMAIN calls : n = 1 \/ (n - 1 \in DOMAIN rest /\ rest[n - 1] = calls[n])
      /\ DOMAIN rest \subseteq Int
  BY Behind
<1> HIDE DEF rest
<1>2. \A s \in 1..sent : ended[s] = <<>> => \E i \in DOMAIN rest : rest[i].of = s
  <2> SUFFICES ASSUME NEW s \in 1..sent, ended[s] = <<>> PROVE \E i \in DOMAIN rest : rest[i].of = s
    OBVIOUS
  <2>1. PICK i \in DOMAIN calls : calls[i].of = s
    BY DEF Sends
  <2>2. i # 1
    <3>1. s # 0
      OBVIOUS
    <3>2. Len(ended[s]) # 1
      OBVIOUS
    <3>3. calls[1].of # 0 => (calls[1].told = <<>> => Len(ended[calls[1].of]) = 1)
      BY <1>1 DEF Sends
    <3>4. calls[1].told = <<>>
      BY <1>1
    <3> QED
      BY <2>1, <3>1, <3>2, <3>3, <3>4
  <2>3. i - 1 \in DOMAIN rest /\ rest[i - 1] = calls[i]
    BY <1>1, <2>2
  <2> QED
    BY <2>1, <2>3
<1>3. ASSUME NEW i \in DOMAIN rest, NEW j \in DOMAIN rest, i # j, rest[i].of = rest[j].of
      PROVE  rest[i].of = 0
  <2> DEFINE n == i + 1
             m == j + 1
  <2>1. n \in DOMAIN calls /\ m \in DOMAIN calls /\ rest[i] = calls[n] /\ rest[j] = calls[m]
    BY <1>1
  <2>2. n # m
    BY <1>1, <1>3
  <2> HIDE DEF n, m
  <2> QED
    BY <1>3, <2>1, <2>2 DEF Sends
<1>4. /\ \A i \in DOMAIN rest : rest[i].of <= sent
      /\ \A i \in DOMAIN rest : rest[i].of # 0 =>
           /\ rest[i].told = <<>> => Len(ended[rest[i].of]) = 1
           /\ rest[i].told # <<>> => ended[rest[i].of] = <<>>
  BY <1>1 DEF Sends
<1>5. Sends(rest, ended, sent)
  BY <1>2, <1>3, <1>4 DEF Sends
<1> QED
  BY <1>5 DEF rest

\* The innermost call runs its next handler; the last one tells how a send ended.
LEMMA SendsTold ==
  ASSUME NEW calls \in Seq(XhrCalls), NEW ended \in [1..MaxSends -> Seq(XhrEvents)], NEW sent \in 0..MaxSends,
         MaxSends \in Nat, Sends(calls, ended, sent), calls # <<>>, Head(calls).told # <<>>,
         NEW c, c = Head(calls), NEW e \in XhrEvents, NEW calls2, NEW ended2,
         calls2 = [calls EXCEPT ![1].told = Tail(@)],
         ended2 = IF c.of \in 1..MaxSends /\ Len(c.told) = 1 THEN [ended EXCEPT ![c.of] = Append(@, e)] ELSE ended
  PROVE  ended2 \in [1..MaxSends -> Seq(XhrEvents)] /\ Sends(calls2, ended2, sent)
<1>1. /\ c = calls[1] /\ 1 \in DOMAIN calls /\ c.of \in 0..MaxSends /\ c.told \in Seq(XhrEvents)
      /\ c.told # <<>>
  <2>1. c = calls[1] /\ 1 \in DOMAIN calls /\ c \in XhrCalls
    BY Behind
  <2> QED
    BY <2>1 DEF XhrCalls
<1>2. /\ DOMAIN calls2 = DOMAIN calls
      /\ \A i \in DOMAIN calls : calls2[i].of = calls[i].of
      /\ \A i \in DOMAIN calls : i # 1 => calls2[i].told = calls[i].told
      /\ calls2[1].told = Tail(c.told)
  <2>1. \A i \in DOMAIN calls : calls[i] \in XhrCalls
    OBVIOUS
  <2> QED
    BY <1>1, <2>1 DEF XhrCalls
<1>3. /\ Len(c.told) = 1 => Tail(c.told) = <<>>
      /\ Len(c.told) # 1 => Tail(c.told) # <<>>
  <2> DEFINE told == c.told
  <2>1. told \in Seq(XhrEvents) /\ told # <<>>
    BY <1>1
  <2> HIDE DEF told
  <2>2. Tail(told) \in Seq(XhrEvents) /\ Len(Tail(told)) = Len(told) - 1 /\ Len(told) \in Nat
    BY <2>1, Behind
  <2>3. /\ Len(told) = 1 => Tail(told) = <<>>
        /\ Len(told) # 1 => Tail(told) # <<>>
    <3> DEFINE rest == Tail(told)
    <3>1. rest \in Seq(XhrEvents) /\ Len(rest) = Len(told) - 1 /\ Len(told) \in Nat
      BY <2>2
    <3> HIDE DEF rest
    <3>2. rest # <<>> => Len(rest) # 0
      BY <3>1, Behind
    <3>3. rest = <<>> => Len(rest) = 0
      OBVIOUS
    <3>4. /\ Len(told) = 1 => rest = <<>>
          /\ Len(told) # 1 => rest # <<>>
      BY <3>1, <3>2, <3>3
    <3> QED
      BY <3>4 DEF rest
  <2> QED
    BY <2>3 DEF told
<1>4. \A i \in DOMAIN calls : i # 1 /\ c.of # 0 => calls[i].of # c.of
  BY <1>1 DEF Sends
<1>5. c.of # 0 => ended[c.of] = <<>> /\ c.of \in 1..sent
  BY <1>1 DEF Sends
<1>6. /\ \A s \in 1..MaxSends : s # c.of => ended2[s] = ended[s]
      /\ c.of # 0 /\ Len(c.told) = 1 => Len(ended2[c.of]) = 1 /\ ended2[c.of] # <<>>
      /\ c.of = 0 \/ Len(c.told) # 1 => ended2 = ended
      /\ ended2 \in [1..MaxSends -> Seq(XhrEvents)]
  <2>1. CASE c.of # 0 /\ Len(c.told) = 1
    <3>1. c.of \in 1..MaxSends
      BY <1>1, <2>1
    <3>2. ended2 = [ended EXCEPT ![c.of] = Append(@, e)]
      BY <2>1, <3>1
    <3>3. Append(<<>>, e) \in Seq(XhrEvents) /\ Len(Append(<<>>, e)) = 1 /\ Append(<<>>, e) # <<>>
      OBVIOUS
    <3> QED
      BY <1>5, <2>1, <3>1, <3>2, <3>3
  <2>2. CASE c.of = 0 \/ Len(c.told) # 1
    BY <1>1, <2>2
  <2> QED
    BY <2>1, <2>2
<1>7. \A i \in DOMAIN calls : calls[i].of # 0 => calls[i].of \in 1..MaxSends
  <2>1. \A i \in DOMAIN calls : calls[i] \in XhrCalls
    OBVIOUS
  <2> QED
    BY <2>1 DEF XhrCalls
<1>8. ASSUME NEW i \in DOMAIN calls2, calls2[i].of # 0
      PROVE  /\ calls2[i].told = <<>> => Len(ended2[calls2[i].of]) = 1
             /\ calls2[i].told # <<>> => ended2[calls2[i].of] = <<>>
  <2>1. CASE i = 1
    BY <1>1, <1>2, <1>3, <1>5, <1>6, <1>8, <2>1
  <2>2. CASE i # 1
    <3>1. ended2[calls[i].of] = ended[calls[i].of]
      BY <1>2, <1>4, <1>6, <1>7, <1>8, <2>2
    <3> QED
      BY <1>2, <1>8, <2>2, <3>1 DEF Sends
  <2> QED
    BY <2>1, <2>2
<1>9. ASSUME NEW s \in 1..sent
      PROVE  /\ Len(ended2[s]) = 1 \/ ended2[s] = <<>>
             /\ ended2[s] = <<>> => \E i \in DOMAIN calls2 : calls2[i].of = s
  <2>1. s \in 1..MaxSends
    OBVIOUS
  <2>2. \/ Len(ended2[s]) = 1 /\ ended2[s] # <<>>
        \/ ended2[s] = ended[s]
    BY <1>6, <2>1
  <2> QED
    BY <1>2, <2>2 DEF Sends
<1>10. \A s \in 1..MaxSends : s > sent => ended2[s] = <<>>
  BY <1>5, <1>6 DEF Sends
<1>11. /\ \A i \in DOMAIN calls2 : calls2[i].of <= sent
       /\ \A i, j \in DOMAIN calls2 : i # j /\ calls2[i].of = calls2[j].of => calls2[i].of = 0
  BY <1>2 DEF Sends
<1>12. Sends(calls2, ended2, sent)
  BY <1>8, <1>9, <1>10, <1>11 DEF Sends
<1> QED
  BY <1>6, <1>12

\* It holds at first.
LEMMA XhrFirst == ASSUME MaxSends \in Nat, XR!Init PROVE XhrInv
  BY DEF XR!Init, XR!None, XR!UNSENT, XhrInv, XhrStates, Sends

\* A call from a script or a handler.
LEMMA XhrCalled ==
  ASSUME MaxSends \in Nat, NEW x \in XhrStates, NEW y \in XhrStates, y.calls = x.calls, y.ended = x.ended,
         y.status # 0 => y.text = y.status, Sends(x.calls, x.ended, x.sent),
         NEW of \in 0..MaxSends, NEW told \in Seq(XhrEvents), told # <<>>,
         \/ of = 0 /\ y.sent = x.sent
         \/ of = x.sent + 1 /\ y.sent = x.sent + 1,
         object' = XR!Call(y, of, told)
  PROVE  XhrInv'
<1> DEFINE c == [of |-> of, told |-> told]
           calls == <<c>> \o x.calls
<1>1. c \in XhrCalls /\ c.of = of /\ c.told = told
  BY DEF XhrCalls
<1>2. x.calls \in Seq(XhrCalls) /\ x.sent \in Nat /\ x.ended \in [1..MaxSends -> Seq(XhrEvents)]
  BY DEF XhrStates
<1>3. object' = [y EXCEPT !.calls = calls]
  BY DEF XR!Call
<1> HIDE DEF c
<1>4. calls \in Seq(XhrCalls)
  BY <1>1, <1>2
<1>5. Sends(calls, x.ended, y.sent)
  BY <1>1, <1>2, SendsCalled
<1> HIDE DEF calls
<1>6. /\ object' \in XhrStates /\ object'.status = y.status /\ object'.text = y.text
      /\ object'.calls = calls /\ object'.ended = x.ended /\ object'.sent = y.sent
  BY <1>3, <1>4 DEF XhrStates
<1> QED
  BY <1>5, <1>6 DEF XhrInv

\* Every step keeps it.
LEMMA XhrSteps == ASSUME XR!Bounds, XhrInv, XR!Next PROVE XhrInv'
<1> DEFINE x == object
<1>t. /\ MaxSends \in Nat /\ x \in XhrStates /\ Sends(x.calls, x.ended, x.sent)
      /\ x.status # 0 => x.text = x.status
  BY DEF XR!Bounds, XhrInv
<1>f. /\ x.state \in Int /\ x.status \in 0..MaxSends /\ x.text \in 0..MaxSends /\ x.sent \in 0..MaxSends
      /\ x.aborted \in BOOLEAN /\ x.calls \in Seq(XhrCalls) /\ x.ended \in [1..MaxSends -> Seq(XhrEvents)]
  BY <1>t DEF XhrStates
<1>n. 0 \in 0..MaxSends /\ XR!OPENED \in Int /\ XR!DONE \in Int
  BY <1>t DEF XR!OPENED, XR!DONE
<1>e. /\ <<"readystatechange">> \in Seq(XhrEvents) /\ <<"readystatechange">> # <<>>
      /\ <<"readystatechange", "load">> \in Seq(XhrEvents) /\ <<"readystatechange", "load">> # <<>>
      /\ <<"readystatechange", "error">> \in Seq(XhrEvents) /\ <<"readystatechange", "error">> # <<>>
      /\ <<"readystatechange", "abort">> \in Seq(XhrEvents) /\ <<"readystatechange", "abort">> # <<>>
  BY DEF XhrEvents
<1>c. ASSUME NEW state \in Int, NEW status \in 0..MaxSends, NEW text \in 0..MaxSends, NEW sent \in 0..MaxSends,
             NEW aborted \in BOOLEAN, NEW of \in 0..MaxSends, NEW told \in Seq(XhrEvents), told # <<>>,
             NEW y, y = [x EXCEPT !.state = state, !.status = status, !.text = text, !.aborted = aborted, !.sent = sent],
             status # 0 => text = status, (of = 0 /\ sent = x.sent) \/ (of = x.sent + 1 /\ sent = x.sent + 1),
             object' = XR!Call(y, of, told)
      PROVE  XhrInv'
  <2> HIDE DEF x
  <2>1. /\ y \in XhrStates /\ y.calls = x.calls /\ y.ended = x.ended
        /\ y.status = status /\ y.text = text /\ y.sent = sent
    BY <1>t, <1>c DEF XhrStates
  <2> QED
    BY <1>t, <1>c, <2>1, XhrCalled
<1>1. CASE XR!Open
  <2> DEFINE y == [x EXCEPT !.state = XR!OPENED, !.status = x.status, !.text = x.text, !.aborted = FALSE, !.sent = x.sent]
  <2>1. object' = XR!Call([x EXCEPT !.state = XR!OPENED, !.aborted = FALSE], 0, <<"readystatechange">>)
    BY <1>1 DEF XR!Open, XR!None
  <2>2. [x EXCEPT !.state = XR!OPENED, !.aborted = FALSE] = y
    BY <1>t DEF XhrStates
  <2> HIDE DEF x
  <2>3. object' = XR!Call(y, 0, <<"readystatechange">>)
    BY <2>1, <2>2
  <2> HIDE DEF y
  <2>4. y = [x EXCEPT !.state = XR!OPENED, !.status = x.status, !.text = x.text, !.aborted = FALSE, !.sent = x.sent]
    BY DEF y
  <2> QED
    BY <1>t, <1>f, <1>n, <1>e, <2>3, <2>4, <1>c
<1>2. CASE XR!Answered
  <2> DEFINE s == x.sent + 1
             y == [x EXCEPT !.state = XR!DONE, !.status = s, !.text = s, !.aborted = x.aborted, !.sent = s]
  <2>1. s \in 1..MaxSends
        /\ object' = XR!Call([x EXCEPT !.sent = s, !.status = s, !.text = s, !.state = XR!DONE], s,
                             <<"readystatechange", "load">>)
    BY <1>2 DEF XR!Answered, XR!Send
  <2>2. [x EXCEPT !.sent = s, !.status = s, !.text = s, !.state = XR!DONE] = y
    BY <1>t DEF XhrStates
  <2> HIDE DEF x
  <2>3. object' = XR!Call(y, s, <<"readystatechange", "load">>)
    BY <2>1, <2>2
  <2>4. s \in 0..MaxSends
    BY <2>1, <1>t
  <2> HIDE DEF y
  <2>5. y = [x EXCEPT !.state = XR!DONE, !.status = s, !.text = s, !.aborted = x.aborted, !.sent = s]
    BY DEF y
  <2> QED
    BY <1>f, <1>n, <1>e, <2>3, <2>4, <2>5, <1>c
<1>3. CASE XR!NotAnswered
  <2> DEFINE s == x.sent + 1
             y == [x EXCEPT !.state = XR!DONE, !.status = 0, !.text = x.text, !.aborted = x.aborted, !.sent = s]
  <2>1. s \in 1..MaxSends
        /\ object' = XR!Call([x EXCEPT !.sent = s, !.status = 0, !.state = XR!DONE], s,
                             <<"readystatechange", "error">>)
    BY <1>3 DEF XR!NotAnswered, XR!Send, XR!None
  <2>2. [x EXCEPT !.sent = s, !.status = 0, !.state = XR!DONE] = y
    BY <1>t DEF XhrStates
  <2> HIDE DEF x
  <2>3. object' = XR!Call(y, s, <<"readystatechange", "error">>)
    BY <2>1, <2>2
  <2>4. s \in 0..MaxSends
    BY <2>1, <1>t
  <2> HIDE DEF y
  <2>5. y = [x EXCEPT !.state = XR!DONE, !.status = 0, !.text = x.text, !.aborted = x.aborted, !.sent = s]
    BY DEF y
  <2> QED
    BY <1>f, <1>n, <1>e, <2>3, <2>4, <2>5, <1>c
<1>4. CASE XR!Abort
  <2> DEFINE y == [x EXCEPT !.state = XR!DONE, !.status = 0, !.text = x.text, !.aborted = TRUE, !.sent = x.sent]
  <2>1. object' = XR!Call([x EXCEPT !.aborted = TRUE, !.state = XR!DONE, !.status = 0], 0,
                          <<"readystatechange", "abort">>)
    BY <1>4 DEF XR!Abort, XR!None
  <2>2. [x EXCEPT !.aborted = TRUE, !.state = XR!DONE, !.status = 0] = y
    BY <1>t DEF XhrStates
  <2> HIDE DEF x
  <2>3. object' = XR!Call(y, 0, <<"readystatechange", "abort">>)
    BY <2>1, <2>2
  <2> HIDE DEF y
  <2>4. y = [x EXCEPT !.state = XR!DONE, !.status = 0, !.text = x.text, !.aborted = TRUE, !.sent = x.sent]
    BY DEF y
  <2> QED
    BY <1>f, <1>n, <1>e, <2>3, <2>4, <1>c
<1>5. CASE XR!Fire
  <2> DEFINE c == Head(x.calls)
  <2>1. x.calls \in Seq(XhrCalls) /\ x.calls # <<>> /\ x.ended \in [1..MaxSends -> Seq(XhrEvents)]
    BY <1>5, <1>f DEF XR!Fire
  <2>2. c = x.calls[1] /\ 1 \in DOMAIN x.calls /\ c \in XhrCalls /\ Tail(x.calls) \in Seq(XhrCalls)
    BY <2>1, Behind
  <2>3. CASE c.told = <<>>
    <3>1. object' = [x EXCEPT !.calls = Tail(x.calls)]
      BY <1>5, <2>3 DEF XR!Fire
    <3>2. Sends(Tail(x.calls), x.ended, x.sent)
      BY <1>t, <2>1, <2>3, SendsReturned
    <3>3. /\ object' \in XhrStates /\ object'.status = x.status /\ object'.text = x.text
          /\ object'.calls = Tail(x.calls) /\ object'.ended = x.ended /\ object'.sent = x.sent
      BY <1>t, <2>2, <3>1 DEF XhrStates
    <3> HIDE DEF x
    <3> QED
      BY <1>t, <3>2, <3>3 DEF XhrInv
  <2>4. CASE c.told # <<>>
    <3> DEFINE calls == [x.calls EXCEPT ![1].told = Tail(@)]
               e == Head(c.told)
               ended == IF c.of \in 1..MaxSends /\ Len(c.told) = 1
                        THEN [x.ended EXCEPT ![c.of] = Append(@, e)] ELSE x.ended
    <3>1. object' = [x EXCEPT !.calls = calls, !.ended = ended]
      BY <1>5, <2>4 DEF XR!Fire, XR!Send, XR!heard
    <3>2. e \in XhrEvents /\ Tail(c.told) \in Seq(XhrEvents)
      BY <2>2, <2>4, Behind DEF XhrCalls
    <3>a. calls = [x.calls EXCEPT ![1].told = Tail(@)] /\ e \in XhrEvents
          /\ ended = IF c.of \in 1..MaxSends /\ Len(c.told) = 1
                     THEN [x.ended EXCEPT ![c.of] = Append(@, e)] ELSE x.ended
      BY <3>2
    <3>b. c = Head(x.calls)
      OBVIOUS
    <3> HIDE DEF x, c, e, calls, ended
    <3>3. ended \in [1..MaxSends -> Seq(XhrEvents)] /\ Sends(calls, ended, x.sent)
      BY <1>t, <1>f, <2>1, <2>4, <3>a, <3>b, SendsTold
    <3>4. calls \in Seq(XhrCalls)
      <4> DEFINE d == [c EXCEPT !.told = Tail(c.told)]
      <4>1. d \in XhrCalls
        BY <2>2, <3>2 DEF XhrCalls
      <4>2. calls = [x.calls EXCEPT ![1] = d]
        BY <2>2, <3>a
      <4> HIDE DEF d
      <4> QED
        BY <2>1, <2>2, <4>1, <4>2
    <3>5. /\ object' \in XhrStates /\ object'.status = x.status /\ object'.text = x.text
          /\ object'.calls = calls /\ object'.ended = ended /\ object'.sent = x.sent
      BY <1>t, <3>1, <3>3, <3>4 DEF XhrStates
    <3> QED
      BY <1>t, <3>3, <3>5 DEF XhrInv
  <2> QED
    BY <2>3, <2>4
<1> QED
  BY <1>1, <1>2, <1>3, <1>4, <1>5 DEF XR!Next

\* It says how sends ended.
LEMMA XhrTold == ASSUME XhrInv PROVE XR!AnswersWhole
  BY DEF XhrInv, Sends, XR!AnswersWhole, XR!None

----------------------------------------------------------------------------
(* Streams. *)

Rising(f) == \A a, b \in DOMAIN f : a < b => f[a] < f[b]

\* The queue, the reads that are pending, how many chunks were made, and what became of the
\* reads: reads get the chunks in order, those that are queued are newer, and a read that is
\* pending is before any that gets a chunk.
Flows(queue, pending, made, result) ==
  /\ Rising(queue) /\ Rising(pending)
  /\ \A n \in DOMAIN queue : queue[n] <= made
  /\ \A r \in DOMAIN result : result[r] <= made
  /\ \A r \in DOMAIN result, n \in DOMAIN queue : result[r] < queue[n]
  /\ \A a, b \in DOMAIN result : a < b /\ result[a] > 0 /\ result[b] > 0 => result[a] < result[b]
  /\ queue = <<>> \/ pending = <<>>
  /\ \A n \in DOMAIN pending : pending[n] \in DOMAIN result
  /\ \A r \in DOMAIN result : (result[r] = 0) <=> \E n \in DOMAIN pending : pending[n] = r
  /\ \A n \in DOMAIN pending, r \in DOMAIN result : pending[n] < r => result[r] <= 0

\* Every chunk is queued, read or out.
Kept(queue, made, result, out) ==
  \A c \in 1..made : \/ c \in out
                     \/ \E n \in DOMAIN queue : queue[n] = c
                     \/ \E r \in DOMAIN result : result[r] = c

\* A chunk is queued, no read being pending.
LEMMA FlowsQueued ==
  ASSUME NEW queue \in Seq(Int), NEW made \in Nat, NEW result \in Seq(Int), Flows(queue, <<>>, made, result)
  PROVE  /\ Flows(Append(queue, made + 1), <<>>, made + 1, result)
         /\ \A out : Kept(queue, made, result, out) => Kept(Append(queue, made + 1), made + 1, result, out)
<1> DEFINE c == made + 1
           queue2 == Append(queue, c)
           l == Len(queue)
<1>1. /\ DOMAIN queue2 = 1..(l + 1) /\ l \in Nat /\ queue2[l + 1] = c /\ DOMAIN queue = 1..l
      /\ \A n \in DOMAIN queue : queue2[n] = queue[n]
  BY Appended
<1>t. /\ \A n \in DOMAIN queue : queue[n] \in Int
      /\ \A r \in DOMAIN result : result[r] \in Int
  OBVIOUS
<1> HIDE DEF queue2, l
<1>2. \A n \in DOMAIN queue2 : n = l + 1 \/ n \in DOMAIN queue
  BY <1>1
<1>3. /\ \A n \in DOMAIN queue : queue[n] < c
      /\ \A r \in DOMAIN result : result[r] < c
  <2>1. /\ \A n \in DOMAIN queue : queue[n] <= made
        /\ \A r \in DOMAIN result : result[r] <= made
    BY Zenon DEF Flows
  <2> QED
    BY <2>1, <1>t
<1>m. c \in Int /\ c = made + 1
  OBVIOUS
<1> HIDE DEF c
<1>4. Rising(queue2)
  BY <1>1, <1>2, <1>3 DEF Flows, Rising
<1>5. /\ \A n \in DOMAIN queue2 : queue2[n] <= c
      /\ \A r \in DOMAIN result : result[r] <= c
      /\ \A r \in DOMAIN result, n \in DOMAIN queue2 : result[r] < queue2[n]
  <2>1. \A r \in DOMAIN result, n \in DOMAIN queue : result[r] < queue[n]
    BY Zenon DEF Flows
  <2>2. \A n \in DOMAIN queue2 : queue2[n] = c \/ (n \in DOMAIN queue /\ queue2[n] = queue[n])
    BY <1>1, <1>2
  <2>3. \A n \in DOMAIN queue2 : queue2[n] <= c
    <3> SUFFICES ASSUME NEW n \in DOMAIN queue2 PROVE queue2[n] <= c
      OBVIOUS
    <3> QED
      BY <2>2, <1>3, <1>t, <1>m
  <2>4. \A r \in DOMAIN result : result[r] <= c
    BY <1>3, <1>t, <1>m
  <2>5. \A r \in DOMAIN result, n \in DOMAIN queue2 : result[r] < queue2[n]
    BY <2>1, <2>2, <1>3
  <2> QED
    BY <2>3, <2>4, <2>5
<1>6. Flows(queue2, <<>>, c, result)
  BY <1>4, <1>5 DEF Flows
<1>7. ASSUME NEW out, Kept(queue, made, result, out) PROVE Kept(queue2, c, result, out)
  <2>1. \A d \in 1..c : d = c \/ d \in 1..made
    BY <1>m
  <2>2. l + 1 \in DOMAIN queue2 /\ \A n \in DOMAIN queue : n \in DOMAIN queue2
    BY <1>1
  <2> QED
    BY <1>1, <1>7, <2>1, <2>2 DEF Kept
<1> QED
  BY <1>6, <1>7 DEF queue2, c

\* A chunk is given to the read that waits longest.
LEMMA FlowsServed ==
  ASSUME NEW queue \in Seq(Int), NEW pending \in Seq(Int), NEW made \in Nat, NEW result \in Seq(Int),
         pending # <<>>, Flows(queue, pending, made, result),
         NEW result2, DOMAIN result2 = DOMAIN result,
         \A r \in DOMAIN result : result2[r] = IF r = Head(pending) THEN made + 1 ELSE result[r]
  PROVE  /\ Flows(queue, Tail(pending), made + 1, result2)
         /\ \A out : Kept(queue, made, result, out) => Kept(queue, made + 1, result2, out)
<1> DEFINE c == made + 1
           h == Head(pending)
           rest == Tail(pending)
<1>1. /\ h \in Int /\ h = pending[1] /\ 1 \in DOMAIN pending
      /\ \A n \in DOMAIN rest : n + 1 \in DOMAIN pending /\ rest[n] = pending[n + 1]
      /\ \A n \in DOMAIN pending : n = 1 \/ (n - 1 \in DOMAIN rest /\ rest[n - 1] = pending[n])
      /\ DOMAIN rest \subseteq Nat \ {0} /\ DOMAIN pending \subseteq Nat \ {0}
  <2>1. DOMAIN rest = 1..(Len(pending) - 1) /\ DOMAIN pending = 1..Len(pending) /\ Len(pending) \in Nat
    BY Behind
  <2> QED
    BY <2>1, Behind
<1>t. /\ \A r \in DOMAIN result : result[r] \in Int
      /\ \A n \in DOMAIN pending : pending[n] \in Int
      /\ DOMAIN result \subseteq Int
  OBVIOUS
<1>m. c \in Int /\ 0 < c /\ c = made + 1 /\ \A r \in DOMAIN result : result2[r] = IF r = h THEN c ELSE result[r]
  OBVIOUS
<1> HIDE DEF h, rest, c
<1>2. queue = <<>>
  BY DEF Flows
<1>3. h \in DOMAIN result /\ result[h] = 0 /\ result2[h] = c
      /\ \A r \in DOMAIN result : r # h => result2[r] = result[r]
  BY <1>1, <1>m DEF Flows
<1>4. /\ Rising(<<>>)
      /\ \A n, m \in DOMAIN pending : n < m => pending[n] < pending[m]
  BY DEF Flows, Rising
<1>5. Rising(rest)
  <2> SUFFICES ASSUME NEW a \in DOMAIN rest, NEW b \in DOMAIN rest, a < b PROVE rest[a] < rest[b]
    BY DEF Rising
  <2> DEFINE n == a + 1
             m == b + 1
  <2>1. n \in DOMAIN pending /\ m \in DOMAIN pending /\ rest[a] = pending[n] /\ rest[b] = pending[m] /\ n < m
    BY <1>1
  <2> HIDE DEF n, m
  <2> QED
    BY <2>1, <1>4
<1>6. \A n \in DOMAIN rest : h < rest[n] /\ rest[n] \in DOMAIN result
  <2> SUFFICES ASSUME NEW a \in DOMAIN rest PROVE h < rest[a] /\ rest[a] \in DOMAIN result
    OBVIOUS
  <2> DEFINE n == a + 1
  <2>1. n \in DOMAIN pending /\ rest[a] = pending[n] /\ 1 < n
    BY <1>1
  <2> HIDE DEF n
  <2>2. pending[n] \in DOMAIN result
    BY <2>1 DEF Flows
  <2> QED
    BY <2>1, <2>2, <1>1, <1>4
<1>7. \A r \in DOMAIN result : h < r => result[r] <= 0
  BY <1>1 DEF Flows
<1>8. \A r \in DOMAIN result : result[r] < c
  <2>1. \A r \in DOMAIN result : result[r] <= made
    BY Zenon DEF Flows
  <2> QED
    BY <2>1, <1>t, <1>m
<1>9. \A a, b \in DOMAIN result2 : a < b /\ result2[a] > 0 /\ result2[b] > 0 => result2[a] < result2[b]
  <2>1. \A a, b \in DOMAIN result : a < b /\ result[a] > 0 /\ result[b] > 0 => result[a] < result[b]
    BY DEF Flows
  <2> QED
    <3> SUFFICES ASSUME NEW a \in DOMAIN result, NEW b \in DOMAIN result, a < b, result2[a] > 0, result2[b] > 0
                 PROVE  result2[a] < result2[b]
      OBVIOUS
    <3>0. a \in Int /\ b \in Int /\ result[a] \in Int /\ result[b] \in Int
      BY <1>t
    <3>1. CASE a = h
      <4>1. b # h /\ result[b] <= 0
        BY <3>0, <3>1, <1>7, <1>1
      <4>2. result2[b] = result[b]
        BY <4>1, <1>3
      <4> QED
        BY <4>1, <4>2, <3>0
    <3>2. CASE a # h /\ b = h
      BY <3>2, <1>3, <1>8
    <3>3. CASE a # h /\ b # h
      BY <3>3, <1>3, <2>1
    <3> QED
      BY <3>1, <3>2, <3>3
<1>10. \A r \in DOMAIN result2 : (result2[r] = 0) <=> \E n \in DOMAIN rest : rest[n] = r
  <2> SUFFICES ASSUME NEW r \in DOMAIN result PROVE (result2[r] = 0) <=> \E n \in DOMAIN rest : rest[n] = r
    OBVIOUS
  <2>1. (result[r] = 0) <=> \E n \in DOMAIN pending : pending[n] = r
    BY DEF Flows
  <2>2. CASE r = h
    <3>1. \A n \in DOMAIN rest : rest[n] # r
      <4>1. \A n \in DOMAIN rest : h < rest[n]
        BY <1>6
      <4> QED
        BY <2>2, <4>1, <1>1
    <3>2. result2[r] # 0
      BY <2>2, <1>3, <1>m
    <3> QED
      BY <3>1, <3>2
  <2>3. CASE r # h
    <3>1. (\E n \in DOMAIN rest : rest[n] = r) <=> \E n \in DOMAIN pending : pending[n] = r
      <4>1. ASSUME NEW n \in DOMAIN rest, rest[n] = r PROVE \E m \in DOMAIN pending : pending[m] = r
        BY <1>1, <4>1
      <4>2. ASSUME NEW n \in DOMAIN pending, pending[n] = r PROVE \E m \in DOMAIN rest : rest[m] = r
        BY <1>1, <2>3, <4>2
      <4> QED
        BY <4>1, <4>2
    <3> QED
      BY <2>1, <2>3, <3>1, <1>3
  <2> QED
    BY <2>2, <2>3
<1>11. \A n \in DOMAIN rest, r \in DOMAIN result2 : rest[n] < r => result2[r] <= 0
  <2> SUFFICES ASSUME NEW a \in DOMAIN rest, NEW r \in DOMAIN result, rest[a] < r PROVE result2[r] <= 0
    OBVIOUS
  <2>1. h < rest[a] /\ rest[a] \in Int /\ r \in Int
    BY <1>6, <1>t
  <2>2. h < r
    BY <2>1, <1>1
  <2>3. r # h
    BY <2>2, <1>1
  <2> QED
    BY <2>2, <2>3, <1>3, <1>7
<1>12. \A r \in DOMAIN result2 : result2[r] <= c
  <2> SUFFICES ASSUME NEW r \in DOMAIN result PROVE result2[r] <= c
    OBVIOUS
  <2>1. r = h \/ result2[r] = result[r]
    BY <1>3
  <2> QED
    BY <2>1, <1>3, <1>8, <1>t, <1>m
<1>13. Flows(queue, rest, c, result2)
  BY <1>2, <1>4, <1>5, <1>6, <1>9, <1>10, <1>11, <1>12 DEF Flows
<1>14. ASSUME NEW out, Kept(queue, made, result, out) PROVE Kept(queue, c, result2, out)
  <2> SUFFICES ASSUME NEW d \in 1..c
               PROVE  d \in out \/ (\E n \in DOMAIN queue : queue[n] = d) \/ (\E r \in DOMAIN result2 : result2[r] = d)
    BY DEF Kept
  <2>1. CASE d = c
    BY <2>1, <1>3
  <2>s. d \in 1..made \/ d = c
    BY <1>m
  <2>2. CASE d \in 1..made
    <3>1. ASSUME NEW r \in DOMAIN result, result[r] = d PROVE result2[r] = d
      BY <3>1, <2>2, <1>3
    <3> QED
      BY <3>1, <2>2, <1>14 DEF Kept
  <2> QED
    BY <2>s, <2>1, <2>2
<1> QED
  BY <1>13, <1>14 DEF rest, c

\* Every read that is pending ends without a chunk.
LEMMA FlowsEnded ==
  ASSUME NEW queue \in Seq(Int), NEW pending \in Seq(Int), NEW made \in Nat, NEW result \in Seq(Int),
         Flows(queue, pending, made, result), NEW with \in Int, with < 0,
         NEW result2, DOMAIN result2 = DOMAIN result,
         \A r \in DOMAIN result : result2[r] = IF \E n \in DOMAIN pending : pending[n] = r THEN with ELSE result[r]
  PROVE  /\ Flows(queue, <<>>, made, result2)
         /\ \A out : Kept(queue, made, result, out) => Kept(queue, made, result2, out)
<1>t. /\ \A r \in DOMAIN result : result[r] \in Int
      /\ \A n \in DOMAIN queue : queue[n] \in Int
  OBVIOUS
<1>1. \A r \in DOMAIN result : (result[r] = 0 /\ result2[r] = with) \/ (result[r] # 0 /\ result2[r] = result[r])
  BY DEF Flows
<1>2. \A r \in DOMAIN result : result2[r] # 0 /\ result2[r] \in Int /\ result2[r] <= result[r]
  <2> SUFFICES ASSUME NEW r \in DOMAIN result PROVE result2[r] # 0 /\ result2[r] \in Int /\ result2[r] <= result[r]
    OBVIOUS
  <2>1. CASE result[r] = 0 /\ result2[r] = with
    BY <2>1
  <2>2. CASE result[r] # 0 /\ result2[r] = result[r]
    BY <2>2, <1>t
  <2> QED
    BY <1>1, <2>1, <2>2
<1>3. \A r \in DOMAIN result : result2[r] > 0 => result2[r] = result[r]
  BY <1>1
<1>4. /\ \A r \in DOMAIN result : result[r] <= made
      /\ \A r \in DOMAIN result, n \in DOMAIN queue : result[r] < queue[n]
      /\ \A a, b \in DOMAIN result : a < b /\ result[a] > 0 /\ result[b] > 0 => result[a] < result[b]
  BY Zenon DEF Flows
<1>5. \A r \in DOMAIN result : result2[r] <= made
  BY <1>2, <1>4, <1>t
<1>6. \A r \in DOMAIN result, n \in DOMAIN queue : result2[r] < queue[n]
  <2> SUFFICES ASSUME NEW r \in DOMAIN result, NEW n \in DOMAIN queue PROVE result2[r] < queue[n]
    OBVIOUS
  <2>1. result2[r] \in Int /\ result[r] \in Int /\ queue[n] \in Int /\ result2[r] <= result[r] /\ result[r] < queue[n]
    BY <1>2, <1>4, <1>t
  <2> QED
    BY <2>1
<1>7. \A a, b \in DOMAIN result : a < b /\ result2[a] > 0 /\ result2[b] > 0 => result2[a] < result2[b]
  BY <1>3, <1>4
<1>8. Flows(queue, <<>>, made, result2)
  BY <1>2, <1>5, <1>6, <1>7 DEF Flows, Rising
<1>9. ASSUME NEW out, Kept(queue, made, result, out) PROVE Kept(queue, made, result2, out)
  <2>1. \A c \in 1..made, r \in DOMAIN result : result[r] = c => result2[r] = c
    BY <1>1
  <2> QED
    BY <1>9, <2>1 DEF Kept
<1> QED
  BY <1>8, <1>9

\* A read takes the chunk that is queued longest, or fails and loses it.
LEMMA FlowsTook ==
  ASSUME NEW queue \in Seq(Nat \ {0}), NEW pending \in Seq(Int), NEW made \in Nat, NEW result \in Seq(Int),
         Flows(queue, pending, made, result), queue # <<>>,
         NEW x \in Int, x = Head(queue) \/ x < 0
  PROVE  /\ Flows(Tail(queue), pending, made, Append(result, x))
         /\ \A out, out2 : Kept(queue, made, result, out) /\ out \subseteq out2 /\ (x = Head(queue) \/ Head(queue) \in out2)
              => Kept(Tail(queue), made, Append(result, x), out2)
         /\ \A n \in DOMAIN Tail(queue) : Tail(queue)[n] # Head(queue)
<1> DEFINE h == Head(queue)
           rest == Tail(queue)
           l == Len(result)
           result2 == Append(result, x)
<1>1. /\ h \in Nat \ {0} /\ h = queue[1] /\ 1 \in DOMAIN queue
      /\ \A n \in DOMAIN rest : n + 1 \in DOMAIN queue /\ rest[n] = queue[n + 1]
      /\ \A n \in DOMAIN queue : n = 1 \/ (n - 1 \in DOMAIN rest /\ rest[n - 1] = queue[n])
      /\ DOMAIN rest \subseteq Nat \ {0} /\ DOMAIN queue \subseteq Nat \ {0}
  <2>1. DOMAIN rest = 1..(Len(queue) - 1) /\ DOMAIN queue = 1..Len(queue) /\ Len(queue) \in Nat
    BY Behind
  <2> QED
    BY <2>1, Behind
<1>2. /\ DOMAIN result2 = 1..(l + 1) /\ l \in Nat /\ result2[l + 1] = x /\ DOMAIN result = 1..l
      /\ \A r \in DOMAIN result : result2[r] = result[r]
  BY Appended
<1>t. /\ \A n \in DOMAIN queue : queue[n] \in Nat \ {0}
      /\ \A r \in DOMAIN result : result[r] \in Int
  OBVIOUS
<1>p. pending = <<>>
  BY DEF Flows
<1> HIDE DEF h, rest, l, result2
<1>x. x = h \/ x < 0
  BY DEF h
<1>3. \A r \in DOMAIN result2 : r = l + 1 \/ r \in DOMAIN result
  <2>1. \A r \in 1..(l + 1) : r = l + 1 \/ r \in 1..l
    BY <1>2
  <2> QED
    BY <2>1, <1>2
<1>f. /\ \A n, m \in DOMAIN queue : n < m => queue[n] < queue[m]
      /\ \A n \in DOMAIN queue : queue[n] <= made
      /\ \A r \in DOMAIN result : result[r] <= made
      /\ \A r \in DOMAIN result, n \in DOMAIN queue : result[r] < queue[n]
      /\ \A a, b \in DOMAIN result : a < b /\ result[a] > 0 /\ result[b] > 0 => result[a] < result[b]
      /\ \A r \in DOMAIN result : result[r] # 0
  BY <1>p DEF Flows, Rising
<1>4. \A a \in DOMAIN rest : h < rest[a] /\ rest[a] <= made /\ rest[a] \in Nat
                             /\ \A r \in DOMAIN result : result[r] < rest[a]
  <2> SUFFICES ASSUME NEW a \in DOMAIN rest
               PROVE  h < rest[a] /\ rest[a] <= made /\ rest[a] \in Nat /\ \A r \in DOMAIN result : result[r] < rest[a]
    OBVIOUS
  <2> DEFINE n == a + 1
  <2>1. n \in DOMAIN queue /\ rest[a] = queue[n] /\ 1 < n
    BY <1>1
  <2> HIDE DEF n
  <2> QED
    BY <2>1, <1>1, <1>f, <1>t
<1>5. Rising(rest)
  <2> SUFFICES ASSUME NEW a \in DOMAIN rest, NEW b \in DOMAIN rest, a < b PROVE rest[a] < rest[b]
    BY DEF Rising
  <2> DEFINE n == a + 1
             m == b + 1
  <2>1. n \in DOMAIN queue /\ m \in DOMAIN queue /\ rest[a] = queue[n] /\ rest[b] = queue[m] /\ n < m
    BY <1>1
  <2> HIDE DEF n, m
  <2> QED
    BY <2>1, <1>f
<1>6. x <= made /\ (x > 0 => \A r \in DOMAIN result : result[r] < x) /\ \A a \in DOMAIN rest : x < rest[a]
  <2>1. h <= made /\ \A r \in DOMAIN result : result[r] < h
    BY <1>1, <1>f
  <2>2. \A a \in DOMAIN rest : h < rest[a] /\ rest[a] \in Nat
    BY <1>4
  <2> QED
    BY <2>1, <2>2, <1>x, <1>1
<1>7. \A r \in DOMAIN result2 : (result2[r] = x /\ r = l + 1) \/ (r \in DOMAIN result /\ result2[r] = result[r])
  BY <1>2, <1>3
<1>8. /\ \A r \in DOMAIN result2 : result2[r] <= made
      /\ \A r \in DOMAIN result2, n \in DOMAIN rest : result2[r] < rest[n]
  BY <1>4, <1>6, <1>7, <1>f
<1>9. \A a, b \in DOMAIN result2 : a < b /\ result2[a] > 0 /\ result2[b] > 0 => result2[a] < result2[b]
  <2> SUFFICES ASSUME NEW a \in DOMAIN result2, NEW b \in DOMAIN result2, a < b, result2[a] > 0, result2[b] > 0
               PROVE  result2[a] < result2[b]
    OBVIOUS
  <2>1. a \in Int /\ b \in Int /\ a <= l + 1 /\ b <= l + 1
    BY <1>2
  <2>2. a \in DOMAIN result /\ result2[a] = result[a]
    BY <2>1, <1>2, <1>7
  <2>3. CASE b = l + 1
    BY <2>2, <2>3, <1>2, <1>6
  <2>4. CASE b \in DOMAIN result
    BY <2>2, <2>4, <1>2, <1>f
  <2> QED
    BY <2>3, <2>4, <1>3
<1>10. \A r \in DOMAIN result2 : result2[r] # 0
  <2>1. x # 0
    BY <1>x, <1>1
  <2> QED
    BY <2>1, <1>7, <1>f
<1>11. Flows(rest, pending, made, result2)
  BY <1>p, <1>5, <1>4, <1>8, <1>9, <1>10 DEF Flows, Rising
<1>12. ASSUME NEW out, NEW out2, Kept(queue, made, result, out), out \subseteq out2, x = h \/ h \in out2
       PROVE  Kept(rest, made, result2, out2)
  <2> SUFFICES ASSUME NEW c \in 1..made
               PROVE  c \in out2 \/ (\E n \in DOMAIN rest : rest[n] = c) \/ (\E r \in DOMAIN result2 : result2[r] = c)
    BY DEF Kept
  <2>1. CASE c \in out
    BY <2>1, <1>12
  <2>2. ASSUME NEW n \in DOMAIN queue, queue[n] = c
        PROVE  c \in out2 \/ (\E a \in DOMAIN rest : rest[a] = c) \/ (\E r \in DOMAIN result2 : result2[r] = c)
    <3>1. CASE n = 1
      <4>1. l + 1 \in DOMAIN result2
        BY <1>2
      <4>2. c = h
        BY <2>2, <3>1, <1>1
      <4> QED
        BY <4>1, <4>2, <1>2, <1>12
    <3>2. CASE n # 1
      BY <2>2, <3>2, <1>1
    <3> QED
      BY <3>1, <3>2
  <2>3. ASSUME NEW r \in DOMAIN result, result[r] = c PROVE \E q \in DOMAIN result2 : result2[q] = c
    <3>1. r \in DOMAIN result2 /\ result2[r] = c
      BY <2>3, <1>2
    <3> QED
      BY <3>1
  <2> QED
    BY <2>1, <2>2, <2>3, <1>12 DEF Kept
<1>13. \A a \in DOMAIN rest : rest[a] # h
  BY <1>1, <1>4
<1> QED
  BY <1>11, <1>12, <1>13 DEF rest, result2, h

\* A read ends without a chunk, none being queued.
LEMMA FlowsTold ==
  ASSUME NEW pending \in Seq(Int), NEW made \in Nat, NEW result \in Seq(Int),
         Flows(<<>>, pending, made, result), NEW x \in Int, x < 0
  PROVE  /\ Flows(<<>>, pending, made, Append(result, x))
         /\ \A out : Kept(<<>>, made, result, out) => Kept(<<>>, made, Append(result, x), out)
<1> DEFINE l == Len(result)
           result2 == Append(result, x)
<1>2. /\ DOMAIN result2 = 1..(l + 1) /\ l \in Nat /\ result2[l + 1] = x /\ DOMAIN result = 1..l
      /\ \A r \in DOMAIN result : result2[r] = result[r]
  BY Appended
<1>t. /\ \A r \in DOMAIN result : result[r] \in Int
      /\ \A n \in DOMAIN pending : pending[n] \in Int
  OBVIOUS
<1> HIDE DEF l, result2
<1>3. \A r \in DOMAIN result2 : (result2[r] = x /\ r = l + 1) \/ (r \in DOMAIN result /\ result2[r] = result[r])
  BY <1>2
<1>4. \A r \in DOMAIN result : r \in DOMAIN result2
  BY <1>2
<1>f. /\ \A r \in DOMAIN result : result[r] <= made
      /\ \A a, b \in DOMAIN result : a < b /\ result[a] > 0 /\ result[b] > 0 => result[a] < result[b]
      /\ \A n \in DOMAIN pending : pending[n] \in DOMAIN result
      /\ \A r \in DOMAIN result : (result[r] = 0) <=> \E n \in DOMAIN pending : pending[n] = r
      /\ \A n \in DOMAIN pending, r \in DOMAIN result : pending[n] < r => result[r] <= 0
  BY Zenon DEF Flows
<1>5. \A r \in DOMAIN result2 : result2[r] <= made
  <2>1. x <= made
    OBVIOUS
  <2> QED
    BY <2>1, <1>3, <1>f
<1>6. \A a, b \in DOMAIN result2 : a < b /\ result2[a] > 0 /\ result2[b] > 0 => result2[a] < result2[b]
  <2>1. \A a \in DOMAIN result2 : result2[a] > 0 => a \in DOMAIN result /\ result2[a] = result[a]
    BY <1>3
  <2> QED
    BY <2>1, <1>f
<1>7. \A n \in DOMAIN pending : pending[n] \in DOMAIN result2
  BY <1>4, <1>f
<1>8. \A r \in DOMAIN result2 : (result2[r] = 0) <=> \E n \in DOMAIN pending : pending[n] = r
  <2> SUFFICES ASSUME NEW r \in DOMAIN result2 PROVE (result2[r] = 0) <=> \E n \in DOMAIN pending : pending[n] = r
    OBVIOUS
  <2>1. CASE r \in DOMAIN result
    BY <2>1, <1>2, <1>f
  <2>2. CASE r \notin DOMAIN result
    BY <2>2, <1>3, <1>f
  <2> QED
    BY <2>1, <2>2
<1>9. \A n \in DOMAIN pending, r \in DOMAIN result2 : pending[n] < r => result2[r] <= 0
  <2>1. x <= 0
    OBVIOUS
  <2> QED
    BY <2>1, <1>3, <1>f
<1>10. Flows(<<>>, pending, made, result2)
  BY <1>5, <1>6, <1>7, <1>8, <1>9 DEF Flows
<1>11. ASSUME NEW out, Kept(<<>>, made, result, out) PROVE Kept(<<>>, made, result2, out)
  BY <1>11, <1>2, <1>4 DEF Kept
<1> QED
  BY <1>10, <1>11 DEF result2

\* A read waits.
LEMMA FlowsWaits ==
  ASSUME NEW pending \in Seq(Int), NEW made \in Nat, NEW result \in Seq(Int),
         Flows(<<>>, pending, made, result)
  PROVE  /\ Flows(<<>>, Append(pending, Len(result) + 1), made, Append(result, 0))
         /\ \A out : Kept(<<>>, made, result, out) => Kept(<<>>, made, Append(result, 0), out)
<1> DEFINE l == Len(result)
           k == Len(pending)
           result2 == Append(result, 0)
           pending2 == Append(pending, l + 1)
<1>2. /\ DOMAIN result2 = 1..(l + 1) /\ l \in Nat /\ result2[l + 1] = 0 /\ DOMAIN result = 1..l
      /\ \A r \in DOMAIN result : result2[r] = result[r]
  BY Appended
<1>p. /\ DOMAIN pending2 = 1..(k + 1) /\ k \in Nat /\ pending2[k + 1] = l + 1 /\ DOMAIN pending = 1..k
      /\ \A r \in DOMAIN pending : pending2[r] = pending[r]
  <2>1. l + 1 \in Int
    BY <1>2
  <2> HIDE DEF l
  <2> QED
    BY <2>1, Appended
<1>t. /\ \A r \in DOMAIN result : result[r] \in Int
      /\ \A n \in DOMAIN pending : pending[n] \in Int
  OBVIOUS
<1> HIDE DEF l, k, result2, pending2
<1>3. \A r \in DOMAIN result2 : (result2[r] = 0 /\ r = l + 1) \/ (r \in DOMAIN result /\ result2[r] = result[r])
  BY <1>2
<1>q. \A n \in DOMAIN pending2 : (pending2[n] = l + 1 /\ n = k + 1) \/ (n \in DOMAIN pending /\ pending2[n] = pending[n])
  BY <1>p
<1>4. /\ \A r \in DOMAIN result : r \in DOMAIN result2 /\ r < l + 1 /\ r \in Int
      /\ \A n \in DOMAIN pending : n \in DOMAIN pending2 /\ n < k + 1 /\ n \in Int
      /\ l + 1 \in DOMAIN result2 /\ k + 1 \in DOMAIN pending2
  BY <1>2, <1>p
<1>f. /\ Rising(pending)
      /\ \A r \in DOMAIN result : result[r] <= made
      /\ \A a, b \in DOMAIN result : a < b /\ result[a] > 0 /\ result[b] > 0 => result[a] < result[b]
      /\ \A n \in DOMAIN pending : pending[n] \in DOMAIN result
      /\ \A r \in DOMAIN result : (result[r] = 0) <=> \E n \in DOMAIN pending : pending[n] = r
      /\ \A n \in DOMAIN pending, r \in DOMAIN result : pending[n] < r => result[r] <= 0
  BY Zenon DEF Flows
<1>5. \A r \in DOMAIN result2 : result2[r] <= made
  BY <1>3, <1>f
<1>6. \A a, b \in DOMAIN result2 : a < b /\ result2[a] > 0 /\ result2[b] > 0 => result2[a] < result2[b]
  <2>1. \A a \in DOMAIN result2 : result2[a] > 0 => a \in DOMAIN result /\ result2[a] = result[a]
    BY <1>3
  <2> QED
    BY <2>1, <1>f
<1>7. \A n \in DOMAIN pending2 : pending2[n] \in DOMAIN result2
  BY <1>4, <1>q, <1>f
<1>8. \A r \in DOMAIN result2 : (result2[r] = 0) <=> \E n \in DOMAIN pending2 : pending2[n] = r
  <2> SUFFICES ASSUME NEW r \in DOMAIN result2 PROVE (result2[r] = 0) <=> \E n \in DOMAIN pending2 : pending2[n] = r
    OBVIOUS
  <2>1. CASE r \in DOMAIN result
    <3>1. r # l + 1 /\ result2[r] = result[r]
      BY <2>1, <1>2, <1>4
    <3>2. (\E n \in DOMAIN pending2 : pending2[n] = r) <=> \E n \in DOMAIN pending : pending[n] = r
      BY <3>1, <1>q, <1>p, <1>4
    <3>3. (result[r] = 0) <=> \E n \in DOMAIN pending : pending[n] = r
      BY <2>1, <1>f
    <3> QED
      BY <3>1, <3>2, <3>3
  <2>2. CASE r \notin DOMAIN result
    BY <2>2, <1>3, <1>4, <1>p
  <2> QED
    BY <2>1, <2>2
<1>9. \A n \in DOMAIN pending2, r \in DOMAIN result2 : pending2[n] < r => result2[r] <= 0
  <2> SUFFICES ASSUME NEW n \in DOMAIN pending2, NEW r \in DOMAIN result2, pending2[n] < r PROVE result2[r] <= 0
    OBVIOUS
  <2>1. CASE r = l + 1
    BY <2>1, <1>2
  <2>2. CASE r # l + 1
    <3>1. r \in DOMAIN result /\ result2[r] = result[r]
      BY <2>2, <1>3
    <3>2. r < l + 1 /\ r \in Int /\ l + 1 \in Int
      BY <3>1, <1>4, <1>2
    <3>3. pending2[n] # l + 1
      BY <3>2
    <3>4. n \in DOMAIN pending /\ pending2[n] = pending[n]
      BY <3>3, <1>q
    <3> QED
      BY <3>1, <3>4, <1>f
  <2> QED
    BY <2>1, <2>2
<1>10. Rising(pending2)
  <2> SUFFICES ASSUME NEW a \in DOMAIN pending2, NEW b \in DOMAIN pending2, a < b PROVE pending2[a] < pending2[b]
    BY DEF Rising
  <2>1. a \in Int /\ b \in Int /\ a <= k + 1 /\ b <= k + 1 /\ k \in Nat
    BY <1>p
  <2>2. a # k + 1
    BY <2>1
  <2>3. a \in DOMAIN pending /\ pending2[a] = pending[a]
    BY <2>2, <1>q
  <2>4. CASE b = k + 1
    <3>1. pending[a] < l + 1
      BY <2>3, <1>f, <1>4
    <3> QED
      BY <2>3, <2>4, <3>1, <1>p
  <2>5. CASE b # k + 1
    BY <2>3, <2>5, <1>q, <1>f DEF Rising
  <2> QED
    BY <2>4, <2>5
<1>11. Flows(<<>>, pending2, made, result2)
  BY <1>5, <1>6, <1>7, <1>8, <1>9, <1>10 DEF Flows, Rising
<1>12. ASSUME NEW out, Kept(<<>>, made, result, out) PROVE Kept(<<>>, made, result2, out)
  BY <1>12, <1>2, <1>4 DEF Kept
<1> QED
  BY <1>11, <1>12 DEF result2, pending2, l

\* The queue is emptied, or handed to a branch.
LEMMA FlowsOut ==
  ASSUME NEW queue \in Seq(Nat \ {0}), NEW pending \in Seq(Int), NEW made \in Nat, NEW result \in Seq(Int),
         Flows(queue, pending, made, result)
  PROVE  /\ Flows(<<>>, pending, made, result) /\ Flows(queue, <<>>, made, <<>>)
         /\ \A out, out2 : Kept(queue, made, result, out) /\ out \cup {queue[n] : n \in DOMAIN queue} \subseteq out2
              => Kept(<<>>, made, result, out2)
         /\ \A out2 : (1..made) \ {queue[n] : n \in DOMAIN queue} \subseteq out2 => Kept(queue, made, <<>>, out2)
<1>1. Flows(<<>>, pending, made, result)
  BY DEF Flows, Rising
<1>2. Flows(queue, <<>>, made, <<>>)
  BY DEF Flows, Rising
<1>3. ASSUME NEW out, NEW out2, Kept(queue, made, result, out), out \cup {queue[n] : n \in DOMAIN queue} \subseteq out2
      PROVE  Kept(<<>>, made, result, out2)
  BY <1>3 DEF Kept
<1>4. ASSUME NEW out2, (1..made) \ {queue[n] : n \in DOMAIN queue} \subseteq out2 PROVE Kept(queue, made, <<>>, out2)
  BY <1>4 DEF Kept
<1> QED
  BY <1>1, <1>2, <1>3, <1>4

\* A stream keeps to its types, its chunks flow in order, and until it is cancelled none is missing.
StreamStates ==
  [queue : Seq(Nat \ {0}), closed : BOOLEAN, errored : BOOLEAN, locked : BOOLEAN, pending : Seq(Int),
   made : 0..MaxChunks, result : Seq(Int), cancelled : BOOLEAN, piped : SUBSET Int, lost : SUBSET Int]
StreamSound(s) ==
  /\ s \in StreamStates
  /\ Flows(s.queue, s.pending, s.made, s.result)
  /\ s.cancelled \/ Kept(s.queue, s.made, s.result, s.piped \cup s.lost)
StreamInv ==
  /\ DOMAIN object = {"of", "sink", "sinkClosed"} /\ object = [n \in DOMAIN object |-> object[n]]
  /\ object.of \in Seq(StreamStates) /\ object.of # <<>>
  /\ \A i \in DOMAIN object.of : StreamSound(object.of[i])

\* Reads that are settled.
SettledOf(t, s, reads, with) ==
  /\ t \in StreamStates /\ t.queue = s.queue /\ t.pending = s.pending /\ t.made = s.made
  /\ t.cancelled = s.cancelled /\ t.piped = s.piped /\ t.lost = s.lost
  /\ DOMAIN t.result = DOMAIN s.result
  /\ \A r \in DOMAIN s.result :
       t.result[r] = IF \E n \in DOMAIN reads : reads[n] = r THEN with ELSE s.result[r]

LEMMA StreamSettled ==
  ASSUME NEW s \in StreamStates, NEW reads \in Seq(Int), NEW with \in Int
  PROVE  SettledOf(ST!Settled(s, reads, with), s, reads, with)
<1> DEFINE t == ST!Settled(s, reads, with)
<1> DEFINE result == [r \in DOMAIN s.result |-> IF \E n \in DOMAIN reads : reads[n] = r THEN with ELSE s.result[r]]
<1>1. t = [s EXCEPT !.result = result]
  BY DEF ST!Settled, ST!Range, StreamStates
<1>2. s.result \in Seq(Int)
  BY DEF StreamStates
<1>3. DOMAIN s.result = 1..Len(s.result) /\ Len(s.result) \in Nat
  BY <1>2
<1>4. result \in [1..Len(s.result) -> Int]
  BY <1>2, <1>3
<1>5. result \in Seq(Int)
  BY <1>3, <1>4, SeqDef
<1>6. DOMAIN result = DOMAIN s.result /\ \A r \in DOMAIN s.result :
        result[r] = IF \E n \in DOMAIN reads : reads[n] = r THEN with ELSE s.result[r]
  OBVIOUS
<1> HIDE DEF result
<1>7. /\ t \in StreamStates /\ t.queue = s.queue /\ t.pending = s.pending /\ t.made = s.made
      /\ t.cancelled = s.cancelled /\ t.piped = s.piped /\ t.lost = s.lost /\ t.result = result
  BY <1>1, <1>5 DEF StreamStates
<1> HIDE DEF t
<1> QED
  BY <1>6, <1>7 DEF SettledOf, t

\* A step of one stream.
LEMMA StreamSet ==
  ASSUME StreamInv, NEW i \in DOMAIN object.of, NEW s, StreamSound(s), ST!Set(i, s)
  PROVE  StreamInv'
<1>1. s \in StreamStates
  BY DEF StreamSound
<1>2. object' = [object EXCEPT !.of = [object.of EXCEPT ![i] = s]]
  BY DEF ST!Set, StreamInv
<1>3. /\ [object.of EXCEPT ![i] = s] \in Seq(StreamStates) /\ [object.of EXCEPT ![i] = s] # <<>>
      /\ DOMAIN [object.of EXCEPT ![i] = s] = DOMAIN object.of
  BY <1>1 DEF StreamInv
<1> DEFINE of == [object.of EXCEPT ![i] = s]
<1>4. \A j \in DOMAIN of : StreamSound(of[j])
  BY DEF StreamInv
<1> HIDE DEF of
<1>5. /\ DOMAIN object' = {"of", "sink", "sinkClosed"} /\ object' = [n \in DOMAIN object' |-> object'[n]]
      /\ object'.of = of
  BY <1>2 DEF StreamInv, of
<1> QED
  BY <1>3, <1>4, <1>5 DEF StreamInv, of

\* It holds at first.
LEMMA StreamFirst == ASSUME ST!Bounds, ST!Init PROVE StreamInv
<1> DEFINE s == ST!Fresh(<<>>, 0, FALSE, FALSE)
<1>1. /\ s \in StreamStates /\ s.queue = <<>> /\ s.pending = <<>> /\ s.made = 0 /\ s.result = <<>>
  BY DEF ST!Fresh, ST!Bounds, StreamStates
<1>2. object = [of |-> <<s>>, sink |-> <<>>, sinkClosed |-> FALSE]
  BY DEF ST!Init
<1> HIDE DEF s
<1>3. StreamSound(s)
  BY <1>1 DEF StreamSound, Flows, Rising, Kept
<1> QED
  BY <1>1, <1>2, <1>3 DEF StreamInv

\* A chunk is enqueued.
LEMMA StreamEnqueues == ASSUME ST!Bounds, StreamInv, ST!Enqueue PROVE StreamInv'
<1> DEFINE s == object.of[1]
           c == s.made + 1
<1>1. /\ 1 \in DOMAIN object.of /\ s \in StreamStates /\ StreamSound(s) /\ s.made < MaxChunks /\ MaxChunks \in Nat
  BY DEF StreamInv, ST!Enqueue, ST!Bounds
<1>2. /\ s.queue \in Seq(Nat \ {0}) /\ s.pending \in Seq(Int) /\ s.made \in Nat /\ s.result \in Seq(Int)
      /\ c \in Nat \ {0} /\ c \in 0..MaxChunks
  BY <1>1 DEF StreamStates
<1>3. /\ Flows(s.queue, s.pending, s.made, s.result)
      /\ s.cancelled \/ Kept(s.queue, s.made, s.result, s.piped \cup s.lost)
  BY <1>1 DEF StreamSound
<1>4. CASE s.pending = <<>>
  <2> DEFINE t == [[s EXCEPT !.queue = Append(@, c)] EXCEPT !.made = c]
  <2>1. ST!Set(1, t)
    BY <1>4 DEF ST!Enqueue
  <2>2. Append(s.queue, c) \in Seq(Nat \ {0})
    BY <1>2
  <2>3. /\ t \in StreamStates /\ t.queue = Append(s.queue, c) /\ t.pending = s.pending /\ t.made = c
        /\ t.result = s.result /\ t.cancelled = s.cancelled /\ t.piped = s.piped /\ t.lost = s.lost
    BY <1>1, <1>2, <2>2 DEF StreamStates
  <2> HIDE DEF t
  <2>4. /\ Flows(Append(s.queue, c), s.pending, c, s.result)
        /\ Kept(s.queue, s.made, s.result, s.piped \cup s.lost) => Kept(Append(s.queue, c), c, s.result, s.piped \cup s.lost)
    <3> DEFINE queue == s.queue
               made == s.made
               result == s.result
               out == s.piped \cup s.lost
    <3>1. queue \in Seq(Int) /\ made \in Nat /\ result \in Seq(Int) /\ Flows(queue, <<>>, made, result) /\ c = made + 1
      BY <1>2, <1>3, <1>4
    <3> HIDE DEF queue, made, result, out, c
    <3>2. /\ Flows(Append(queue, made + 1), <<>>, made + 1, result)
          /\ Kept(queue, made, result, out) => Kept(Append(queue, made + 1), made + 1, result, out)
      BY <3>1, FlowsQueued
    <3> QED
      BY <1>4, <3>1, <3>2 DEF queue, made, result, out
  <2> HIDE DEF s, c
  <2>5. StreamSound(t)
    BY <1>3, <2>3, <2>4 DEF StreamSound
  <2> QED
    BY <1>1, <2>1, <2>5, StreamSet
<1>5. CASE s.pending # <<>>
  <2> DEFINE h == Head(s.pending)
             m == ST!Settled(s, <<h>>, c)
             t == [[m EXCEPT !.pending = Tail(@)] EXCEPT !.made = c]
  <2>1. ST!Set(1, t)
    BY <1>5 DEF ST!Enqueue
  <2>2. h \in Int /\ Tail(s.pending) \in Seq(Int) /\ <<h>> \in Seq(Int)
    BY <1>2, <1>5
  <2> HIDE DEF h
  <2>3. /\ m \in StreamStates /\ m.queue = s.queue /\ m.pending = s.pending
        /\ m.cancelled = s.cancelled /\ m.piped = s.piped /\ m.lost = s.lost
        /\ DOMAIN m.result = DOMAIN s.result
        /\ \A r \in DOMAIN s.result : m.result[r] = IF \E n \in DOMAIN <<h>> : <<h>>[n] = r THEN c ELSE s.result[r]
    <3> DEFINE reads == <<h>>
    <3>0. reads \in Seq(Int) /\ c \in Int /\ s \in StreamStates
      BY <1>1, <1>2, <2>2
    <3> HIDE DEF s, c, reads
    <3>1. SettledOf(ST!Settled(s, reads, c), s, reads, c)
      BY <3>0, StreamSettled
    <3> QED
      BY <3>1 DEF SettledOf, reads
  <2>4. \A r \in DOMAIN s.result : m.result[r] = IF r = h THEN c ELSE s.result[r]
    BY <2>3
  <2> HIDE DEF m
  <2>5. /\ t \in StreamStates /\ t.queue = s.queue /\ t.pending = Tail(s.pending) /\ t.made = c
        /\ t.result = m.result /\ t.cancelled = s.cancelled /\ t.piped = s.piped /\ t.lost = s.lost
    BY <1>2, <2>2, <2>3 DEF StreamStates
  <2> HIDE DEF t
  <2>6. /\ Flows(s.queue, Tail(s.pending), c, m.result)
        /\ Kept(s.queue, s.made, s.result, s.piped \cup s.lost) => Kept(s.queue, c, m.result, s.piped \cup s.lost)
    <3> DEFINE queue == s.queue
               pending == s.pending
               made == s.made
               result == s.result
               out == s.piped \cup s.lost
    <3>1. queue \in Seq(Int) /\ pending \in Seq(Int) /\ made \in Nat /\ result \in Seq(Int) /\ pending # <<>>
          /\ Flows(queue, pending, made, result) /\ c = made + 1 /\ DOMAIN m.result = DOMAIN result
          /\ \A r \in DOMAIN result : m.result[r] = IF r = Head(pending) THEN made + 1 ELSE result[r]
      BY <1>2, <1>3, <1>5, <2>3, <2>4 DEF h
    <3> HIDE DEF queue, pending, made, result, out, c
    <3>2. /\ Flows(queue, Tail(pending), c, m.result)
          /\ Kept(queue, made, result, out) => Kept(queue, c, m.result, out)
      BY <3>1, FlowsServed
    <3> QED
      BY <3>2 DEF queue, pending, made, result, out
  <2> HIDE DEF s, c
  <2>7. StreamSound(t)
    BY <1>3, <2>5, <2>6 DEF StreamSound
  <2> QED
    BY <1>1, <2>1, <2>7, StreamSet
<1> QED
  BY <1>4, <1>5

\* The stream is closed, or fails.
LEMMA StreamEnds == ASSUME StreamInv, ST!Close \/ ST!Error PROVE StreamInv'
<1> DEFINE s == object.of[1]
<1>1. /\ 1 \in DOMAIN object.of /\ s \in StreamStates /\ StreamSound(s)
  BY DEF StreamInv
<1>2. /\ s.queue \in Seq(Nat \ {0}) /\ s.pending \in Seq(Int) /\ s.made \in Nat /\ s.result \in Seq(Int)
      /\ s.queue \in Seq(Int)
  BY <1>1 DEF StreamStates
<1>3. /\ Flows(s.queue, s.pending, s.made, s.result)
      /\ s.cancelled \/ Kept(s.queue, s.made, s.result, s.piped \cup s.lost)
  BY <1>1 DEF StreamSound
<1>4. ASSUME NEW with \in Int, with < 0, NEW m, m = ST!Settled(s, s.pending, with), NEW t \in StreamStates,
             t.queue = m.queue, t.pending = <<>>, t.made = m.made, t.result = m.result, t.cancelled = m.cancelled,
             t.piped = m.piped, t.lost = m.lost, ST!Set(1, t)
      PROVE  StreamInv'
  <2>1. /\ m.queue = s.queue /\ m.made = s.made
        /\ m.cancelled = s.cancelled /\ m.piped = s.piped /\ m.lost = s.lost
        /\ DOMAIN m.result = DOMAIN s.result
        /\ \A r \in DOMAIN s.result : m.result[r] = IF \E n \in DOMAIN s.pending : s.pending[n] = r THEN with ELSE s.result[r]
    <3> HIDE DEF s
    <3>1. SettledOf(m, s, s.pending, with)
      BY <1>1, <1>2, <1>4, StreamSettled
    <3> QED
      BY <3>1 DEF SettledOf
  <2> DEFINE queue == s.queue
             pending == s.pending
             made == s.made
             result == s.result
             out == s.piped \cup s.lost
             result2 == m.result
  <2>2. queue \in Seq(Int) /\ pending \in Seq(Int) /\ made \in Nat /\ result \in Seq(Int)
        /\ Flows(queue, pending, made, result) /\ DOMAIN result2 = DOMAIN result
        /\ \A r \in DOMAIN result : result2[r] = IF \E n \in DOMAIN pending : pending[n] = r THEN with ELSE result[r]
    BY <1>2, <1>3, <2>1
  <2>3. /\ t.queue = queue /\ t.pending = <<>> /\ t.made = made /\ t.result = result2
        /\ t.cancelled = s.cancelled /\ t.piped \cup t.lost = out
        /\ s.cancelled \/ Kept(queue, made, result, out)
    BY <1>3, <1>4, <2>1
  <2> HIDE DEF queue, pending, made, result, out, result2
  <2>4. /\ Flows(queue, <<>>, made, result2)
        /\ Kept(queue, made, result, out) => Kept(queue, made, result2, out)
    BY <1>4, <2>2, FlowsEnded
  <2>5. StreamSound(t)
    BY <1>4, <2>3, <2>4 DEF StreamSound
  <2> QED
    BY <1>1, <1>4, <2>5, StreamSet
<1>s. \A with \in Int : ST!Settled(s, s.pending, with) \in StreamStates
  <2> SUFFICES ASSUME NEW with \in Int PROVE ST!Settled(s, s.pending, with) \in StreamStates
    OBVIOUS
  <2> HIDE DEF s
  <2>1. SettledOf(ST!Settled(s, s.pending, with), s, s.pending, with)
    BY <1>1, <1>2, StreamSettled
  <2> QED
    BY <2>1 DEF SettledOf
<1>m. \A m \in StreamStates :
        /\ [m EXCEPT !.closed = TRUE, !.pending = <<>>] \in StreamStates
        /\ [m EXCEPT !.errored = TRUE, !.pending = <<>>] \in StreamStates
  <2>1. <<>> \in Seq(Int)
    OBVIOUS
  <2> SUFFICES ASSUME NEW m \in StreamStates
               PROVE  /\ [m EXCEPT !.closed = TRUE, !.pending = <<>>] \in StreamStates
                      /\ [m EXCEPT !.errored = TRUE, !.pending = <<>>] \in StreamStates
    OBVIOUS
  <2>2. [m EXCEPT !.closed = TRUE, !.pending = <<>>] \in StreamStates
    BY <2>1 DEF StreamStates
  <2>3. [m EXCEPT !.errored = TRUE, !.pending = <<>>] \in StreamStates
    BY <2>1 DEF StreamStates
  <2> QED
    BY <2>2, <2>3
<1>5. CASE ST!Close
  <2> DEFINE m == ST!Settled(s, s.pending, -1)
             t == [m EXCEPT !.closed = TRUE, !.pending = <<>>]
  <2>1. m \in StreamStates
    BY <1>s
  <2>2. ST!Set(1, t)
    BY <1>5 DEF ST!Close, ST!Done
  <2> HIDE DEF m
  <2>3. t \in StreamStates /\ t.queue = m.queue /\ t.pending = <<>> /\ t.made = m.made /\ t.result = m.result
        /\ t.cancelled = m.cancelled /\ t.piped = m.piped /\ t.lost = m.lost
    <3>1. t \in StreamStates
      BY <2>1, <1>m
    <3>2. /\ t.queue = m.queue /\ t.pending = <<>> /\ t.made = m.made /\ t.result = m.result
          /\ t.cancelled = m.cancelled /\ t.piped = m.piped /\ t.lost = m.lost
      BY <2>1 DEF StreamStates
    <3> QED
      BY <3>1, <3>2
  <2> HIDE DEF t, s
  <2>4. m = ST!Settled(s, s.pending, -1)
    BY DEF m
  <2> QED
    BY <2>2, <2>3, <2>4, <1>4
<1>6. CASE ST!Error
  <2> DEFINE m == ST!Settled(s, s.pending, -2)
             t == [m EXCEPT !.errored = TRUE, !.pending = <<>>]
  <2>1. m \in StreamStates
    BY <1>s
  <2>2. ST!Set(1, t)
    BY <1>6 DEF ST!Error, ST!Failed
  <2> HIDE DEF m
  <2>3. t \in StreamStates /\ t.queue = m.queue /\ t.pending = <<>> /\ t.made = m.made /\ t.result = m.result
        /\ t.cancelled = m.cancelled /\ t.piped = m.piped /\ t.lost = m.lost
    <3>1. t \in StreamStates
      BY <2>1, <1>m
    <3>2. /\ t.queue = m.queue /\ t.pending = <<>> /\ t.made = m.made /\ t.result = m.result
          /\ t.cancelled = m.cancelled /\ t.piped = m.piped /\ t.lost = m.lost
      BY <2>1 DEF StreamStates
    <3> QED
      BY <3>1, <3>2
  <2> HIDE DEF t, s
  <2>4. m = ST!Settled(s, s.pending, -2)
    BY DEF m
  <2> QED
    BY <2>2, <2>3, <2>4, <1>4
<1> QED
  BY <1>5, <1>6

\* A read of a chunk, or one that fails and loses it.
LEMMA StreamTakes ==
  ASSUME NEW s, StreamSound(s), s.queue # <<>>, NEW x \in Int, x = Head(s.queue) \/ x < 0,
         NEW lost \in SUBSET Int, s.lost \subseteq lost, x = Head(s.queue) \/ Head(s.queue) \in lost,
         NEW t, t = [s EXCEPT !.queue = Tail(s.queue), !.result = Append(s.result, x), !.lost = lost]
  PROVE  StreamSound(t)
<1> DEFINE queue == s.queue
           pending == s.pending
           made == s.made
           result == s.result
           out == s.piped \cup s.lost
           out2 == s.piped \cup lost
<1>1. /\ queue \in Seq(Nat \ {0}) /\ pending \in Seq(Int) /\ made \in Nat /\ result \in Seq(Int)
      /\ Flows(queue, pending, made, result) /\ (s.cancelled \/ Kept(queue, made, result, out))
      /\ s \in StreamStates /\ queue # <<>> /\ (x = Head(queue) \/ x < 0) /\ out \subseteq out2
      /\ (x = Head(queue) \/ Head(queue) \in out2)
  BY DEF StreamSound, StreamStates
<1>2. Tail(queue) \in Seq(Nat \ {0}) /\ Append(result, x) \in Seq(Int)
  BY <1>1
<1>3. /\ t \in StreamStates /\ t.queue = Tail(queue) /\ t.pending = pending /\ t.made = made
      /\ t.result = Append(result, x) /\ t.cancelled = s.cancelled /\ t.piped \cup t.lost = out2
  BY <1>1, <1>2 DEF StreamStates
<1> HIDE DEF queue, pending, made, result, out, out2
<1>4. /\ Flows(Tail(queue), pending, made, Append(result, x))
      /\ Kept(queue, made, result, out) => Kept(Tail(queue), made, Append(result, x), out2)
  BY <1>1, FlowsTook
<1> QED
  BY <1>1, <1>3, <1>4 DEF StreamSound

\* A read when nothing is queued, that ends or waits.
LEMMA StreamTells ==
  ASSUME NEW s, StreamSound(s), s.queue = <<>>, NEW x \in Int, NEW pending2,
         \/ x < 0 /\ pending2 = s.pending
         \/ x = 0 /\ pending2 = Append(s.pending, Len(s.result) + 1),
         NEW t, t = [s EXCEPT !.pending = pending2, !.result = Append(s.result, x)]
  PROVE  StreamSound(t)
<1> DEFINE pending == s.pending
           made == s.made
           result == s.result
           out == s.piped \cup s.lost
<1>1. /\ pending \in Seq(Int) /\ made \in Nat /\ result \in Seq(Int)
      /\ Flows(<<>>, pending, made, result) /\ (s.cancelled \/ Kept(<<>>, made, result, out))
      /\ s \in StreamStates /\ Len(result) + 1 \in Int
      /\ (\/ x < 0 /\ pending2 = pending
          \/ x = 0 /\ pending2 = Append(pending, Len(result) + 1))
  BY DEF StreamSound, StreamStates
<1>2. pending2 \in Seq(Int) /\ Append(result, x) \in Seq(Int)
  <2> HIDE DEF pending, result
  <2>1. \A k \in Int : Append(pending, k) \in Seq(Int)
    BY <1>1, Appended
  <2>2. Append(result, x) \in Seq(Int)
    BY <1>1, Appended
  <2> QED
    BY <1>1, <2>1, <2>2
<1>3. /\ t \in StreamStates /\ t.queue = <<>> /\ t.pending = pending2 /\ t.made = made
      /\ t.result = Append(result, x) /\ t.cancelled = s.cancelled /\ t.piped \cup t.lost = out
  BY <1>1, <1>2 DEF StreamStates
<1> HIDE DEF pending, made, result, out
<1>4. /\ Flows(<<>>, pending2, made, Append(result, x))
      /\ Kept(<<>>, made, result, out) => Kept(<<>>, made, Append(result, x), out)
  <2>1. CASE x < 0 /\ pending2 = pending
    BY <1>1, <2>1, FlowsTold
  <2>2. CASE x = 0 /\ pending2 = Append(pending, Len(result) + 1)
    BY <1>1, <2>2, FlowsWaits
  <2> QED
    BY <1>1, <2>1, <2>2
<1> QED
  BY <1>1, <1>3, <1>4 DEF StreamSound

\* A read.
LEMMA StreamReads == ASSUME StreamInv, NEW i \in DOMAIN object.of, ST!Read(i) PROVE StreamInv'
<1> DEFINE s == object.of[i]
           r == Len(s.result) + 1
           took == IF s.queue = <<>> THEN s ELSE [s EXCEPT !.queue = Tail(@)]
           told(with) == [took EXCEPT !.result = Append(@, with)]
           failed == [told(-2) EXCEPT !.lost = @ \cup (ST!Range(s.queue) \ ST!Range(took.queue))]
           waits == [told(0) EXCEPT !.pending = Append(@, r)]
           t == CASE s.errored -> failed
                  [] ~s.errored /\ s.queue # <<>> -> told(Head(s.queue))
                  [] ~s.errored /\ s.queue = <<>> /\ s.closed -> told(-1)
                  [] OTHER -> waits
<1>1. ST!Set(i, t)
  BY DEF ST!Read, ST!Failed, ST!Done, ST!Pending
<1>2. StreamSound(s) /\ s \in StreamStates /\ s.queue \in Seq(Nat \ {0}) /\ s.result \in Seq(Int)
      /\ s.pending \in Seq(Int) /\ s.lost \in SUBSET Int /\ s.closed \in BOOLEAN
  BY DEF StreamInv, StreamSound, StreamStates
<1>3. CASE s.queue # <<>>
  <2> DEFINE h == Head(s.queue)
             lost == s.lost \cup (ST!Range(s.queue) \ ST!Range(Tail(s.queue)))
             x == IF s.errored THEN -2 ELSE h
             lost2 == IF s.errored THEN lost ELSE s.lost
             u == [s EXCEPT !.queue = Tail(s.queue), !.result = Append(s.result, x), !.lost = lost2]
  <2>1. took = [s EXCEPT !.queue = Tail(s.queue)] /\ took.queue = Tail(s.queue) /\ took.result = s.result
        /\ took.lost = s.lost
    BY <1>2, <1>3 DEF StreamStates
  <2>2. t = u
    <3>1. CASE s.errored
      <4>1. t = [told(-2) EXCEPT !.lost = told(-2).lost \cup (ST!Range(s.queue) \ ST!Range(took.queue))]
        BY <3>1
      <4>2. told(-2) = [s EXCEPT !.queue = Tail(s.queue), !.result = Append(s.result, -2)]
        BY <1>2, <1>3 DEF StreamStates
      <4>3. told(-2).lost = s.lost
        BY <1>2, <4>2 DEF StreamStates
      <4> HIDE DEF t, told, took
      <4>4. t = [s EXCEPT !.queue = Tail(s.queue), !.result = Append(s.result, -2), !.lost = lost]
        BY <1>2, <2>1, <4>1, <4>2, <4>3 DEF StreamStates
      <4> QED
        BY <3>1, <4>4
    <3>2. CASE ~s.errored
      <4>1. t = [s EXCEPT !.queue = Tail(s.queue), !.result = Append(s.result, h)]
        BY <3>2, <1>2, <1>3 DEF StreamStates
      <4> HIDE DEF t, told, took
      <4>2. t = [s EXCEPT !.queue = Tail(s.queue), !.result = Append(s.result, h), !.lost = s.lost]
        BY <4>1, <1>2 DEF StreamStates
      <4> QED
        BY <3>2, <4>2
    <3> QED
      BY <3>1, <3>2
  <2>3. h \in Int /\ (\E n \in DOMAIN s.queue : s.queue[n] = h)
        /\ \A n \in DOMAIN Tail(s.queue) : Tail(s.queue)[n] # h
    <3> DEFINE queue == s.queue
               pending == s.pending
               made == s.made
               result == s.result
    <3>1. queue \in Seq(Nat \ {0}) /\ pending \in Seq(Int) /\ made \in Nat /\ result \in Seq(Int)
          /\ Flows(queue, pending, made, result) /\ queue # <<>>
      BY <1>2, <1>3 DEF StreamSound, StreamStates
    <3> HIDE DEF queue, pending, made, result
    <3>2. Head(queue) \in Int /\ 1 \in DOMAIN queue /\ queue[1] = Head(queue)
      BY <3>1, Behind
    <3>3. \A n \in DOMAIN Tail(queue) : Tail(queue)[n] # Head(queue)
      BY <3>1, <3>2, FlowsTook
    <3> QED
      BY <3>2, <3>3 DEF queue
  <2>4. /\ \A n \in DOMAIN s.queue : s.queue[n] \in Int
        /\ x \in Int /\ (x = h \/ x < 0) /\ lost2 \in SUBSET Int /\ s.lost \subseteq lost2 /\ (x = h \/ h \in lost2)
    <3> HIDE DEF t, told, took, h
    <3>1. \A n \in DOMAIN s.queue : s.queue[n] \in Int
      BY <1>2
    <3>2. h \in ST!Range(s.queue) /\ h \notin ST!Range(Tail(s.queue)) /\ ST!Range(s.queue) \subseteq Int
      BY <2>3, <3>1 DEF ST!Range
    <3>3. lost \in SUBSET Int /\ s.lost \subseteq lost /\ h \in lost
      BY <1>2, <3>2
    <3>4. lost2 \in SUBSET Int /\ s.lost \subseteq lost2 /\ (x = h \/ h \in lost2)
      BY <1>2, <3>3
    <3>5. x \in Int /\ (x = h \/ x < 0)
      BY <2>3
    <3> QED
      BY <3>1, <3>4, <3>5
  <2> HIDE DEF t, told, took, h, lost, x, lost2
  <2>5. h = Head(s.queue)
    BY DEF h
  <2> HIDE DEF s
  <2>6. StreamSound(u)
    BY <1>2, <1>3, <2>4, <2>5, StreamTakes
  <2> HIDE DEF u
  <2> QED
    BY <1>1, <2>2, <2>6, StreamSet
<1>4. CASE s.queue = <<>>
  <2> DEFINE x == IF s.errored THEN -2 ELSE IF s.closed THEN -1 ELSE 0
             pending == IF s.errored \/ s.closed THEN s.pending ELSE Append(s.pending, Len(s.result) + 1)
             u == [s EXCEPT !.pending = pending, !.result = Append(s.result, x)]
  <2>1. took = s /\ ST!Range(s.queue) \ ST!Range(took.queue) = {}
    BY <1>4
  <2>2. t = u
    <3>1. CASE s.errored
      <4>1. t = [[s EXCEPT !.result = Append(s.result, -2)] EXCEPT !.lost = @ \cup {}]
        BY <3>1, <2>1
      <4> HIDE DEF t, told, took
      <4>2. t = [s EXCEPT !.pending = s.pending, !.result = Append(s.result, -2)]
        BY <4>1, <1>2 DEF StreamStates
      <4> QED
        BY <3>1, <4>2
    <3>2. CASE ~s.errored /\ s.closed
      <4>1. t = [s EXCEPT !.result = Append(s.result, -1)]
        BY <3>2, <1>4
      <4> HIDE DEF t, told, took
      <4>2. t = [s EXCEPT !.pending = s.pending, !.result = Append(s.result, -1)]
        BY <4>1, <1>2 DEF StreamStates
      <4> QED
        BY <3>2, <4>2
    <3>3. CASE ~s.errored /\ ~s.closed
      <4>1. t = [[s EXCEPT !.result = Append(s.result, 0)] EXCEPT !.pending = Append(@, r)]
        BY <3>3, <1>4
      <4> HIDE DEF t, told, took
      <4>2. t = [s EXCEPT !.pending = Append(s.pending, r), !.result = Append(s.result, 0)]
        BY <4>1, <1>2 DEF StreamStates
      <4> QED
        BY <3>3, <4>2
    <3> QED
      BY <3>1, <3>2, <3>3
  <2>3. x \in Int /\ (\/ x < 0 /\ pending = s.pending
                      \/ x = 0 /\ pending = Append(s.pending, Len(s.result) + 1))
    BY <1>2
  <2> HIDE DEF t, told, took, x, pending, s
  <2>4. StreamSound(u)
    BY <1>2, <1>4, <2>3, StreamTells
  <2> HIDE DEF u
  <2> QED
    BY <1>1, <2>2, <2>4, StreamSet
<1> QED
  BY <1>3, <1>4

\* What is known of a stream.
LEMMA StreamParts ==
  ASSUME NEW s, StreamSound(s)
  PROVE  /\ s \in StreamStates /\ s.queue \in Seq(Nat \ {0}) /\ s.pending \in Seq(Int) /\ s.result \in Seq(Int)
         /\ s.made \in 0..MaxChunks /\ s.made \in Nat /\ s.closed \in BOOLEAN /\ s.errored \in BOOLEAN
         /\ s.piped \in SUBSET Int
         /\ Flows(s.queue, s.pending, s.made, s.result)
         /\ s.cancelled \/ Kept(s.queue, s.made, s.result, s.piped \cup s.lost)
<1>1. s \in StreamStates
  BY DEF StreamSound
<1>2. /\ s.queue \in Seq(Nat \ {0}) /\ s.pending \in Seq(Int) /\ s.result \in Seq(Int)
      /\ s.made \in 0..MaxChunks /\ s.closed \in BOOLEAN /\ s.errored \in BOOLEAN
      /\ s.piped \in SUBSET Int
  BY <1>1 DEF StreamStates
<1>3. s.made \in Nat
  BY <1>2
<1>4. /\ Flows(s.queue, s.pending, s.made, s.result)
      /\ s.cancelled \/ Kept(s.queue, s.made, s.result, s.piped \cup s.lost)
  BY DEF StreamSound
<1> QED
  BY <1>1, <1>2, <1>3, <1>4

\* A reader, or the end of one; a cancel; chunks that are piped.
LEMMA StreamScripts ==
  ASSUME StreamInv, NEW i \in DOMAIN object.of,
         ST!GetReader(i) \/ ST!ReleaseLock(i) \/ ST!Cancel(i)
  PROVE  StreamInv'
<1> DEFINE s == object.of[i]
<1>e. <<>> \in Seq(Nat \ {0}) /\ <<>> \in Seq(Int) /\ {} \in SUBSET Int
  OBVIOUS
<1>1. /\ s \in StreamStates /\ StreamSound(s)
      /\ s.queue \in Seq(Nat \ {0}) /\ s.pending \in Seq(Int) /\ s.made \in Nat /\ s.result \in Seq(Int)
      /\ Flows(s.queue, s.pending, s.made, s.result)
  <2>1. StreamSound(s)
    BY DEF StreamInv
  <2> HIDE DEF s
  <2> QED
    BY <2>1, StreamParts
<1>2. ASSUME NEW b \in BOOLEAN, ST!Set(i, [s EXCEPT !.locked = b]) PROVE StreamInv'
  <2> DEFINE t == [s EXCEPT !.locked = b]
  <2>1. /\ t \in StreamStates /\ t.queue = s.queue /\ t.pending = s.pending /\ t.made = s.made
        /\ t.result = s.result /\ t.cancelled = s.cancelled /\ t.piped = s.piped /\ t.lost = s.lost
    BY <1>1 DEF StreamStates
  <2> HIDE DEF t, s
  <2>2. StreamSound(t)
    BY <1>1, <2>1 DEF StreamSound
  <2> QED
    BY <1>2, <2>2, StreamSet DEF t
<1>3. CASE ST!GetReader(i) \/ ST!ReleaseLock(i)
  BY <1>2, <1>3 DEF ST!GetReader, ST!ReleaseLock
<1>4. CASE ST!Cancel(i)
  <2> DEFINE t == [s EXCEPT !.closed = TRUE, !.queue = <<>>, !.cancelled = TRUE]
  <2>1. /\ t \in StreamStates /\ t.queue = <<>> /\ t.pending = s.pending /\ t.made = s.made
        /\ t.result = s.result /\ t.cancelled = TRUE
    BY <1>e, <1>1 DEF StreamStates
  <2>2. ST!Set(i, t)
    BY <1>4 DEF ST!Cancel
  <2> HIDE DEF t, s
  <2>3. Flows(<<>>, s.pending, s.made, s.result)
    BY <1>1, FlowsOut
  <2>4. StreamSound(t)
    BY <2>1, <2>3 DEF StreamSound
  <2> QED
    BY <2>2, <2>4, StreamSet
<1> QED
  BY <1>3, <1>4

\* Chunks are piped to the writable.
LEMMA StreamPipes ==
  ASSUME StreamInv, NEW i \in DOMAIN object.of, ST!PipeTo(i)
  PROVE  StreamInv'
<1> DEFINE s == object.of[i]
           piped == s.piped \cup ST!Range(s.queue)
           t == [s EXCEPT !.queue = <<>>, !.piped = piped]
           of == [object.of EXCEPT ![i] = t]
<1>e. <<>> \in Seq(Nat \ {0}) /\ <<>> \in Seq(Int) /\ {} \in SUBSET Int
  OBVIOUS
<1>1. /\ s \in StreamStates /\ StreamSound(s)
      /\ s.queue \in Seq(Nat \ {0}) /\ s.pending \in Seq(Int) /\ s.made \in Nat /\ s.result \in Seq(Int)
      /\ s.piped \in SUBSET Int
      /\ Flows(s.queue, s.pending, s.made, s.result)
      /\ s.cancelled \/ Kept(s.queue, s.made, s.result, s.piped \cup s.lost)
  <2>1. StreamSound(s)
    BY DEF StreamInv
  <2> HIDE DEF s
  <2> QED
    BY <2>1, StreamParts
<1>2. piped \in SUBSET Int /\ ST!Range(s.queue) = {s.queue[n] : n \in DOMAIN s.queue}
  <2>1. \A n \in DOMAIN s.queue : s.queue[n] \in Int
    BY <1>1
  <2> QED
    BY <1>1, <2>1 DEF ST!Range
<1>3. /\ t \in StreamStates /\ t.queue = <<>> /\ t.pending = s.pending /\ t.made = s.made
      /\ t.result = s.result /\ t.cancelled = s.cancelled /\ t.piped = piped /\ t.lost = s.lost
  BY <1>e, <1>1, <1>2 DEF StreamStates
<1>4. (s.piped \cup s.lost) \cup {s.queue[n] : n \in DOMAIN s.queue} \subseteq piped \cup s.lost
  BY <1>2
<1> HIDE DEF t
<1>5. /\ DOMAIN object' = {"of", "sink", "sinkClosed"} /\ object' = [n \in DOMAIN object' |-> object'[n]]
      /\ object'.of = of
  BY DEF ST!PipeTo, StreamInv, t
<1> HIDE DEF s, piped
<1>6. /\ Flows(<<>>, s.pending, s.made, s.result)
      /\ Kept(s.queue, s.made, s.result, s.piped \cup s.lost) => Kept(<<>>, s.made, s.result, piped \cup s.lost)
  BY <1>1, <1>4, FlowsOut
<1>7. StreamSound(t)
  BY <1>1, <1>3, <1>6 DEF StreamSound
<1>8. /\ of \in Seq(StreamStates) /\ of # <<>> /\ DOMAIN of = DOMAIN object.of
      /\ \A j \in DOMAIN of : StreamSound(of[j])
  BY <1>3, <1>7 DEF StreamInv
<1> HIDE DEF of
<1> QED
  BY <1>5, <1>8 DEF StreamInv

\* A stream branches.
LEMMA StreamTees ==
  ASSUME ST!Bounds, StreamInv, NEW i \in DOMAIN object.of, ST!Tee(i)
  PROVE  StreamInv'
<1> DEFINE s == object.of[i]
           piped == ST!Chunk \ ST!Range(s.queue)
           t == [ST!Fresh(s.queue, s.made, s.closed, s.errored) EXCEPT !.piped = piped]
           two == <<t, t>>
           of == object.of \o two
<1>e. <<>> \in Seq(Nat \ {0}) /\ <<>> \in Seq(Int) /\ {} \in SUBSET Int
  OBVIOUS
<1>1. /\ s \in StreamStates /\ StreamSound(s)
      /\ s.queue \in Seq(Nat \ {0})
      /\ s.pending \in Seq(Int) /\ s.made \in Nat /\ s.result \in Seq(Int)
      /\ s.made \in 0..MaxChunks /\ MaxChunks \in Nat /\ s.closed \in BOOLEAN /\ s.errored \in BOOLEAN
      /\ Flows(s.queue, s.pending, s.made, s.result)
  <2>1. StreamSound(s) /\ MaxChunks \in Nat
    BY DEF StreamInv, ST!Bounds
  <2> HIDE DEF s
  <2> QED
    BY <2>1, StreamParts
<1>2. piped \in SUBSET Int /\ (1..s.made) \ {s.queue[n] : n \in DOMAIN s.queue} \subseteq piped
  BY <1>1 DEF ST!Range, ST!Chunk
<1> HIDE DEF piped
<1>3. /\ t \in StreamStates /\ t.queue = s.queue /\ t.pending = <<>> /\ t.made = s.made
      /\ t.result = <<>> /\ t.piped \cup t.lost = piped
  BY <1>e, <1>1, <1>2 DEF StreamStates, ST!Fresh
<1> HIDE DEF t
<1>4. /\ DOMAIN object' = {"of", "sink", "sinkClosed"} /\ object' = [n \in DOMAIN object' |-> object'[n]]
      /\ object'.of = of
  BY DEF ST!Tee, StreamInv, t, piped
<1> HIDE DEF s
<1>5. Flows(s.queue, <<>>, s.made, <<>>) /\ Kept(s.queue, s.made, <<>>, piped)
  BY <1>1, <1>2, FlowsOut
<1>6. StreamSound(t)
  BY <1>3, <1>5 DEF StreamSound
<1>7. /\ of \in Seq(StreamStates) /\ of # <<>>
      /\ \A j \in DOMAIN of : of[j] = t \/ (j \in DOMAIN object.of /\ of[j] = object.of[j])
  <2>1. object.of \in Seq(StreamStates) /\ object.of # <<>>
    BY DEF StreamInv
  <2>2. two \in Seq(StreamStates) /\ Len(two) = 2 /\ two[1] = t /\ two[2] = t
    BY <1>3
  <2> HIDE DEF two
  <2>3. /\ of \in Seq(StreamStates) /\ Len(of) = Len(object.of) + 2 /\ Len(object.of) \in Nat
        /\ \A j \in 1..(Len(object.of) + 2) :
             of[j] = IF j <= Len(object.of) THEN object.of[j] ELSE two[j - Len(object.of)]
    <3> DEFINE f == object.of
    <3>1. f \in Seq(StreamStates) /\ two \in Seq(StreamStates) /\ Len(two) = 2
      BY <2>1, <2>2
    <3> HIDE DEF f
    <3>a. f \o two \in Seq(StreamStates) /\ Len(f \o two) = Len(f) + Len(two)
      BY <3>1, ConcatProperties, Zenon
    <3>b. Len(f) \in Nat
      BY <3>1, LenProperties, Zenon
    <3>2. f \o two \in Seq(StreamStates) /\ Len(f \o two) = Len(f) + Len(two) /\ Len(f) \in Nat
      BY <3>a, <3>b
    <3>3. \A j \in 1..(Len(f) + Len(two)) : (f \o two)[j] = IF j <= Len(f) THEN f[j] ELSE two[j - Len(f)]
      BY <3>1, ConcatProperties
    <3> QED
      BY <3>1, <3>2, <3>3 DEF f
  <2>4. of # <<>>
    BY <2>3
  <2>5. ASSUME NEW j \in DOMAIN of PROVE of[j] = t \/ (j \in DOMAIN object.of /\ of[j] = object.of[j])
    <3>1. j \in 1..(Len(object.of) + 2) /\ DOMAIN object.of = 1..Len(object.of)
      BY <2>1, <2>3
    <3>2. CASE j <= Len(object.of)
      BY <3>1, <3>2, <2>3
    <3>3. CASE j > Len(object.of)
      <4>1. j - Len(object.of) \in 1..2 /\ of[j] = two[j - Len(object.of)]
        BY <3>1, <3>3, <2>3
      <4>2. \A k \in 1..2 : two[k] = t
        BY <2>2
      <4> QED
        BY <4>1, <4>2
    <3> QED
      BY <3>1, <3>2, <3>3, <2>3
  <2> QED
    BY <2>3, <2>4, <2>5
<1> HIDE DEF of
<1> QED
  BY <1>4, <1>6, <1>7 DEF StreamInv

\* Every step keeps it.
LEMMA StreamSteps == ASSUME ST!Bounds, StreamInv, ST!Next PROVE StreamInv'
<1>1. CASE ST!Write \/ ST!CloseSink
  <2>1. /\ DOMAIN object' = DOMAIN object /\ object' = [n \in DOMAIN object' |-> object'[n]]
        /\ object'.of = object.of
    BY <1>1 DEF ST!Write, ST!CloseSink, StreamInv
  <2> QED
    BY <2>1 DEF StreamInv
<1>2. CASE ST!Enqueue \/ ST!Close \/ ST!Error
  BY <1>2, StreamEnqueues, StreamEnds
<1>3. ASSUME NEW i \in DOMAIN object.of,
             ST!GetReader(i) \/ ST!ReleaseLock(i) \/ ST!Read(i) \/ ST!Cancel(i) \/ ST!Tee(i) \/ ST!PipeTo(i)
      PROVE  StreamInv'
  BY <1>3, StreamScripts, StreamReads, StreamTees, StreamPipes
<1> QED
  BY <1>1, <1>2, <1>3 DEF ST!Next, ST!Stream

\* It says that chunks come in order.
LEMMA StreamTold == ASSUME StreamInv PROVE ST!ChunksInOrder
<1> SUFFICES ASSUME NEW i \in DOMAIN object.of
             PROVE  LET s == object.of[i]
                        got == {r \in DOMAIN s.result : s.result[r] \in ST!Chunk}
                    IN /\ \A a, b \in got : a < b => s.result[a] < s.result[b]
                       /\ s.queue # <<>> => s.pending = <<>>
                       /\ \A r \in DOMAIN s.result : s.result[r] = 0 <=> r \in ST!Range(s.pending)
                       /\ ~s.cancelled =>
                            1..s.made \subseteq ST!Range(s.queue) \cup ST!Range(s.result) \cup s.piped \cup s.lost
  BY DEF ST!ChunksInOrder, ST!Stream, ST!Pending
<1> DEFINE s == object.of[i]
<1>1. /\ Flows(s.queue, s.pending, s.made, s.result)
      /\ s.cancelled \/ Kept(s.queue, s.made, s.result, s.piped \cup s.lost)
  BY DEF StreamInv, StreamSound
<1> HIDE DEF s
<1>2. \A a, b \in {r \in DOMAIN s.result : s.result[r] \in ST!Chunk} : a < b => s.result[a] < s.result[b]
  <2>1. \A r \in DOMAIN s.result : s.result[r] \in ST!Chunk => s.result[r] > 0
    BY DEF ST!Chunk
  <2>2. \A a, b \in DOMAIN s.result : a < b /\ s.result[a] > 0 /\ s.result[b] > 0 => s.result[a] < s.result[b]
    BY <1>1 DEF Flows
  <2> QED
    BY <2>1, <2>2
<1>3. s.queue # <<>> => s.pending = <<>>
  BY <1>1 DEF Flows
<1>4. \A r \in DOMAIN s.result : s.result[r] = 0 <=> r \in ST!Range(s.pending)
  BY <1>1 DEF Flows, ST!Range
<1>5. ~s.cancelled =>
        1..s.made \subseteq ST!Range(s.queue) \cup ST!Range(s.result) \cup s.piped \cup s.lost
  BY <1>1 DEF Kept, ST!Range
<1> QED
  BY <1>2, <1>3, <1>4, <1>5 DEF s

----------------------------------------------------------------------------
(* Codecs. *)

MediaStates == [kind : {"frame", "audio", "chunk"}, data : Int, live : BOOLEAN]
CodecStates ==
  [kind : {"VideoEncoder", "VideoDecoder", "AudioEncoder", "AudioDecoder"},
   configured : BOOLEAN, closed : BOOLEAN, state : {"unconfigured", "configured", "closed"},
   took : Seq(Int), gave : Seq(Int), atClose : Int]

\* What one codec took and gave; what its object says.
InStep(took, gave) == Len(gave) = Len(took) /\ \A i \in DOMAIN gave : gave[i] \in {0, took[i]}
Says(s) == (s.state = "unconfigured" => ~s.configured) /\ (s.state = "closed" => s.closed)
CodecSound(s) ==
  /\ s \in CodecStates /\ InStep(s.took, s.gave) /\ (s.closed => Len(s.gave) = s.atClose) /\ Says(s)

CodecInv ==
  /\ object \in [media : Seq(MediaStates), codecs : Seq(CodecStates), data : Int]
  /\ \A c \in DOMAIN object.codecs : CodecSound(object.codecs[c])

\* One output more for one input more.
LEMMA MatchedMore ==
  ASSUME NEW took \in Seq(Int), NEW gave \in Seq(Int), InStep(took, gave), NEW x \in Int, NEW y \in {0, x}
  PROVE  /\ InStep(Append(took, x), Append(gave, y))
         /\ Append(took, x) \in Seq(Int) /\ Append(gave, y) \in Seq(Int)
<1> DEFINE took2 == Append(took, x)
           gave2 == Append(gave, y)
           l == Len(took)
<1>1. l \in Nat /\ l = Len(gave) /\ DOMAIN gave = 1..l /\ y \in Int
  BY DEF InStep
<1>2. /\ took2 \in Seq(Int) /\ Len(took2) = l + 1 /\ took2[l + 1] = x
      /\ \A i \in 1..l : took2[i] = took[i]
  BY Appended
<1>3. /\ gave2 \in Seq(Int) /\ Len(gave2) = l + 1 /\ gave2[l + 1] = y /\ DOMAIN gave2 = 1..(l + 1)
      /\ \A i \in 1..l : gave2[i] = gave[i]
  BY <1>1, Appended
<1> HIDE DEF took2, gave2, l
<1>4. \A i \in 1..l : gave[i] \in {0, took[i]}
  BY <1>1 DEF InStep
<1>5. \A i \in 1..(l + 1) : i = l + 1 \/ i \in 1..l
  BY <1>1
<1>6. InStep(took2, gave2)
  BY <1>2, <1>3, <1>4, <1>5 DEF InStep
<1> QED
  BY <1>2, <1>3, <1>6 DEF took2, gave2

\* A step of one codec; of the media at most.
LEMMA CodecSet ==
  ASSUME CodecInv, NEW c \in DOMAIN object.codecs, NEW s, CodecSound(s),
         object' \in [media : Seq(MediaStates), codecs : Seq(CodecStates), data : Int],
         object'.codecs = [object.codecs EXCEPT ![c] = s]
  PROVE  CodecInv'
<1> DEFINE codecs == object.codecs
<1>1. codecs \in Seq(CodecStates) /\ \A d \in DOMAIN codecs : CodecSound(codecs[d])
  BY DEF CodecInv
<1> HIDE DEF codecs
<1>2. \A d \in DOMAIN [codecs EXCEPT ![c] = s] : CodecSound([codecs EXCEPT ![c] = s][d])
  BY <1>1
<1> QED
  BY <1>2 DEF CodecInv, codecs

\* A step of the media only.
LEMMA CodecKept ==
  ASSUME CodecInv, object' \in [media : Seq(MediaStates), codecs : Seq(CodecStates), data : Int],
         object'.codecs = object.codecs
  PROVE  CodecInv'
  BY DEF CodecInv

\* It holds at first.
LEMMA CodecFirst == ASSUME WC!Init PROVE CodecInv
  BY DEF WC!Init, CodecInv

\* Media come and go.
LEMMA CodecMedia ==
  ASSUME CodecInv,
         \/ WC!NewVideoFrame \/ WC!NewAudioData \/ WC!NewEncodedChunk
         \/ WC!CloneVideoFrame \/ WC!CloseVideoFrame \/ WC!CloneAudioData \/ WC!CloseAudioData
  PROVE  CodecInv'
<1> DEFINE media == object.media
<1>1. media \in Seq(MediaStates) /\ object.data \in Int
      /\ object \in [media : Seq(MediaStates), codecs : Seq(CodecStates), data : Int]
  BY DEF CodecInv
<1>2. ASSUME NEW k \in {"frame", "audio", "chunk"}, WC!New(k) PROVE CodecInv'
  <2> DEFINE x == [object EXCEPT !.data = @ + 1]
             e == [kind |-> k, data |-> object.data + 1, live |-> TRUE]
  <2>1. object' = [x EXCEPT !.media = Append(@, e)]
    BY <1>2 DEF WC!New, WC!Inserted
  <2>2. e \in MediaStates
    BY <1>1 DEF MediaStates
  <2> HIDE DEF e
  <2>3. x \in [media : Seq(MediaStates), codecs : Seq(CodecStates), data : Int] /\ x.codecs = object.codecs /\ x.media = media
    BY <1>1
  <2> HIDE DEF x
  <2>4. Append(media, e) \in Seq(MediaStates)
    BY <1>1, <2>2
  <2> HIDE DEF media
  <2>5. object' \in [media : Seq(MediaStates), codecs : Seq(CodecStates), data : Int] /\ object'.codecs = object.codecs
    BY <2>1, <2>3, <2>4
  <2> QED
    BY <2>5, CodecKept
<1>3. ASSUME NEW k \in {"frame", "audio", "chunk"}, WC!CloneMedia(k) PROVE CodecInv'
  <2>1. PICK m \in DOMAIN media : object' = WC!Inserted(object, k, media[m].data)
    BY <1>3 DEF WC!CloneMedia, WC!Media
  <2> DEFINE e == [kind |-> k, data |-> media[m].data, live |-> TRUE]
  <2>2. object' = [object EXCEPT !.media = Append(@, e)]
    BY <2>1 DEF WC!Inserted
  <2>3. e \in MediaStates
    <3>1. media[m] \in MediaStates
      BY <1>1
    <3> QED
      BY <3>1 DEF MediaStates
  <2> HIDE DEF e
  <2>4. Append(media, e) \in Seq(MediaStates)
    BY <1>1, <2>3
  <2>5. object' = [object EXCEPT !.media = Append(media, e)]
    BY <2>2
  <2> HIDE DEF media
  <2>6. object' \in [media : Seq(MediaStates), codecs : Seq(CodecStates), data : Int] /\ object'.codecs = object.codecs
    BY <1>1, <2>4, <2>5
  <2> QED
    BY <2>6, CodecKept
<1>4. ASSUME NEW k, WC!CloseMedia(k) PROVE CodecInv'
  <2>1. PICK m \in DOMAIN media : object' = [object EXCEPT !.media[m].live = FALSE]
    BY <1>4 DEF WC!CloseMedia, WC!Media
  <2> DEFINE e == [media[m] EXCEPT !.live = FALSE]
  <2>2. e \in MediaStates
    <3>1. media[m] \in MediaStates
      BY <1>1
    <3> QED
      BY <3>1 DEF MediaStates
  <2>3. object' = [object EXCEPT !.media = [media EXCEPT ![m] = e]]
    BY <2>1, <1>1
  <2> HIDE DEF e
  <2>4. [media EXCEPT ![m] = e] \in Seq(MediaStates)
    BY <1>1, <2>2
  <2> DEFINE media2 == [media EXCEPT ![m] = e]
  <2> HIDE DEF media2
  <2>5. media2 \in Seq(MediaStates) /\ object' = [object EXCEPT !.media = media2]
    BY <2>3, <2>4 DEF media2
  <2>6. object' \in [media : Seq(MediaStates), codecs : Seq(CodecStates), data : Int] /\ object'.codecs = object.codecs
    BY <1>1, <2>5
  <2> QED
    BY <2>6, CodecKept
<1> QED
  BY <1>2, <1>3, <1>4
     DEF WC!NewVideoFrame, WC!NewAudioData, WC!NewEncodedChunk, WC!CloneVideoFrame, WC!CloseVideoFrame,
         WC!CloneAudioData, WC!CloseAudioData

\* A codec is made.
LEMMA CodecMade ==
  ASSUME CodecInv, WC!NewVideoCodec \/ WC!NewAudioCodec
  PROVE  CodecInv'
<1> DEFINE codecs == object.codecs
<1>1. PICK k \in {"VideoEncoder", "VideoDecoder", "AudioEncoder", "AudioDecoder"} : WC!NewCodec(k)
  BY DEF WC!NewVideoCodec, WC!NewAudioCodec, WC!VideoCodecs, WC!AudioCodecs
<1> DEFINE s == [kind |-> k, configured |-> FALSE, closed |-> FALSE, state |-> "unconfigured",
                 took |-> <<>>, gave |-> <<>>, atClose |-> 0]
<1>2. object' = [object EXCEPT !.codecs = Append(codecs, s)]
  BY <1>1 DEF WC!NewCodec
<1>3. CodecSound(s)
  <2>1. s \in CodecStates /\ s.took = <<>> /\ s.gave = <<>> /\ s.closed = FALSE /\ s.configured = FALSE /\ s.state = "unconfigured"
    BY DEF CodecStates
  <2> HIDE DEF s
  <2>2. InStep(s.took, s.gave) /\ Says(s)
    BY <2>1 DEF InStep, Says
  <2> QED
    BY <2>1, <2>2 DEF CodecSound
<1>4. s \in CodecStates
  BY <1>3 DEF CodecSound
<1> HIDE DEF s
<1>5. codecs \in Seq(CodecStates) /\ \A d \in DOMAIN codecs : CodecSound(codecs[d])
  BY DEF CodecInv
<1>6. object \in [media : Seq(MediaStates), codecs : Seq(CodecStates), data : Int]
  BY DEF CodecInv
<1> HIDE DEF codecs
<1>7. /\ Append(codecs, s) \in Seq(CodecStates)
      /\ \A d \in DOMAIN Append(codecs, s) : CodecSound(Append(codecs, s)[d])
  <2>1. /\ Append(codecs, s) \in Seq(CodecStates) /\ DOMAIN Append(codecs, s) = 1..(Len(codecs) + 1)
        /\ Len(codecs) \in Nat /\ Append(codecs, s)[Len(codecs) + 1] = s /\ DOMAIN codecs = 1..Len(codecs)
        /\ \A n \in DOMAIN codecs : Append(codecs, s)[n] = codecs[n]
    BY <1>4, <1>5, Appended
  <2>2. \A d \in 1..(Len(codecs) + 1) : d = Len(codecs) + 1 \/ d \in 1..Len(codecs)
    BY <2>1
  <2> QED
    BY <1>3, <1>5, <2>1, <2>2
<1> DEFINE codecs2 == Append(codecs, s)
<1> HIDE DEF codecs2
<1>8. /\ codecs2 \in Seq(CodecStates) /\ object' = [object EXCEPT !.codecs = codecs2]
      /\ \A d \in DOMAIN codecs2 : CodecSound(codecs2[d])
  BY <1>2, <1>7 DEF codecs2
<1>9. object' \in [media : Seq(MediaStates), codecs : Seq(CodecStates), data : Int] /\ object'.codecs = codecs2
  BY <1>6, <1>8
<1> QED
  BY <1>8, <1>9 DEF CodecInv

\* A codec is configured, reset or closed.
LEMMA CodecScripts ==
  ASSUME CodecInv, NEW kinds, WC!Configure(kinds) \/ WC!Reset(kinds) \/ WC!Close(kinds)
  PROVE  CodecInv'
<1> DEFINE codecs == object.codecs
<1>1. /\ object \in [media : Seq(MediaStates), codecs : Seq(CodecStates), data : Int]
      /\ codecs \in Seq(CodecStates) /\ \A d \in DOMAIN codecs : CodecSound(codecs[d])
  BY DEF CodecInv
<1>2. ASSUME NEW c \in DOMAIN codecs, NEW s, CodecSound(s), object' = [object EXCEPT !.codecs[c] = s]
      PROVE  CodecInv'
  <2>1. s \in CodecStates
    BY <1>2 DEF CodecSound
  <2> DEFINE codecs2 == [codecs EXCEPT ![c] = s]
  <2>2. codecs2 \in Seq(CodecStates)
    BY <1>1, <2>1
  <2>3. object' = [object EXCEPT !.codecs = codecs2]
    BY <1>2
  <2> HIDE DEF codecs2
  <2>4. object' \in [media : Seq(MediaStates), codecs : Seq(CodecStates), data : Int] /\ object'.codecs = codecs2
    BY <1>1, <2>2, <2>3
  <2> QED
    BY <1>2, <2>4, CodecSet DEF codecs2
<1>3. ASSUME NEW c \in DOMAIN codecs
      PROVE  /\ CodecSound([codecs[c] EXCEPT !.configured = TRUE, !.state = "configured"])
             /\ CodecSound([codecs[c] EXCEPT !.configured = FALSE, !.state = "unconfigured"])
             /\ CodecSound([codecs[c] EXCEPT !.closed = TRUE, !.state = "closed", !.atClose = WC!closedAt(codecs[c])])
  <2> DEFINE s == codecs[c]
             a == [s EXCEPT !.configured = TRUE, !.state = "configured"]
             b == [s EXCEPT !.configured = FALSE, !.state = "unconfigured"]
             at == IF s.closed THEN s.atClose ELSE Len(s.gave)
             d == [s EXCEPT !.closed = TRUE, !.state = "closed", !.atClose = at]
  <2>1. /\ CodecSound(s) /\ s \in CodecStates /\ Len(s.gave) \in Int /\ at \in Int
    <3>1. CodecSound(s)
      BY <1>1, <1>3
    <3>2. s \in CodecStates
      BY <3>1 DEF CodecSound
    <3> HIDE DEF s
    <3>3. s.gave \in Seq(Int) /\ s.atClose \in Int
      BY <3>2 DEF CodecStates
    <3> QED
      BY <3>1, <3>2, <3>3
  <2>2. at = Len(s.gave)
    BY <2>1 DEF CodecSound
  <2>3. at = WC!closedAt(s)
    BY DEF WC!closedAt
  <2> HIDE DEF s, at
  <2>4. a \in CodecStates /\ a.took = s.took /\ a.gave = s.gave /\ a.closed = s.closed /\ a.atClose = s.atClose
        /\ a.state = "configured"
    BY <2>1 DEF CodecStates
  <2>5. b \in CodecStates /\ b.took = s.took /\ b.gave = s.gave /\ b.closed = s.closed /\ b.atClose = s.atClose
        /\ b.state = "unconfigured" /\ b.configured = FALSE
    BY <2>1 DEF CodecStates
  <2>6. d \in CodecStates /\ d.took = s.took /\ d.gave = s.gave /\ d.closed = TRUE /\ d.atClose = at
        /\ d.state = "closed"
    BY <2>1 DEF CodecStates
  <2> HIDE DEF a, b, d
  <2>7. CodecSound(a)
    BY <2>1, <2>4 DEF CodecSound, Says
  <2>8. CodecSound(b)
    BY <2>1, <2>5 DEF CodecSound, Says
  <2>9. CodecSound(d)
    BY <2>1, <2>2, <2>6 DEF CodecSound, Says
  <2> QED
    BY <2>3, <2>7, <2>8, <2>9 DEF a, b, d, s
<1>4. CASE WC!Configure(kinds)
  <2>1. PICK c \in DOMAIN codecs :
          object' = [object EXCEPT !.codecs[c] = [codecs[c] EXCEPT !.configured = TRUE, !.state = "configured"]]
    BY <1>4, <1>1 DEF WC!Configure, WC!Of, WC!Codec
  <2> HIDE DEF codecs
  <2> QED
    BY <2>1, <1>2, <1>3
<1>5. CASE WC!Reset(kinds)
  <2>1. PICK c \in DOMAIN codecs :
          object' = [object EXCEPT !.codecs[c] = [codecs[c] EXCEPT !.configured = FALSE, !.state = "unconfigured"]]
    BY <1>5, <1>1 DEF WC!Reset, WC!Of, WC!Codec
  <2> HIDE DEF codecs
  <2> QED
    BY <2>1, <1>2, <1>3
<1>6. CASE WC!Close(kinds)
  <2>1. PICK c \in DOMAIN codecs :
          object' = [object EXCEPT !.codecs[c] = [codecs[c] EXCEPT !.closed = TRUE, !.state = "closed", !.atClose = WC!closedAt(codecs[c])]]
    BY <1>6, <1>1 DEF WC!Close, WC!Of, WC!Codec
  <2> HIDE DEF codecs
  <2> QED
    BY <2>1, <1>2, <1>3
<1> QED
  BY <1>4, <1>5, <1>6

\* A codec gives an output.
LEMMA CodecCodes ==
  ASSUME CodecInv, NEW kinds, WC!Code(kinds)
  PROVE  CodecInv'
<1> DEFINE codecs == object.codecs
           media == object.media
<1>1. /\ object \in [media : Seq(MediaStates), codecs : Seq(CodecStates), data : Int]
      /\ codecs \in Seq(CodecStates) /\ \A d \in DOMAIN codecs : CodecSound(codecs[d])
      /\ media \in Seq(MediaStates)
  BY DEF CodecInv
<1>2. PICK c \in DOMAIN codecs, m \in DOMAIN media, ok \in BOOLEAN :
        LET s == codecs[c]
            data == media[m].data
            out == IF ok THEN data ELSE 0
        IN /\ WC!Ready(s)
           /\ object' = WC!Inserted([object EXCEPT !.codecs[c].took = Append(@, data), !.codecs[c].gave = Append(@, out)],
                                    WC!Gives[s.kind], out)
  BY DEF WC!Code, WC!Of, WC!Codec, WC!Media, WC!Empty
<1> DEFINE s == codecs[c]
           data == media[m].data
           out == IF ok THEN data ELSE 0
           took == Append(s.took, data)
           gave == Append(s.gave, out)
           t == [s EXCEPT !.took = took, !.gave = gave]
           e == [kind |-> WC!Gives[s.kind], data |-> out, live |-> TRUE]
           codecs2 == [codecs EXCEPT ![c] = t]
           media2 == Append(media, e)
<1>3. /\ CodecSound(s) /\ s \in CodecStates /\ data \in Int /\ out \in {0, data} /\ out \in Int
      /\ s.took \in Seq(Int) /\ s.gave \in Seq(Int) /\ InStep(s.took, s.gave) /\ ~s.closed /\ Says(s)
  <2>1. CodecSound(s) /\ media[m] \in MediaStates /\ ~s.closed
    BY <1>1, <1>2 DEF WC!Ready
  <2>2. data \in Int
    BY <2>1 DEF MediaStates
  <2>3. s \in CodecStates
    BY <2>1 DEF CodecSound
  <2> HIDE DEF s, data
  <2> QED
    BY <2>1, <2>2, <2>3 DEF CodecSound, CodecStates
<1>4. WC!Gives[s.kind] \in {"frame", "audio", "chunk"}
  <2>1. s.kind \in {"VideoEncoder", "VideoDecoder", "AudioEncoder", "AudioDecoder"}
    BY <1>3 DEF CodecStates
  <2> QED
    BY <2>1 DEF WC!Gives
<1>5. object' = [object EXCEPT !.codecs = codecs2, !.media = media2]
  BY <1>1, <1>2, <1>3 DEF WC!Inserted, CodecStates
<1>6. InStep(took, gave) /\ took \in Seq(Int) /\ gave \in Seq(Int)
  <2> HIDE DEF s, data, out
  <2> QED
    BY <1>3, MatchedMore
<1>7. e \in MediaStates
  BY <1>3, <1>4 DEF MediaStates
<1> HIDE DEF took, gave, e
<1>8. /\ t \in CodecStates /\ t.took = took /\ t.gave = gave /\ t.closed = s.closed /\ t.configured = s.configured
      /\ t.state = s.state
  BY <1>3, <1>6 DEF CodecStates
<1> HIDE DEF s, t
<1>9. CodecSound(t)
  BY <1>3, <1>6, <1>8 DEF CodecSound, Says
<1>10. codecs2 \in Seq(CodecStates) /\ media2 \in Seq(MediaStates)
  BY <1>1, <1>7, <1>8
<1>11. codecs2 = [object.codecs EXCEPT ![c] = t]
  OBVIOUS
<1> HIDE DEF codecs2, media2
<1>12. object' \in [media : Seq(MediaStates), codecs : Seq(CodecStates), data : Int] /\ object'.codecs = codecs2
  BY <1>1, <1>5, <1>10
<1> QED
  BY <1>9, <1>11, <1>12, CodecSet

\* Every step keeps it.
LEMMA CodecSteps == ASSUME CodecInv, WC!Next PROVE CodecInv'
<1>1. CASE WC!NewVideoCodec \/ WC!NewAudioCodec
  BY <1>1, CodecMade
<1>2. CASE WC!ConfigureVideo \/ WC!CloseVideo \/ WC!ResetVideo \/ WC!ConfigureAudio \/ WC!CloseAudio \/ WC!ResetAudio
  BY <1>2, CodecScripts DEF WC!ConfigureVideo, WC!CloseVideo, WC!ResetVideo, WC!ConfigureAudio, WC!CloseAudio,
         WC!ResetAudio
<1>3. CASE WC!EncodeVideo \/ WC!DecodeVideo \/ WC!EncodeAudio \/ WC!DecodeAudio
  BY <1>3, CodecCodes DEF WC!EncodeVideo, WC!DecodeVideo, WC!EncodeAudio, WC!DecodeAudio
<1> QED
  BY <1>1, <1>2, <1>3, CodecMedia DEF WC!Next

\* It says that outputs match.
LEMMA CodecTold == ASSUME CodecInv PROVE WC!OutputsMatch
  BY DEF CodecInv, CodecSound, InStep, Says, WC!OutputsMatch, WC!Codec, WC!Empty

----------------------------------------------------------------------------
(* Mutation observers. *)

MutRecords == [id : Nat, target : Watched, kind : Kind]
MutCalls == [of : MutationObserver, records : Seq(MutRecords)]
MutStates ==
  [made : Seq(MutationObserver), watches : [MutationObserver -> Seq(MO!Watch)], pending : Seq(MutRecords),
   calls : Seq(MutCalls), pushed : Nat, heard : [MutationObserver -> Seq(Nat)],
   owed : [MutationObserver -> SUBSET Nat]]

\* Records lie in the order they were pushed in, and none of them is newer than the last.
InTurn(records, pushed) ==
  /\ \A i, j \in DOMAIN records : i < j => records[i].id < records[j].id
  /\ \A i \in DOMAIN records : records[i].id <= pushed

\* The record x was drained.
Drained(u, x) == x <= u.pushed /\ \A i \in DOMAIN u.pending : x < u.pending[i].id

\* Each observer is to be called once, with drained records in their turn.
DueInTurn(u) ==
  /\ \A c, d \in DOMAIN u.calls : c # d => u.calls[c].of # u.calls[d].of
  /\ \A c \in DOMAIN u.calls :
       /\ InTurn(u.calls[c].records, u.pushed)
       /\ \A i \in DOMAIN u.calls[c].records : Drained(u, u.calls[c].records[i].id)

\* It heard of drained records in their order, all before those it is due to hear of.
HeardInTurn(u) ==
  \A o \in MutationObserver :
    /\ \A i, j \in DOMAIN u.heard[o] : i < j => u.heard[o][i] < u.heard[o][j]
    /\ \A k \in DOMAIN u.heard[o] :
         /\ Drained(u, u.heard[o][k])
         /\ \A c \in DOMAIN u.calls : u.calls[c].of = o =>
              \A i \in DOMAIN u.calls[c].records : u.heard[o][k] < u.calls[c].records[i].id

\* o heard of x, is due to, or watches for it while it is pending.
Reaches(u, o, x) ==
  \/ \E k \in DOMAIN u.heard[o] : u.heard[o][k] = x
  \/ \E c \in DOMAIN u.calls : u.calls[c].of = o /\ \E i \in DOMAIN u.calls[c].records : u.calls[c].records[i].id = x
  \/ \E i \in DOMAIN u.pending : u.pending[i].id = x /\ MO!Matches(u, o, u.pending[i])

MutSound(u) ==
  /\ u \in MutStates
  /\ InTurn(u.pending, u.pushed) /\ DueInTurn(u) /\ HeardInTurn(u)
  /\ \A o \in MutationObserver : \A x \in u.owed[o] : Reaches(u, o, x)
  /\ \A i, j \in DOMAIN u.made : i # j => u.made[i] # u.made[j]
  /\ \A o \in MutationObserver : u.watches[o] # <<>> => \E i \in DOMAIN u.made : u.made[i] = o

MutInv == MutSound(object)

\* It holds at first.
LEMMA MutFirst == ASSUME MO!Init PROVE MutInv
<1>1. object \in MutStates
  BY DEF MO!Init, MutStates
<1> QED
  BY <1>1 DEF MO!Init, MutInv, MutSound, InTurn, DueInTurn, HeardInTurn

\* It says that mutations are heard of.
LEMMA MutTold == ASSUME MutInv PROVE MO!MutationsHeard
<1> DEFINE u == object
<1>1. u \in MutStates /\ HeardInTurn(u) /\ \A o \in MutationObserver : \A x \in u.owed[o] : Reaches(u, o, x)
  BY DEF MutInv, MutSound
<1> SUFFICES ASSUME NEW o \in MutationObserver
             PROVE  /\ \A i, j \in DOMAIN u.heard[o] : i < j => u.heard[o][i] < u.heard[o][j]
                    /\ u.owed[o] \subseteq MO!Range(u.heard[o]) \cup MO!Due(o) \cup MO!Range(MO!Ids(u.pending))
  BY DEF MO!MutationsHeard
<1>2. \A i, j \in DOMAIN u.heard[o] : i < j => u.heard[o][i] < u.heard[o][j]
  BY <1>1 DEF HeardInTurn
<1>3. ASSUME NEW x \in u.owed[o]
      PROVE  x \in MO!Range(u.heard[o]) \/ x \in MO!Due(o) \/ x \in MO!Range(MO!Ids(u.pending))
  <2>1. Reaches(u, o, x)
    BY <1>1
  <2>2. CASE \E k \in DOMAIN u.heard[o] : u.heard[o][k] = x
    BY <2>2 DEF MO!Range
  <2>3. ASSUME NEW c \in DOMAIN u.calls, u.calls[c].of = o, NEW i \in DOMAIN u.calls[c].records,
               u.calls[c].records[i].id = x
        PROVE  x \in MO!Due(o)
    <3>1. x \in MO!Range(MO!Ids(u.calls[c].records))
      BY <2>3 DEF MO!Range, MO!Ids
    <3>2. u.calls[c] \in MO!Range(u.calls)
      BY DEF MO!Range
    <3> QED
      BY <2>3, <3>1, <3>2 DEF MO!Due
  <2>4. CASE \E i \in DOMAIN u.pending : u.pending[i].id = x
    BY <2>4 DEF MO!Range, MO!Ids
  <2> QED
    BY <2>1, <2>2, <2>3, <2>4 DEF Reaches
<1> QED
  BY <1>2, <1>3

\* A record is pushed.
LEMMA MutPushed ==
  ASSUME MO!Bounds, MutInv, NEW t \in Watched, NEW k \in Kind, MO!PushMutationRecord(t, k)
  PROVE  MutInv'
<1> DEFINE u == object
           v == object'
           r == [id |-> u.pushed + 1, target |-> t, kind |-> k]
           l == Len(u.pending)
<1>1. MutSound(u)
  BY DEF MutInv
<1>2. u \in MutStates /\ r \in MutRecords
  BY <1>1 DEF MutSound, MutStates, MutRecords
<1>3. /\ v \in MutStates
      /\ v.made = u.made /\ v.watches = u.watches /\ v.calls = u.calls /\ v.heard = u.heard
      /\ v.pushed = u.pushed + 1 /\ v.pending = Append(u.pending, r)
      /\ \A o \in MutationObserver :
           v.owed[o] = IF MO!Matches(u, o, r) THEN u.owed[o] \cup {r.id} ELSE u.owed[o]
  <2>1. v = [u EXCEPT !.pushed = @ + 1, !.pending = Append(@, r),
               !.owed = [o \in MutationObserver |->
                           IF MO!Matches(u, o, r) THEN u.owed[o] \cup {r.id} ELSE u.owed[o]]]
    BY DEF MO!PushMutationRecord, MO!Matches
  <2> DEFINE owed == [o \in MutationObserver |-> IF MO!Matches(u, o, r) THEN u.owed[o] \cup {r.id} ELSE u.owed[o]]
             pending == Append(u.pending, r)
  <2>2. pending \in Seq(MutRecords)
    BY <1>2, Appended DEF MutStates
  <2>3. owed \in [MutationObserver -> SUBSET Nat]
    <3>1. r.id \in Nat /\ u.owed \in [MutationObserver -> SUBSET Nat]
      BY <1>2 DEF MutStates
    <3> HIDE DEF r
    <3> QED
      BY <3>1
  <2>4. v = [u EXCEPT !.pushed = @ + 1, !.pending = pending, !.owed = owed]
    BY <2>1
  <2>5. \A o \in MutationObserver :
          owed[o] = IF MO!Matches(u, o, r) THEN u.owed[o] \cup {r.id} ELSE u.owed[o]
    OBVIOUS
  <2> HIDE DEF owed, pending, r
  <2>6. v.owed = owed /\ v.pending = pending
    BY <1>2, <2>4 DEF MutStates
  <2>7. u.pushed + 1 \in Nat
    BY <1>2 DEF MutStates
  <2>8. v.made = u.made /\ v.watches = u.watches /\ v.calls = u.calls /\ v.heard = u.heard
        /\ v.pushed = u.pushed + 1
    BY <1>2, <2>4 DEF MutStates
  <2>9. v \in MutStates
    BY <1>2, <2>2, <2>3, <2>4, <2>7 DEF MutStates
  <2> QED
    BY <2>5, <2>6, <2>8, <2>9 DEF pending
<1>4. /\ DOMAIN v.pending = 1..(l + 1) /\ l \in Nat /\ DOMAIN u.pending = 1..l
      /\ v.pending[l + 1] = r /\ \A i \in DOMAIN u.pending : v.pending[i] = u.pending[i]
  BY <1>2, <1>3, Appended DEF MutStates
<1>5. /\ \A i \in DOMAIN u.pending : u.pending[i].id \in Nat
      /\ u.pushed \in Nat /\ r.id = u.pushed + 1
      /\ \A o \in MutationObserver : \A k2 \in DOMAIN u.heard[o] : u.heard[o][k2] \in Nat
      /\ \A c \in DOMAIN u.calls : \A i \in DOMAIN u.calls[c].records : u.calls[c].records[i].id \in Nat
  <2>1. /\ u.calls \in Seq(MutCalls) /\ u.pending \in Seq(MutRecords) /\ u.pushed \in Nat
        /\ u.heard \in [MutationObserver -> Seq(Nat)]
    BY <1>2 DEF MutStates
  <2> HIDE DEF u
  <2>2. ASSUME NEW c \in DOMAIN u.calls, NEW i \in DOMAIN u.calls[c].records
        PROVE  u.calls[c].records[i].id \in Nat
    <3>1. u.calls[c] \in MutCalls
      BY <2>1
    <3>2. u.calls[c].records \in Seq(MutRecords)
      BY <3>1 DEF MutCalls
    <3>3. u.calls[c].records[i] \in MutRecords
      BY <3>2
    <3> QED
      BY <3>3 DEF MutRecords
  <2>3. ASSUME NEW i \in DOMAIN u.pending PROVE u.pending[i].id \in Nat
    <3>1. u.pending[i] \in MutRecords
      BY <2>1
    <3> QED
      BY <3>1 DEF MutRecords
  <2>4. \A o \in MutationObserver : \A k2 \in DOMAIN u.heard[o] : u.heard[o][k2] \in Nat
    BY <2>1
  <2> QED
    BY <2>1, <2>2, <2>3, <2>4
<1>6. InTurn(u.pending, u.pushed) /\ DueInTurn(u) /\ HeardInTurn(u)
  BY <1>1 DEF MutSound
<1> HIDE DEF u, v, r, l
<1>7. \A i \in DOMAIN v.pending : i \in DOMAIN u.pending \/ i = l + 1
  BY <1>4
<1>8. InTurn(v.pending, v.pushed)
  <2>1. \A i \in DOMAIN v.pending : v.pending[i].id <= v.pushed
    BY <1>3, <1>4, <1>5, <1>6, <1>7 DEF InTurn
  <2>2. ASSUME NEW i \in DOMAIN v.pending, NEW j \in DOMAIN v.pending, i < j
        PROVE  v.pending[i].id < v.pending[j].id
    <3>1. i \in DOMAIN u.pending
      BY <1>4, <2>2
    <3>2. CASE j \in DOMAIN u.pending
      BY <1>4, <1>6, <2>2, <3>1, <3>2 DEF InTurn
    <3>3. CASE j = l + 1
      BY <1>4, <1>5, <1>6, <3>1, <3>3 DEF InTurn
    <3> QED
      BY <1>7, <3>2, <3>3
  <2> QED
    BY <2>1, <2>2 DEF InTurn
<1>9. \A x \in Nat : Drained(u, x) => Drained(v, x)
  BY <1>3, <1>4, <1>5, <1>7 DEF Drained
<1>10. DueInTurn(v)
  <2>1. \A c \in DOMAIN u.calls : InTurn(u.calls[c].records, v.pushed)
    BY <1>3, <1>5, <1>6 DEF DueInTurn, InTurn
  <2> QED
    BY <1>3, <1>5, <1>6, <1>9, <2>1 DEF DueInTurn
<1>11. HeardInTurn(v)
  BY <1>3, <1>5, <1>6, <1>9 DEF HeardInTurn
<1>12. ASSUME NEW o \in MutationObserver, NEW x \in v.owed[o]
       PROVE  Reaches(v, o, x)
  <2>1. \A q : MO!Matches(v, o, q) <=> MO!Matches(u, o, q)
    BY <1>3 DEF MO!Matches
  <2>2. CASE x \in u.owed[o]
    <3>1. Reaches(u, o, x)
      BY <1>1, <2>2 DEF MutSound
    <3>2. \A i \in DOMAIN u.pending : i \in DOMAIN v.pending /\ v.pending[i] = u.pending[i]
      BY <1>4
    <3> QED
      BY <1>3, <2>1, <3>1, <3>2 DEF Reaches
  <2>3. CASE x = r.id /\ MO!Matches(u, o, r)
    <3>1. l + 1 \in DOMAIN v.pending
      BY <1>4
    <3> QED
      BY <1>4, <2>1, <2>3, <3>1 DEF Reaches
  <2> QED
    BY <1>3, <2>2, <2>3
<1>13. MutSound(v)
  BY <1>1, <1>3, <1>8, <1>10, <1>11, <1>12 DEF MutSound
<1> QED
  BY <1>13 DEF MutInv, v

\* The watches of one observer, those it is owed, and who there is, and nothing else.
Rewatched(u, v) ==
  /\ v.pending = u.pending /\ v.calls = u.calls /\ v.pushed = u.pushed /\ v.heard = u.heard

\* The records that are under way stay in their turns.
LEMMA MutRewatched ==
  ASSUME NEW u, NEW v, MutSound(u), v \in MutStates, Rewatched(u, v),
         \A o \in MutationObserver : \A x \in v.owed[o] : Reaches(v, o, x),
         \A i, j \in DOMAIN v.made : i # j => v.made[i] # v.made[j],
         \A o \in MutationObserver : v.watches[o] # <<>> => \E i \in DOMAIN v.made : v.made[i] = o
  PROVE  MutSound(v)
BY DEF MutSound, Rewatched, InTurn, DueInTurn, HeardInTurn, Drained

\* Observers are made, watch and stop watching.
LEMMA MutScripts ==
  ASSUME MutInv, NEW o \in MutationObserver,
         MO!Construct(o) \/ MO!Disconnect(o) \/ \E w \in MO!Watch : MO!Observe(o, w)
  PROVE  MutInv'
<1> DEFINE u == object
           v == object'
<1>1. MutSound(u) /\ u \in MutStates
  BY DEF MutInv, MutSound
<1>2. /\ \A p \in MutationObserver : \A x \in u.owed[p] : Reaches(u, p, x)
      /\ \A i, j \in DOMAIN u.made : i # j => u.made[i] # u.made[j]
      /\ \A p \in MutationObserver : u.watches[p] # <<>> => \E i \in DOMAIN u.made : u.made[i] = p
  BY <1>1 DEF MutSound
<1>3. CASE MO!Construct(o)
  <2> DEFINE l == Len(u.made)
             made == Append(u.made, o)
  <2>1. /\ made \in Seq(MutationObserver) /\ DOMAIN made = 1..(l + 1) /\ l \in Nat /\ DOMAIN u.made = 1..l
        /\ made[l + 1] = o /\ \A i \in DOMAIN u.made : made[i] = u.made[i]
    BY <1>1, Appended DEF MutStates
  <2>2. v = [u EXCEPT !.made = made] /\ \A i \in DOMAIN u.made : u.made[i] # o
    BY <1>3 DEF MO!Construct
  <2> HIDE DEF made, l
  <2>3. v \in MutStates /\ Rewatched(u, v) /\ v.made = made /\ v.watches = u.watches /\ v.owed = u.owed
    BY <1>1, <2>1, <2>2 DEF MutStates, Rewatched
  <2> HIDE DEF u, v
  <2>4. \A p \in MutationObserver : \A x \in v.owed[p] : Reaches(v, p, x)
    BY <1>2, <2>3 DEF Rewatched, Reaches, MO!Matches
  <2>5. \A i, j \in DOMAIN v.made : i # j => v.made[i] # v.made[j]
    <3>1. \A i \in DOMAIN made : i \in DOMAIN u.made \/ i = l + 1
      BY <2>1
    <3> QED
      BY <1>2, <2>1, <2>2, <2>3, <3>1
  <2>6. \A i \in DOMAIN u.made : i \in DOMAIN v.made /\ v.made[i] = u.made[i]
    BY <2>1, <2>3
  <2>7. \A p \in MutationObserver : v.watches[p] # <<>> => \E i \in DOMAIN v.made : v.made[i] = p
    BY <1>2, <2>3, <2>6
  <2>8. MutSound(v)
    BY <1>1, <2>3, <2>4, <2>5, <2>7, MutRewatched
  <2> QED
    BY <2>8 DEF MutInv, v
<1>4. CASE MO!Disconnect(o)
  <2> DEFINE ids == MO!Range(MO!Ids(u.pending))
             watches == [u.watches EXCEPT ![o] = <<>>]
             owed == [u.owed EXCEPT ![o] = @ \ ids]
  <2>1. v = [u EXCEPT !.watches = watches, !.owed = owed]
    BY <1>1, <1>4 DEF MO!Disconnect, MutStates
  <2>2. \A i \in DOMAIN u.pending : u.pending[i].id \in ids
    BY DEF MO!Range, MO!Ids
  <2> HIDE DEF ids
  <2>3. /\ watches \in [MutationObserver -> Seq(MO!Watch)] /\ owed \in [MutationObserver -> SUBSET Nat]
        /\ watches[o] = <<>> /\ owed[o] = u.owed[o] \ ids
        /\ \A p \in MutationObserver \ {o} : watches[p] = u.watches[p] /\ owed[p] = u.owed[p]
    BY <1>1 DEF MutStates
  <2> HIDE DEF watches, owed
  <2>4. v \in MutStates /\ Rewatched(u, v) /\ v.made = u.made /\ v.watches = watches /\ v.owed = owed
    BY <1>1, <2>1, <2>3 DEF MutStates, Rewatched
  <2> HIDE DEF u, v
  <2>5. ASSUME NEW p \in MutationObserver, NEW x \in v.owed[p] PROVE Reaches(v, p, x)
    <3>1. Reaches(u, p, x)
      BY <1>2, <2>3, <2>4
    <3>2. CASE p # o
      BY <2>3, <2>4, <3>1, <3>2 DEF Rewatched, Reaches, MO!Matches
    <3>3. CASE p = o
      <4>1. \A i \in DOMAIN u.pending : u.pending[i].id # x
        BY <2>2, <2>3, <2>4, <3>3
      <4> QED
        BY <2>4, <3>1, <4>1 DEF Rewatched, Reaches
    <3> QED
      BY <3>2, <3>3
  <2>6. \A p \in MutationObserver : v.watches[p] # <<>> => \E i \in DOMAIN v.made : v.made[i] = p
    BY <1>2, <2>3, <2>4
  <2>7. MutSound(v)
    BY <1>1, <1>2, <2>4, <2>5, <2>6, MutRewatched
  <2> QED
    BY <2>7 DEF MutInv, v
<1>5. ASSUME NEW w \in MO!Watch, MO!Observe(o, w) PROVE MutInv'
  <2> DEFINE more == Append(u.watches[o], w)
             watches == [u.watches EXCEPT ![o] = more]
  <2>1. v = [u EXCEPT !.watches = watches] /\ \E i \in DOMAIN u.made : u.made[i] = o
    BY <1>1, <1>5 DEF MO!Observe, MutStates
  <2>2. u.watches[o] \in Seq(MO!Watch)
    BY <1>1 DEF MutStates
  <2>3. more \in Seq(MO!Watch)
        /\ \A i \in DOMAIN u.watches[o] : i \in DOMAIN more /\ more[i] = u.watches[o][i]
    <3> HIDE DEF u
    <3> QED
      BY <2>2, Appended
  <2> HIDE DEF more
  <2>4. /\ watches \in [MutationObserver -> Seq(MO!Watch)] /\ watches[o] = more
        /\ \A p \in MutationObserver \ {o} : watches[p] = u.watches[p]
    BY <1>1, <2>3 DEF MutStates
  <2> HIDE DEF watches
  <2>5. v \in MutStates /\ Rewatched(u, v) /\ v.made = u.made /\ v.watches = watches /\ v.owed = u.owed
    BY <1>1, <2>1, <2>4 DEF MutStates, Rewatched
  <2> HIDE DEF u, v
  <2>6. \A p \in MutationObserver : \A q : MO!Matches(u, p, q) => MO!Matches(v, p, q)
    <3> TAKE p \in MutationObserver
    <3>1. CASE p = o
      BY <2>3, <2>4, <2>5, <3>1 DEF MO!Matches
    <3>2. CASE p # o
      BY <2>4, <2>5, <3>2 DEF MO!Matches
    <3> QED
      BY <3>1, <3>2
  <2>7. \A p \in MutationObserver : \A x \in v.owed[p] : Reaches(v, p, x)
    BY <1>2, <2>5, <2>6 DEF Rewatched, Reaches
  <2>8. \A p \in MutationObserver : v.watches[p] # <<>> => \E i \in DOMAIN v.made : v.made[i] = p
    BY <1>2, <2>1, <2>4, <2>5
  <2>9. MutSound(v)
    BY <1>1, <1>2, <2>5, <2>7, <2>8, MutRewatched
  <2> QED
    BY <2>9 DEF MutInv, v
<1> QED
  BY <1>3, <1>4, <1>5

\* The records that are pending are handed to the observers that watch for them by now.
LEMMA MutDrains == ASSUME MutInv, MO!Drain PROVE MutInv'
<1> DEFINE u == object
           v == object'
           hits(o) == MO!Among(u.pending, {r \in MO!Range(u.pending) : MO!Matches(u, o, r)})
           all == [i \in DOMAIN u.made |-> [of |-> u.made[i], records |-> hits(u.made[i])]]
           some == {c \in MO!Range(all) : c.records # <<>>}
           calls == MO!Among(all, some)
           n == Len(u.pending)
<1>1. MutSound(u) /\ u \in MutStates
  BY DEF MutInv, MutSound
<1>2. u.calls = <<>> /\ v = [u EXCEPT !.pending = <<>>, !.calls = calls]
  BY DEF MO!Drain
<1>3. u.pending \in Seq(MutRecords) /\ u.made \in Seq(MutationObserver) /\ n \in Nat /\ DOMAIN u.pending = 1..n
  BY <1>1 DEF MutStates
<1>4. ASSUME NEW o
      PROVE  /\ hits(o) \in Seq(MutRecords)
             /\ \A i \in DOMAIN hits(o) : \E a \in DOMAIN u.pending : hits(o)[i] = u.pending[a]
             /\ \A i, j \in DOMAIN hits(o) : i < j =>
                  \E a, b \in DOMAIN u.pending : a < b /\ hits(o)[i] = u.pending[a] /\ hits(o)[j] = u.pending[b]
             /\ \A a \in DOMAIN u.pending : MO!Matches(u, o, u.pending[a]) =>
                  \E i \in DOMAIN hits(o) : hits(o)[i] = u.pending[a]
  <2> DEFINE h == hits(o)
             S == {r \in MO!Range(u.pending) : MO!Matches(u, o, r)}
             cs == u.pending
  <2>1. \A a \in DOMAIN cs : MO!Matches(u, o, cs[a]) => cs[a] \in S
    BY DEF MO!Range
  <2>2. Chosen(MO!Among(cs, S), cs, S, MutRecords, DOMAIN cs)
    <3> HIDE DEF cs, S
    <3>1. cs \in Seq(MutRecords)
      BY <1>3 DEF cs
    <3> QED
      BY <3>1, AmongChosen
  <2>3. Chosen(h, cs, S, MutRecords, DOMAIN cs)
    BY <2>2
  <2> HIDE DEF h, S, cs
  <2>4. /\ h \in Seq(MutRecords)
        /\ \A i \in DOMAIN h : \E a \in DOMAIN cs : h[i] = cs[a]
        /\ \A i, j \in DOMAIN h : i < j => \E a, b \in DOMAIN cs : a < b /\ h[i] = cs[a] /\ h[j] = cs[b]
        /\ \A a \in DOMAIN cs : cs[a] \in S => \E i \in DOMAIN h : h[i] = cs[a]
    BY <2>3, Zenon DEF Chosen
  <2>5. \A a \in DOMAIN cs : MO!Matches(u, o, cs[a]) => \E i \in DOMAIN h : h[i] = cs[a]
    BY <2>1, <2>4
  <2> QED
    BY <2>4, <2>5, Zenon DEF h, cs
<1> HIDE DEF hits
<1>5. all \in Seq(MutCalls) /\ DOMAIN all = DOMAIN u.made
      /\ \A i \in DOMAIN u.made : all[i].of = u.made[i] /\ all[i].records = hits(u.made[i])
  <2>1. \A i \in DOMAIN u.made : [of |-> u.made[i], records |-> hits(u.made[i])] \in MutCalls
    BY <1>3, <1>4 DEF MutCalls
  <2>2. DOMAIN u.made = 1..Len(u.made) /\ Len(u.made) \in Nat
    BY <1>3
  <2> HIDE DEF u
  <2>3. all \in [1..Len(u.made) -> MutCalls]
    BY <2>1, <2>2
  <2> QED
    BY <2>2, <2>3, SeqDef
<1> HIDE DEF all
<1>6. Chosen(calls, all, some, MutCalls, DOMAIN all)
  BY <1>5, AmongChosen
<1>7. /\ calls \in Seq(MutCalls)
      /\ \A c \in DOMAIN calls : \E a \in DOMAIN u.made : calls[c].of = u.made[a] /\ calls[c].records = hits(u.made[a])
      /\ \A c, d \in DOMAIN calls : c < d =>
           \E a, b \in DOMAIN u.made : a < b /\ calls[c].of = u.made[a] /\ calls[d].of = u.made[b]
      /\ \A a \in DOMAIN u.made : hits(u.made[a]) # <<>> =>
           \E c \in DOMAIN calls : calls[c].of = u.made[a] /\ calls[c].records = hits(u.made[a])
  <2>1. \A a \in DOMAIN all : all[a].records # <<>> => all[a] \in some
    BY DEF MO!Range
  <2> HIDE DEF u, calls, some
  <2>2. /\ calls \in Seq(MutCalls)
        /\ \A c \in DOMAIN calls : \E a \in DOMAIN all : calls[c] = all[a]
        /\ \A c, d \in DOMAIN calls : c < d =>
             \E a, b \in DOMAIN all : a < b /\ calls[c] = all[a] /\ calls[d] = all[b]
        /\ \A a \in DOMAIN all : all[a] \in some => \E c \in DOMAIN calls : calls[c] = all[a]
    BY <1>6, Zenon DEF Chosen
  <2>3. \A c \in DOMAIN calls :
          \E a \in DOMAIN u.made : calls[c].of = u.made[a] /\ calls[c].records = hits(u.made[a])
    BY <1>5, <2>2
  <2>4. ASSUME NEW c \in DOMAIN calls, NEW d \in DOMAIN calls, c < d
        PROVE  \E a, b \in DOMAIN u.made : a < b /\ calls[c].of = u.made[a] /\ calls[d].of = u.made[b]
    <3>1. PICK a, b \in DOMAIN all : a < b /\ calls[c] = all[a] /\ calls[d] = all[b]
      BY <2>2, <2>4
    <3> QED
      BY <1>5, <3>1
  <2>5. ASSUME NEW a \in DOMAIN u.made, hits(u.made[a]) # <<>>
        PROVE  \E c \in DOMAIN calls : calls[c].of = u.made[a] /\ calls[c].records = hits(u.made[a])
    <3>1. all[a] \in some
      BY <1>5, <2>1, <2>5
    <3>2. PICK c \in DOMAIN calls : calls[c] = all[a]
      BY <1>5, <2>2, <3>1
    <3> QED
      BY <1>5, <3>2
  <2> QED
    BY <2>2, <2>3, <2>4, <2>5
<1> HIDE DEF calls, some
<1>8. /\ v \in MutStates /\ v.pending = <<>> /\ v.calls = calls /\ v.made = u.made /\ v.watches = u.watches
      /\ v.pushed = u.pushed /\ v.heard = u.heard /\ v.owed = u.owed
  <2>1. calls \in Seq(MutCalls) /\ <<>> \in Seq(MutRecords)
    BY <1>7
  <2>2. v = [u EXCEPT !.pending = <<>>, !.calls = calls] /\ u \in MutStates
    BY <1>1, <1>2
  <2> HIDE DEF u, v
  <2>3. v \in MutStates
    BY <2>1, <2>2 DEF MutStates
  <2> QED
    BY <2>2, <2>3 DEF MutStates
<1>9. /\ \A i, j \in DOMAIN u.pending : i < j => u.pending[i].id < u.pending[j].id
      /\ \A i \in DOMAIN u.pending : u.pending[i].id <= u.pushed
      /\ HeardInTurn(u) /\ \A i, j \in DOMAIN u.made : i # j => u.made[i] # u.made[j]
      /\ \A o \in MutationObserver : \A x \in u.owed[o] : Reaches(u, o, x)
      /\ \A o \in MutationObserver : u.watches[o] # <<>> => \E i \in DOMAIN u.made : u.made[i] = o
  BY <1>1 DEF MutSound, InTurn
<1>10. DOMAIN u.made \subseteq Int /\ DOMAIN calls \subseteq Int
  <2>1. DOMAIN u.made = 1..Len(u.made) /\ DOMAIN calls = 1..Len(calls)
    BY <1>3, <1>7
  <2> QED
    BY <2>1
<1> HIDE DEF u, v, n
<1>11. DOMAIN v.pending = {}
  BY <1>8
<1>12. \A o : InTurn(hits(o), v.pushed)
  BY <1>4, <1>8, <1>9 DEF InTurn
<1>13. \A c, d \in DOMAIN v.calls : c # d => v.calls[c].of # v.calls[d].of
  <2>1. \A c, d \in DOMAIN calls : c < d => calls[c].of # calls[d].of
    <3> TAKE c, d \in DOMAIN calls
    <3> HAVE c < d
    <3>1. PICK a, b \in DOMAIN u.made : a < b /\ calls[c].of = u.made[a] /\ calls[d].of = u.made[b]
      BY <1>7
    <3>2. a # b
      BY <1>10, <3>1
    <3> QED
      BY <1>9, <3>1, <3>2
  <2>2. \A c, d \in DOMAIN calls : c # d => c < d \/ d < c
    BY <1>10
  <2> QED
    BY <1>8, <2>1, <2>2
<1>14. DueInTurn(v)
  <2>1. ASSUME NEW c \in DOMAIN v.calls
        PROVE  InTurn(v.calls[c].records, v.pushed)
               /\ \A i \in DOMAIN v.calls[c].records : Drained(v, v.calls[c].records[i].id)
    <3>1. PICK a \in DOMAIN u.made : v.calls[c].records = hits(u.made[a])
      BY <1>7, <1>8
    <3>2. InTurn(v.calls[c].records, v.pushed)
      BY <1>12, <3>1
    <3> QED
      BY <1>11, <3>2 DEF InTurn, Drained
  <2> QED
    BY <1>13, <2>1 DEF DueInTurn
<1>15. HeardInTurn(v)
  <2>1. ASSUME NEW o \in MutationObserver, NEW k \in DOMAIN u.heard[o]
        PROVE  /\ Drained(v, u.heard[o][k])
               /\ \A c \in DOMAIN v.calls : \A i \in DOMAIN v.calls[c].records :
                    u.heard[o][k] < v.calls[c].records[i].id
    <3>1. Drained(u, u.heard[o][k])
      BY <1>9 DEF HeardInTurn
    <3>2. Drained(v, u.heard[o][k])
      BY <1>8, <1>11, <3>1 DEF Drained
    <3>3. ASSUME NEW c \in DOMAIN v.calls, NEW i \in DOMAIN v.calls[c].records
          PROVE  u.heard[o][k] < v.calls[c].records[i].id
      <4>1. PICK a \in DOMAIN u.made : v.calls[c].records = hits(u.made[a])
        BY <1>7, <1>8
      <4>2. PICK b \in DOMAIN u.pending : v.calls[c].records[i] = u.pending[b]
        BY <1>4, <4>1
      <4> QED
        BY <3>1, <4>2 DEF Drained
    <3> QED
      BY <3>2, <3>3
  <2> QED
    BY <1>8, <1>9, <2>1 DEF HeardInTurn
<1>16. ASSUME NEW o \in MutationObserver, NEW x \in v.owed[o]
       PROVE  Reaches(v, o, x)
  <2>1. Reaches(u, o, x)
    BY <1>8, <1>9
  <2>2. CASE \E k \in DOMAIN u.heard[o] : u.heard[o][k] = x
    BY <1>8, <2>2 DEF Reaches
  <2>3. ASSUME NEW j \in DOMAIN u.pending, u.pending[j].id = x, MO!Matches(u, o, u.pending[j])
        PROVE  Reaches(v, o, x)
    <3>1. PICK i \in DOMAIN hits(o) : hits(o)[i] = u.pending[j]
      BY <1>4, <2>3
    <3>2. u.watches[o] # <<>>
      BY <2>3 DEF MO!Matches
    <3>3. PICK a \in DOMAIN u.made : u.made[a] = o
      BY <1>9, <3>2
    <3>4. hits(o) # <<>>
      BY <3>1
    <3>5. PICK c \in DOMAIN calls : calls[c].of = o /\ calls[c].records = hits(o)
      BY <1>7, <3>3, <3>4
    <3> QED
      BY <1>8, <2>3, <3>1, <3>5 DEF Reaches
  <2>4. DOMAIN u.calls = {}
    BY <1>2
  <2> QED
    BY <2>1, <2>2, <2>3, <2>4 DEF Reaches
<1>17. InTurn(v.pending, v.pushed)
  BY <1>11 DEF InTurn
<1>18. MutSound(v)
  BY <1>8, <1>9, <1>14, <1>15, <1>16, <1>17 DEF MutSound
<1> QED
  BY <1>18 DEF MutInv, v

\* A callback runs, with the records it is due.
LEMMA MutCalled == ASSUME MutInv, MO!Call PROVE MutInv'
<1> DEFINE u == object
           v == object'
           c == Head(u.calls)
           o == c.of
           ids == MO!Ids(c.records)
           told == u.heard[o] \o ids
           l == Len(u.heard[o])
<1>1. MutSound(u) /\ u \in MutStates
  BY DEF MutInv, MutSound
<1>2. u.calls # <<>> /\ v = [u EXCEPT !.calls = Tail(@), !.heard[o] = told]
  BY <1>1 DEF MO!Call, MutStates
<1>3. u.calls \in Seq(MutCalls) /\ u.heard \in [MutationObserver -> Seq(Nat)] /\ u.made \in Seq(MutationObserver)
  BY <1>1 DEF MutStates
<1>4. /\ c \in MutCalls /\ c = u.calls[1] /\ 1 \in DOMAIN u.calls /\ Tail(u.calls) \in Seq(MutCalls)
      /\ \A n \in DOMAIN Tail(u.calls) : n + 1 \in DOMAIN u.calls /\ Tail(u.calls)[n] = u.calls[n + 1]
      /\ \A n \in DOMAIN u.calls : n = 1 \/ (n - 1 \in DOMAIN Tail(u.calls) /\ Tail(u.calls)[n - 1] = u.calls[n])
      /\ DOMAIN Tail(u.calls) \subseteq Nat \ {0}
  <2>1. DOMAIN Tail(u.calls) = 1..(Len(u.calls) - 1) /\ Len(u.calls) \in Nat
    BY <1>2, <1>3, Behind
  <2>2. DOMAIN Tail(u.calls) \subseteq Nat \ {0}
    BY <2>1
  <2> QED
    BY <1>2, <1>3, <2>2, Behind
<1> DEFINE rest == Tail(u.calls)
<1> HIDE DEF rest
<1>5. o \in MutationObserver /\ c.records \in Seq(MutRecords)
  BY <1>4 DEF MutCalls
<1>6. ids \in Seq(Nat) /\ DOMAIN ids = DOMAIN c.records /\ \A i \in DOMAIN c.records : ids[i] = c.records[i].id
  <2> DEFINE rs == c.records
  <2>1. rs \in Seq(MutRecords) /\ DOMAIN rs = 1..Len(rs) /\ Len(rs) \in Nat
    BY <1>5
  <2>2. ids = [i \in DOMAIN rs |-> rs[i].id]
    BY DEF MO!Ids
  <2> HIDE DEF rs, ids, c
  <2>3. \A i \in DOMAIN rs : rs[i] \in MutRecords
    BY <2>1
  <2>4. \A i \in DOMAIN rs : rs[i].id \in Nat
    BY <2>3 DEF MutRecords
  <2>5. ids \in [1..Len(rs) -> Nat]
    BY <2>1, <2>2, <2>4
  <2>6. ids \in Seq(Nat)
    BY <2>1, <2>5, SeqDef
  <2> QED
    BY <2>2, <2>6 DEF rs
<1>7. u.heard[o] \in Seq(Nat) /\ l \in Nat /\ DOMAIN u.heard[o] = 1..l
  BY <1>3, <1>5
<1>8. /\ told \in Seq(Nat) /\ DOMAIN told = 1..(l + Len(ids)) /\ Len(ids) \in Nat /\ DOMAIN ids = 1..Len(ids)
      /\ \A k \in 1..(l + Len(ids)) : told[k] = IF k <= l THEN u.heard[o][k] ELSE ids[k - l]
  <2> DEFINE first == u.heard[o]
  <2>1. first \in Seq(Nat) /\ ids \in Seq(Nat) /\ l = Len(first)
    BY <1>6, <1>7
  <2> HIDE DEF first, ids, l
  <2>2. first \o ids \in Seq(Nat) /\ Len(first \o ids) = l + Len(ids) /\ l \in Nat
        /\ Len(ids) \in Nat /\ DOMAIN ids = 1..Len(ids)
    BY <2>1
  <2>3. \A k \in 1..(l + Len(ids)) : (first \o ids)[k] = IF k <= l THEN first[k] ELSE ids[k - l]
    <3>1. ASSUME NEW T, NEW f \in Seq(T), NEW g \in Seq(T)
          PROVE  \A k \in 1..(Len(f) + Len(g)) : (f \o g)[k] = IF k <= Len(f) THEN f[k] ELSE g[k - Len(f)]
      BY ConcatProperties
    <3> QED
      BY <2>1, <3>1
  <2> QED
    BY <2>2, <2>3 DEF first
<1>9. /\ \A k \in DOMAIN told : \/ k \in DOMAIN u.heard[o] /\ told[k] = u.heard[o][k]
                                \/ k - l \in DOMAIN c.records /\ k > l /\ told[k] = c.records[k - l].id
      /\ \A k \in DOMAIN u.heard[o] : k \in DOMAIN told /\ told[k] = u.heard[o][k]
      /\ \A i \in DOMAIN c.records : i + l \in DOMAIN told /\ told[i + l] = c.records[i].id
  <2>1. \A k \in DOMAIN told : \/ k \in DOMAIN u.heard[o] /\ told[k] = u.heard[o][k]
                               \/ k - l \in DOMAIN ids /\ k > l /\ told[k] = ids[k - l]
    <3> HIDE DEF told, ids, l, o, u
    <3> QED
      BY <1>7, <1>8
  <2>2. \A k \in DOMAIN u.heard[o] : k \in DOMAIN told /\ told[k] = u.heard[o][k]
    <3> HIDE DEF told, ids, l, o, u
    <3> QED
      BY <1>7, <1>8
  <2>3. ASSUME NEW i \in DOMAIN ids PROVE i + l \in DOMAIN told /\ told[i + l] = ids[i]
    <3> HIDE DEF told, ids, l, o, u
    <3>1. i + l \in 1..(l + Len(ids)) /\ ~(i + l <= l) /\ (i + l) - l = i
      BY <1>7, <1>8
    <3> QED
      BY <1>8, <3>1
  <2> QED
    BY <1>6, <2>1, <2>2, <2>3
<1>10. /\ v \in MutStates /\ v.pending = u.pending /\ v.calls = rest /\ v.made = u.made /\ v.watches = u.watches
       /\ v.pushed = u.pushed /\ v.owed = u.owed /\ v.heard[o] = told
       /\ \A p \in MutationObserver \ {o} : v.heard[p] = u.heard[p]
  <2> DEFINE heard == [u.heard EXCEPT ![o] = told]
  <2>1. heard \in [MutationObserver -> Seq(Nat)] /\ heard[o] = told
        /\ \A p \in MutationObserver \ {o} : heard[p] = u.heard[p]
    <3> HIDE DEF told, o, u
    <3> QED
      BY <1>3, <1>5, <1>8
  <2>2. v = [u EXCEPT !.calls = rest, !.heard = heard] /\ rest \in Seq(MutCalls)
    BY <1>1, <1>2, <1>4 DEF rest, MutStates
  <2> HIDE DEF heard, u, v, o, told
  <2>3. v \in MutStates /\ v.heard = heard
    BY <1>1, <2>1, <2>2 DEF MutStates
  <2> QED
    BY <1>1, <2>1, <2>2, <2>3 DEF MutStates
<1>11. DueInTurn(u) /\ HeardInTurn(u) /\ \A p \in MutationObserver : \A x \in u.owed[p] : Reaches(u, p, x)
  BY <1>1 DEF MutSound
<1>12. /\ \A n \in DOMAIN rest : n + 1 \in DOMAIN u.calls /\ rest[n] = u.calls[n + 1] /\ n + 1 # 1 /\ n \in Nat
       /\ \A n \in DOMAIN u.calls : n = 1 \/ (n - 1 \in DOMAIN rest /\ rest[n - 1] = u.calls[n])
       /\ 1 \in DOMAIN u.calls /\ u.calls[1] = c
  BY <1>4 DEF rest
<1> HIDE DEF u, v, ids, told, l
<1>13. \A x : Drained(v, x) <=> Drained(u, x)
  BY <1>10 DEF Drained
<1>14. DueInTurn(v)
  <2>1. ASSUME NEW n \in DOMAIN rest, NEW m \in DOMAIN rest, n # m
        PROVE  rest[n].of # rest[m].of
    <3>1. n + 1 # m + 1
      BY <1>12, <2>1
    <3> QED
      BY <1>11, <1>12, <3>1 DEF DueInTurn
  <2>2. ASSUME NEW n \in DOMAIN rest
        PROVE  InTurn(rest[n].records, v.pushed) /\ \A i \in DOMAIN rest[n].records : Drained(v, rest[n].records[i].id)
    BY <1>10, <1>11, <1>12, <1>13 DEF DueInTurn
  <2> QED
    BY <1>10, <2>1, <2>2 DEF DueInTurn
<1>15. \A n \in DOMAIN rest : rest[n].of # o
  BY <1>11, <1>12 DEF DueInTurn
<1>16. InTurn(c.records, u.pushed) /\ \A i \in DOMAIN c.records : Drained(u, c.records[i].id)
  BY <1>11, <1>12 DEF DueInTurn
<1>17. \A k \in DOMAIN u.heard[o] : \A i \in DOMAIN c.records : u.heard[o][k] < c.records[i].id
  BY <1>5, <1>11, <1>12 DEF HeardInTurn
<1>18. HeardInTurn(v)
  <2>1. ASSUME NEW i \in DOMAIN told, NEW j \in DOMAIN told, i < j PROVE told[i] < told[j]
    <3>1. CASE i \in DOMAIN u.heard[o] /\ j \in DOMAIN u.heard[o]
      BY <1>5, <1>9, <1>11, <2>1, <3>1 DEF HeardInTurn
    <3>2. CASE i \in DOMAIN u.heard[o] /\ j - l \in DOMAIN c.records /\ told[j] = c.records[j - l].id
      BY <1>9, <1>17, <3>2
    <3>3. CASE i > l /\ j > l /\ i - l \in DOMAIN c.records /\ j - l \in DOMAIN c.records
               /\ told[i] = c.records[i - l].id /\ told[j] = c.records[j - l].id
      <4>1. i - l < j - l
        BY <1>7, <1>8, <2>1
      <4> QED
        BY <1>16, <3>3, <4>1 DEF InTurn
    <3>4. CASE i > l /\ j \in DOMAIN u.heard[o]
      BY <1>7, <1>8, <2>1, <3>4
    <3> QED
      BY <1>9, <3>1, <3>2, <3>3, <3>4
  <2>2. \A k \in DOMAIN told : Drained(v, told[k])
    BY <1>5, <1>9, <1>11, <1>13, <1>16 DEF HeardInTurn
  <2>3. ASSUME NEW p \in MutationObserver, p # o, NEW k \in DOMAIN v.heard[p]
        PROVE  /\ Drained(v, v.heard[p][k])
               /\ \A n \in DOMAIN rest : rest[n].of = p =>
                    \A i \in DOMAIN rest[n].records : v.heard[p][k] < rest[n].records[i].id
    BY <1>10, <1>11, <1>12, <1>13, <2>3 DEF HeardInTurn
  <2>4. ASSUME NEW p \in MutationObserver, p # o
        PROVE  \A i, j \in DOMAIN v.heard[p] : i < j => v.heard[p][i] < v.heard[p][j]
    BY <1>10, <1>11, <2>4 DEF HeardInTurn
  <2> QED
    BY <1>10, <1>15, <2>1, <2>2, <2>3, <2>4 DEF HeardInTurn
<1>19. ASSUME NEW p \in MutationObserver, NEW x \in v.owed[p]
       PROVE  Reaches(v, p, x)
  <2>1. Reaches(u, p, x)
    BY <1>10, <1>11
  <2>2. ASSUME NEW k \in DOMAIN u.heard[p], u.heard[p][k] = x PROVE Reaches(v, p, x)
    <3>1. CASE p = o
      BY <1>9, <1>10, <2>2, <3>1 DEF Reaches
    <3>2. CASE p # o
      BY <1>10, <2>2, <3>2 DEF Reaches
    <3> QED
      BY <3>1, <3>2
  <2>3. ASSUME NEW n \in DOMAIN u.calls, u.calls[n].of = p, NEW i \in DOMAIN u.calls[n].records,
               u.calls[n].records[i].id = x
        PROVE  Reaches(v, p, x)
    <3>1. CASE n = 1
      <4>1. p = o /\ i + l \in DOMAIN told /\ told[i + l] = x
        BY <1>9, <1>12, <2>3, <3>1
      <4> QED
        BY <1>10, <4>1 DEF Reaches
    <3>2. CASE n # 1
      BY <1>10, <1>12, <2>3, <3>2 DEF Reaches
    <3> QED
      BY <3>1, <3>2
  <2>4. CASE \E i \in DOMAIN u.pending : u.pending[i].id = x /\ MO!Matches(u, p, u.pending[i])
    BY <1>10, <2>4 DEF Reaches, MO!Matches
  <2> QED
    BY <2>1, <2>2, <2>3, <2>4 DEF Reaches
<1>20. MutSound(v)
  BY <1>1, <1>10, <1>14, <1>18, <1>19 DEF MutSound
<1> QED
  BY <1>20 DEF MutInv, v

\* Every step keeps the invariant.
LEMMA MutSteps == ASSUME MO!Bounds, MutInv, MO!Next PROVE MutInv'
  BY MutPushed, MutScripts, MutDrains, MutCalled DEF MO!Next

----------------------------------------------------------------------------
(* The page. *)

\* What each kind of object keeps, of those the theorems are about.
PageInv ==
  /\ kind = "abort" => AbortInv
  /\ kind = "input" => InputInv
  /\ kind = "animations" => AnimState(Options, object)
  /\ kind = "ticks" => AnimState(TickOptions, object)
  /\ kind = "layout" => LayInv(LayoutObserver, Watched, {}, FULL, object)
  /\ kind = "resize" => LayInv(LayoutObserver, {"s"}, {2}, 2, object)
  /\ kind = "xhr" => XhrInv
  /\ kind = "streams" => StreamInv
  /\ kind = "codecs" => CodecInv
  /\ kind = "mutations" => MutInv

\* What the proofs use of the bounds.
LEMMA PageBounds ==
  /\ MaxSignals \in Nat /\ MaxSends \in Nat /\ XR!Bounds /\ ST!Bounds /\ MO!Bounds
  /\ Ani(Options, 1, MaxTime, 1)!Bounds /\ Ani(TickOptions, MaxAnimations, 1, 0)!Bounds
  /\ Lay(LayoutObserver, Watched, {}, FULL)!Bounds /\ Lay(LayoutObserver, {"s"}, {2}, 2)!Bounds
<1>1. AB!Bounds /\ XR!Bounds
  BY BoundsAssumption, Zenon
<1>2. MaxSends \in Nat
  BY <1>1 DEF XR!Bounds
<1> QED
  BY <1>1, <1>2, BoundsAssumption, Zenon DEF AB!Bounds

\* A step is one of the object of its kind.
LEMMA PageSteps ==
  ASSUME [Next]_vars
  PROVE  /\ kind = "abort" => kind' = "abort" /\ (AB!Next \/ UNCHANGED object)
         /\ kind = "input" => kind' = "input" /\ (PI!Next \/ UNCHANGED object)
         /\ kind = "animations" => kind' = "animations" /\ (Ani(Options, 1, MaxTime, 1)!Next \/ UNCHANGED object)
         /\ kind = "ticks" => kind' = "ticks" /\ (Ani(TickOptions, MaxAnimations, 1, 0)!Next \/ UNCHANGED object)
         /\ kind = "layout" => kind' = "layout" /\ (Lay(LayoutObserver, Watched, {}, FULL)!Next \/ UNCHANGED object)
         /\ kind = "resize" => kind' = "resize" /\ (Lay(LayoutObserver, {"s"}, {2}, 2)!Next \/ UNCHANGED object)
         /\ kind = "xhr" => kind' = "xhr" /\ (XR!Next \/ UNCHANGED object)
         /\ kind = "streams" => kind' = "streams" /\ (ST!Next \/ UNCHANGED object)
         /\ kind = "codecs" => kind' = "codecs" /\ (WC!Next \/ UNCHANGED object)
         /\ kind = "mutations" => kind' = "mutations" /\ (MO!Next \/ UNCHANGED object)
         /\ kind' = kind
<1>1. CASE UNCHANGED vars
  BY <1>1, Zenon DEF vars
<1>2. CASE Next
  <2> USE DEF ParserNext, MarkupNext, CascadeNext, BoxesNext, InputNext, EventsNext, ToldNext, MutationsNext,
              LayoutNext, ResizeNext, StreamsNext, AbortNext, XhrNext, AnimationsNext, TicksNext, CodecsNext,
              SourceNext, GpuNext, GpuObjectsNext, GpuDrawsNext, GlProgramsNext, GlUniformsNext, GlStateNext,
              FormsNext, PatternsNext, CanvasesNext, OffscreensNext
  <2>1. kind' = kind
    BY <1>2 DEF Next
  <2>2. kind = "abort" => AB!Next
    BY <1>2 DEF Next
  <2>3. kind = "input" => PI!Next
    BY <1>2 DEF Next
  <2>4. kind = "animations" => Ani(Options, 1, MaxTime, 1)!Next
    BY <1>2 DEF Next
  <2>5. kind = "ticks" => Ani(TickOptions, MaxAnimations, 1, 0)!Next
    BY <1>2 DEF Next
  <2>6. kind = "layout" => Lay(LayoutObserver, Watched, {}, FULL)!Next
    BY <1>2 DEF Next
  <2>7. kind = "resize" => Lay(LayoutObserver, {"s"}, {2}, 2)!Next
    BY <1>2 DEF Next
  <2>8. kind = "xhr" => XR!Next
    BY <1>2 DEF Next
  <2>9. kind = "streams" => ST!Next
    BY <1>2 DEF Next
  <2>10. kind = "codecs" => WC!Next
    BY <1>2 DEF Next
  <2>11. kind = "mutations" => MO!Next
    BY <1>2 DEF Next
  <2> QED
    BY <2>1, <2>2, <2>3, <2>4, <2>5, <2>6, <2>7, <2>8, <2>9, <2>10, <2>11, Zenon
<1> QED
  BY <1>1, <1>2

\* It holds at first.
LEMMA PageFirst == Init => PageInv
<1> SUFFICES ASSUME Init PROVE PageInv
  OBVIOUS
<1>1. /\ kind = "abort" => AB!Init
      /\ kind = "input" => PI!Init
      /\ kind = "animations" => Ani(Options, 1, MaxTime, 1)!Init
      /\ kind = "ticks" => Ani(TickOptions, MaxAnimations, 1, 0)!Init
      /\ kind = "layout" => Lay(LayoutObserver, Watched, {}, FULL)!Init
      /\ kind = "resize" => Lay(LayoutObserver, {"s"}, {2}, 2)!Init
      /\ kind = "xhr" => XR!Init
      /\ kind = "streams" => ST!Init
      /\ kind = "codecs" => WC!Init
      /\ kind = "mutations" => MO!Init
  BY DEF Init
<1>2. /\ kind = "animations" => AnimState(Options, object)
      /\ kind = "ticks" => AnimState(TickOptions, object)
  BY <1>1, AnimFirst
<1>3. /\ kind = "layout" => LayInv(LayoutObserver, Watched, {}, FULL, object)
      /\ kind = "resize" => LayInv(LayoutObserver, {"s"}, {2}, 2, object)
  BY <1>1, PageBounds, LayFirst
<1>4. /\ kind = "xhr" => XhrInv
      /\ kind = "streams" => StreamInv
      /\ kind = "codecs" => CodecInv
  BY <1>1, PageBounds, XhrFirst, StreamFirst, CodecFirst
<1>5. /\ kind = "abort" => AbortInv
      /\ kind = "input" => InputInv
      /\ kind = "mutations" => MutInv
  BY <1>1, PageBounds, AbortFirst, InputFirst, MutFirst
<1> QED
  BY <1>2, <1>3, <1>4, <1>5, Zenon DEF PageInv

\* Every step of animations keeps the time of those that are paused.
LEMMA PageAnimations ==
  ASSUME PageInv, [Next]_vars
  PROVE  /\ kind = "animations" => AnimStep(Options, object, object')
         /\ kind = "ticks" => AnimStep(TickOptions, object, object')
<1>1. ASSUME NEW O, AnimState(O, object), UNCHANGED object PROVE AnimStep(O, object, object')
  BY <1>1 DEF AnimStep, PauseHeld
<1>2. ASSUME kind = "animations" PROVE AnimStep(Options, object, object')
  <2>1. CASE Ani(Options, 1, MaxTime, 1)!Next
    BY <1>2, <2>1, PageBounds, AnimSteps DEF PageInv
  <2>2. CASE UNCHANGED object
    BY <1>1, <1>2, <2>2 DEF PageInv
  <2> QED
    BY <1>2, <2>1, <2>2, PageSteps
<1>3. ASSUME kind = "ticks" PROVE AnimStep(TickOptions, object, object')
  <2>1. CASE Ani(TickOptions, MaxAnimations, 1, 0)!Next
    BY <1>3, <2>1, PageBounds, AnimSteps DEF PageInv
  <2>2. CASE UNCHANGED object
    BY <1>1, <1>3, <2>2 DEF PageInv
  <2> QED
    BY <1>3, <2>1, <2>2, PageSteps
<1> QED
  BY <1>2, <1>3

\* Every step keeps it.
LEMMA PageGoesOn == PageInv /\ [Next]_vars => PageInv'
<1> SUFFICES ASSUME PageInv, [Next]_vars PROVE PageInv'
  OBVIOUS
<1>1. kind' = kind
  BY PageSteps
<1>2. ASSUME kind = "abort" PROVE AbortInv'
  <2>1. CASE AB!Next
    BY <1>2, <2>1, PageBounds, AbortSteps DEF PageInv
  <2>2. CASE UNCHANGED object
    BY <1>2, <2>2 DEF PageInv, AbortInv
  <2> QED
    BY <1>2, <2>1, <2>2, PageSteps
<1>3. ASSUME kind = "input" PROVE InputInv'
  <2>1. CASE PI!Next
    BY <1>3, <2>1, InputSteps DEF PageInv
  <2>2. CASE UNCHANGED object
    BY <1>3, <2>2 DEF PageInv, InputInv
  <2> QED
    BY <1>3, <2>1, <2>2, PageSteps
<1>4. ASSUME kind = "animations" PROVE AnimState(Options, object)'
  BY <1>4, PageAnimations DEF AnimStep
<1>5. ASSUME kind = "ticks" PROVE AnimState(TickOptions, object)'
  BY <1>5, PageAnimations DEF AnimStep
<1>6. ASSUME kind = "layout" PROVE LayInv(LayoutObserver, Watched, {}, FULL, object)'
  <2>1. CASE Lay(LayoutObserver, Watched, {}, FULL)!Next
    BY <1>6, <2>1, PageBounds, LaySteps DEF PageInv
  <2>2. CASE UNCHANGED object
    BY <1>6, <2>2 DEF PageInv, LayInv
  <2> QED
    BY <1>6, <2>1, <2>2, PageSteps
<1>7. ASSUME kind = "resize" PROVE LayInv(LayoutObserver, {"s"}, {2}, 2, object)'
  <2>1. CASE Lay(LayoutObserver, {"s"}, {2}, 2)!Next
    BY <1>7, <2>1, PageBounds, LaySteps DEF PageInv
  <2>2. CASE UNCHANGED object
    BY <1>7, <2>2 DEF PageInv, LayInv
  <2> QED
    BY <1>7, <2>1, <2>2, PageSteps
<1>8. ASSUME kind = "xhr" PROVE XhrInv'
  <2>1. CASE XR!Next
    BY <1>8, <2>1, PageBounds, XhrSteps DEF PageInv
  <2>2. CASE UNCHANGED object
    BY <1>8, <2>2 DEF PageInv, XhrInv
  <2> QED
    BY <1>8, <2>1, <2>2, PageSteps
<1>9. ASSUME kind = "streams" PROVE StreamInv'
  <2>1. CASE ST!Next
    BY <1>9, <2>1, PageBounds, StreamSteps DEF PageInv
  <2>2. CASE UNCHANGED object
    BY <1>9, <2>2 DEF PageInv, StreamInv
  <2> QED
    BY <1>9, <2>1, <2>2, PageSteps
<1>10. ASSUME kind = "codecs" PROVE CodecInv'
  <2>1. CASE WC!Next
    BY <1>10, <2>1, CodecSteps DEF PageInv
  <2>2. CASE UNCHANGED object
    BY <1>10, <2>2 DEF PageInv, CodecInv
  <2> QED
    BY <1>10, <2>1, <2>2, PageSteps
<1>11. ASSUME kind = "mutations" PROVE MutInv'
  <2>1. CASE MO!Next
    BY <1>11, <2>1, PageBounds, MutSteps DEF PageInv
  <2>2. CASE UNCHANGED object
    BY <1>11, <2>2 DEF PageInv, MutInv
  <2> QED
    BY <1>11, <2>1, <2>2, PageSteps
<1> QED
  BY <1>1, <1>2, <1>3, <1>4, <1>5, <1>6, <1>7, <1>8, <1>9, <1>10, <1>11 DEF PageInv

\* The invariant of the objects: what their calls in any order keep.
THEOREM PageKept == Spec => []PageInv
BY PageFirst, PageGoesOn, PTL DEF Spec

\* What was started is told what became of it: a signal that follows an aborted one, an
\* animation that ran out, a composition the user has left, a target that came into view or
\* left it, the sends of a request, the chunks of a stream, the outputs of a codec, and
\* mutations that an observer watched for.
THEOREM OutcomesAreTold == Spec => []OutcomesTold
<1>1. PageInv => OutcomesTold
  <2> SUFFICES ASSUME PageInv PROVE OutcomesTold
    OBVIOUS
  <2>1. kind = "abort" => AB!FollowersAbort
    BY PageBounds, AbortTold DEF PageInv
  <2>2. kind = "input" => PI!CompositionsBalanced
    BY InputTold DEF PageInv
  <2>3. kind = "animations" => Ani(Options, 1, MaxTime, 1)!EndingsTold
    BY AnimTold DEF PageInv
  <2>4. kind = "ticks" => Ani(TickOptions, MaxAnimations, 1, 0)!EndingsTold
    BY AnimTold DEF PageInv
  <2>5. kind = "layout" => Lay(LayoutObserver, Watched, {}, FULL)!ToldInView
    BY LayTold DEF PageInv
  <2>6. kind = "resize" => Lay(LayoutObserver, {"s"}, {2}, 2)!ToldInView
    BY LayTold DEF PageInv
  <2>7. kind = "xhr" => XR!AnswersWhole
    BY XhrTold DEF PageInv
  <2>8. kind = "streams" => ST!ChunksInOrder
    BY StreamTold DEF PageInv
  <2>9. kind = "codecs" => WC!OutputsMatch
    BY CodecTold DEF PageInv
  <2>10. kind = "mutations" => MO!MutationsHeard
    BY MutTold DEF PageInv
  <2> QED
    BY <2>1, <2>2, <2>3, <2>4, <2>5, <2>6, <2>7, <2>8, <2>9, <2>10, Zenon DEF OutcomesTold
<1> QED
  BY <1>1, PageKept, PTL

\* An animation's time stands still while it is paused, whatever its rate becomes.
THEOREM PausesKeepTime == Spec => PauseKeepsTime
<1>1. PageInv /\ [Next]_vars =>
        [/\ kind = "animations" => Ani(Options, 1, MaxTime, 1)!PauseKept
         /\ kind = "ticks" => Ani(TickOptions, MaxAnimations, 1, 0)!PauseKept]_vars
  BY PageAnimations, AnimHeld
<1> QED
  BY <1>1, PageKept, PTL DEF PauseKeepsTime, Spec

==============================================================================
