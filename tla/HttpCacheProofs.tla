--------------------------- MODULE HttpCacheProofs ---------------------------
(***************************************************************************)
(* The disk cache keeps its books, its cap and its pairs of files.         *)
(*                                                                         *)
(* Two inductive invariants.  IInv holds until a file operation fails and  *)
(* says what each place in store and in eviction has done so far: a body   *)
(* is there before the meta file is written, and the meta file is gone     *)
(* before the body is removed.  Strong holds whatever fails: its Books     *)
(* balance the index after every operation, Capped is what eviction has    *)
(* still to do, and Paired is how far the one key that is being stored or  *)
(* evicted has got, in a process that nothing has cut short.               *)
(*                                                                         *)
(* The sums of the index and the eviction order are functions defined by   *)
(* recursion, so the first lemmas say that these functions exist and what  *)
(* one step of them does.                                                  *)
(***************************************************************************)
EXTENDS HttpCache, FiniteSetTheorems, WellFoundedInduction, TLAPS

(* Sums over keys. *)

\* A set of naturals has a least member.
LEMMA LeastMember ==
  ASSUME NEW S, S \subseteq Nat, S # {}
  PROVE  \E m \in S : \A k \in S : m <= k
<1>1. PICK m \in S : \A k \in S : <<k, m>> \notin OpToRel(<, Nat)
  BY WFMin, NatLessThanWellFounded
<1>2. \A k \in S : ~(k < m)
  BY <1>1 DEF OpToRel
<1>3. \A k \in S : m <= k
  BY <1>2
<1> QED
  BY <1>3

\* it adds up f over every set of keys, taking out one member after the other.
Some(s) == CHOOSE x \in s : TRUE
Sums(f, it) ==
  it = [s \in SUBSET DOMAIN f |-> IF s = {} THEN 0 ELSE f[Some(s)] + it[s \ {Some(s)}]]

\* There is such an it: one for sets of n members extends to one of n + 1.
LEMMA SumExists ==
  ASSUME NEW f \in [Key -> Nat]
  PROVE  \E it \in [SUBSET Key -> Nat] : Sums(f, it)
<1> DEFINE Small(n) == {s \in SUBSET Key : Cardinality(s) <= n}
           Step(it, s) == IF s = {} THEN 0 ELSE f[Some(s)] + it[s \ {Some(s)}]
           Up(n) == \E it \in [Small(n) -> Nat] : \A s \in Small(n) : it[s] = Step(it, s)
           bad == {n \in Nat : ~Up(n)}
<1>1. \A s \in SUBSET Key :
        /\ Cardinality(s) \in Nat
        /\ Cardinality(s) <= Cardinality(Key)
        /\ Cardinality(s) = 0 <=> s = {}
        /\ s # {} => /\ Some(s) \in s
                     /\ Cardinality(s \ {Some(s)}) = Cardinality(s) - 1
  <2> TAKE s \in SUBSET Key
  <2>1. IsFiniteSet(s) /\ Cardinality(s) <= Cardinality(Key)
    BY BoundsAssumption, FS_Subset
  <2>2. s # {} => Some(s) \in s
    BY DEF Some
  <2>3. Cardinality(s) \in Nat /\ (Cardinality(s) = 0 <=> s = {})
    BY <2>1, FS_CardinalityType, FS_EmptySet
  <2>4. ASSUME s # {} PROVE Cardinality(s \ {Some(s)}) = Cardinality(s) - 1
    BY <2>1, <2>2, <2>4, FS_RemoveElement
  <2> QED
    BY <2>1, <2>2, <2>3, <2>4
<1>2. Up(0)
  <2>1. ASSUME NEW s \in Small(0) PROVE s = {}
    <3>1. s \in SUBSET Key /\ Cardinality(s) <= 0
      OBVIOUS
    <3>2. Cardinality(s) \in Nat /\ (Cardinality(s) = 0 <=> s = {})
      BY <1>1, <3>1
    <3> QED
      BY <3>1, <3>2
  <2>2. [s \in Small(0) |-> 0] \in [Small(0) -> Nat]
    OBVIOUS
  <2> QED
    BY <2>1, <2>2
<1>3. ASSUME NEW n \in Nat, Up(n) PROVE Up(n + 1)
  <2>1. PICK it \in [Small(n) -> Nat] : \A s \in Small(n) : it[s] = Step(it, s)
    BY <1>3
  <2> DEFINE up == [s \in Small(n + 1) |-> Step(it, s)]
  <2>2. ASSUME NEW s \in Small(n + 1), s # {}
        PROVE  s \ {Some(s)} \in Small(n) /\ s \ {Some(s)} \in Small(n + 1)
    <3>1. s \ {Some(s)} \in SUBSET Key /\ Cardinality(s) <= n + 1
      OBVIOUS
    <3> QED
      BY <1>1, <2>2, <3>1
  <2>3. \A s \in Small(n + 1) : Step(it, s) \in Nat
    BY <1>1, <2>2
  <2>4. up \in [Small(n + 1) -> Nat]
    BY <2>3
  <2>5. ASSUME NEW s \in Small(n + 1) PROVE up[s] = Step(up, s)
    <3>1. CASE s = {}
      BY <3>1
    <3>2. CASE s # {}
      <4> DEFINE t == s \ {Some(s)}
      <4>1. t \in Small(n) /\ t \in Small(n + 1)
        BY <2>2, <3>2
      <4>2. up[t] = it[t]
        BY <4>1, <2>1
      <4> QED
        BY <4>2, <3>2
    <3> QED
      BY <3>1, <3>2
  <2> QED
    BY <2>4, <2>5
<1>4. bad = {}
  <2> SUFFICES ASSUME bad # {} PROVE FALSE
    OBVIOUS
  <2> HIDE DEF Up
  <2>1. PICK m \in bad : \A k \in bad : m <= k
    BY LeastMember
  <2>2. m # 0 /\ m - 1 \in Nat /\ Up(m - 1)
    BY <2>1, <1>2
  <2>3. Up((m - 1) + 1)
    BY <2>2, <1>3
  <2> QED
    BY <2>1, <2>3
<1>5. Up(Cardinality(Key)) /\ Small(Cardinality(Key)) = SUBSET Key
  <2>1. Cardinality(Key) \in Nat
    BY <1>1
  <2> HIDE DEF Up
  <2>2. Up(Cardinality(Key))
    BY <2>1, <1>4
  <2> QED
    BY <2>2, <1>1
<1>6. PICK it \in [SUBSET Key -> Nat] : \A s \in SUBSET Key : it[s] = Step(it, s)
  BY <1>5
<1>7. it = [s \in SUBSET Key |-> Step(it, s)]
  BY <1>6
<1> QED
  BY <1>6, <1>7 DEF Sums

\* Total is such a sum over all keys.
LEMMA TotalIsSum ==
  ASSUME NEW f \in [Key -> Nat]
  PROVE  \E it : Sums(f, it) /\ Total(f) = it[Key]
<1> DEFINE it == CHOOSE g : g = [s \in SUBSET DOMAIN f |->
                   IF s = {} THEN 0
                   ELSE f[CHOOSE x \in s : TRUE] + g[s \ {CHOOSE x \in s : TRUE}]]
<1>1. \E g : g = [s \in SUBSET DOMAIN f |->
               IF s = {} THEN 0
               ELSE f[CHOOSE x \in s : TRUE] + g[s \ {CHOOSE x \in s : TRUE}]]
  <2>1. PICK g : Sums(f, g)
    BY SumExists
  <2> QED
    BY <2>1 DEF Sums, Some
<1>3. Sums(f, it)
  BY <1>1 DEF Sums, Some
<1>2. Total(f) = it[DOMAIN f]
  BY DEF Total, MapThenSumSet, MapThenFoldSet
<1> HIDE DEF it
<1> QED
  BY <1>2, <1>3

\* What it is of a set, given what it is of the set without one member.
LEMMA SumStep ==
  ASSUME NEW f \in [Key -> Nat], NEW it, Sums(f, it)
  PROVE  \A s \in SUBSET Key :
           it[s] = IF s = {} THEN 0 ELSE f[Some(s)] + it[s \ {Some(s)}]
BY DEF Sums

\* Two keyed sums that differ at one key differ by that much.
LEMMA TotalChange ==
  ASSUME NEW f \in [Key -> Nat], NEW k \in Key, NEW v \in Nat
  PROVE  /\ Total(f) \in Nat /\ Total(f) >= f[k]
         /\ Total([f EXCEPT ![k] = v]) = Total(f) - f[k] + v
<1> DEFINE g == [f EXCEPT ![k] = v]
<1>1. g \in [Key -> Nat] /\ g[k] = v /\ \A x \in Key : x # k => g[x] = f[x]
  OBVIOUS
<1> HIDE DEF g
<1>2. PICK a : Sums(f, a) /\ Total(f) = a[Key]
  BY TotalIsSum
<1>3. PICK b : Sums(g, b) /\ Total(g) = b[Key]
  BY <1>1, TotalIsSum
<1>sums. \A s \in SUBSET Key :
        /\ a[s] = IF s = {} THEN 0 ELSE f[Some(s)] + a[s \ {Some(s)}]
        /\ b[s] = IF s = {} THEN 0 ELSE g[Some(s)] + b[s \ {Some(s)}]
  <2>1. \A s \in SUBSET Key : a[s] = IF s = {} THEN 0 ELSE f[Some(s)] + a[s \ {Some(s)}]
    BY <1>2, SumStep
  <2>2. \A s \in SUBSET Key : b[s] = IF s = {} THEN 0 ELSE g[Some(s)] + b[s \ {Some(s)}]
    BY <1>1, <1>3, SumStep
  <2> QED
    BY <2>1, <2>2
<1> DEFINE Fine(s) == /\ a[s] \in Nat
                      /\ k \in s => a[s] >= f[k] /\ b[s] = a[s] - f[k] + v
                      /\ k \notin s => b[s] = a[s]
           bad == {n \in Nat : \E s \in SUBSET Key : Cardinality(s) = n /\ ~Fine(s)}
<1>4. ASSUME bad # {} PROVE FALSE
  <2>1. PICK m \in bad : \A n \in bad : m <= n
    BY <1>4, LeastMember
  <2>2. PICK s \in SUBSET Key : Cardinality(s) = m /\ ~Fine(s)
    BY <2>1
  <2>3. IsFiniteSet(s)
    BY BoundsAssumption, FS_Subset
  <2>4. CASE s = {}
    <3>1. a[s] = 0 /\ b[s] = 0 /\ k \notin s
      BY <2>4, <1>sums
    <3> QED
      BY <2>2, <3>1
  <2>5. CASE s # {}
    <3> DEFINE x == Some(s)
               t == s \ {x}
    <3>1. x \in s /\ x \in Key /\ t \in SUBSET Key
      BY <2>5 DEF Some
    <3>2. a[s] = f[x] + a[t] /\ b[s] = g[x] + b[t]
      BY <2>5, <1>sums
    <3>3. Cardinality(t) = m - 1 /\ Cardinality(t) \in Nat
      BY <2>2, <2>3, <3>1, FS_RemoveElement, FS_CardinalityType
    <3>4. Fine(t)
      <4> HIDE DEF Fine, t
      <4> QED
        BY <2>1, <3>1, <3>3
    <3>5. Fine(s)
      <4>1. f[x] \in Nat /\ g[x] \in Nat /\ f[k] \in Nat
        BY <3>1, <1>1
      <4>2. CASE x = k
        <5>1. k \notin t /\ k \in s /\ g[x] = v
          BY <4>2, <3>1, <1>1
        <5> HIDE DEF t, x
        <5> QED
          BY <5>1, <3>2, <3>4, <4>1, <4>2
      <4>3. CASE x # k
        <5>1. (k \in t <=> k \in s) /\ g[x] = f[x]
          BY <4>3, <3>1, <1>1
        <5> HIDE DEF t, x
        <5> QED
          BY <5>1, <3>2, <3>4, <4>1
      <4> QED
        BY <4>2, <4>3
    <3> QED
      BY <3>5, <2>2
  <2> QED
    BY <2>4, <2>5
<1>5. Fine(Key)
  <2>1. Cardinality(Key) \in Nat
    BY BoundsAssumption, FS_CardinalityType
  <2> HIDE DEF Fine
  <2> QED
    BY <1>4, <2>1
<1> QED
  BY <1>2, <1>3, <1>5 DEF g

\* Nothing adds up to nothing.
LEMMA TotalOfNothing ==
  ASSUME NEW f \in [Key -> Nat], \A k \in Key : f[k] = 0
  PROVE  Total(f) = 0
<1>1. PICK a : Sums(f, a) /\ Total(f) = a[Key]
  BY TotalIsSum
<1>sums. \A s \in SUBSET Key : a[s] = IF s = {} THEN 0 ELSE f[Some(s)] + a[s \ {Some(s)}]
  BY <1>1, SumStep
<1> DEFINE bad == {n \in Nat : \E s \in SUBSET Key : Cardinality(s) = n /\ a[s] # 0}
<1>2. ASSUME bad # {} PROVE FALSE
  <2>1. PICK m \in bad : \A n \in bad : m <= n
    BY <1>2, LeastMember
  <2>2. PICK s \in SUBSET Key : Cardinality(s) = m /\ a[s] # 0
    BY <2>1
  <2>3. IsFiniteSet(s)
    BY BoundsAssumption, FS_Subset
  <2>4. s # {}
    BY <2>2, <1>sums
  <2> DEFINE x == Some(s)
             t == s \ {x}
  <2>5. x \in s /\ x \in Key /\ t \in SUBSET Key
    BY <2>4 DEF Some
  <2>6. a[s] = f[x] + a[t]
    BY <2>4, <1>sums
  <2>7. Cardinality(t) = m - 1 /\ Cardinality(t) \in Nat
    BY <2>2, <2>3, <2>5, FS_RemoveElement, FS_CardinalityType
  <2>8. a[t] = 0
    <3> HIDE DEF t
    <3> QED
      BY <2>1, <2>5, <2>7
  <2> QED
    BY <2>2, <2>5, <2>6, <2>8
<1>3. Cardinality(Key) \in Nat
  BY BoundsAssumption, FS_CardinalityType
<1> QED
  BY <1>1, <1>2, <1>3

----------------------------------------------------------------------------
(* The eviction order. *)

\* Without keeps the other keys, in their order, once each.
LEMMA Kept ==
  ASSUME order \in Seq(Key), NEW k,
         \A i, j \in DOMAIN order : order[i] = order[j] => i = j
  PROVE  LET rest == Without(k) IN
         /\ rest \in Seq(Key)
         /\ \A i, j \in DOMAIN rest : rest[i] = rest[j] => i = j
         /\ \A x : (\E i \in DOMAIN rest : rest[i] = x)
                   <=> x # k /\ \E i \in DOMAIN order : order[i] = x
<1> DEFINE Step(it, n) ==
             IF n = 0 THEN <<>>
             ELSE IF order[n] = k THEN it[n - 1] ELSE Append(it[n - 1], order[n])
           Fine(s, n) ==
             /\ s \in Seq(Key)
             /\ \A i, j \in DOMAIN s : s[i] = s[j] => i = j
             /\ \A x : (\E i \in DOMAIN s : s[i] = x)
                       <=> x # k /\ \E i \in 1..n : order[i] = x
           Up(n) == \E it : /\ it = [i \in 0..n |-> Step(it, i)]
                            /\ \A i \in 0..n : Fine(it[i], i)
           bad == {n \in 0..Len(order) : ~Up(n)}
<1>0. Len(order) \in Nat /\ DOMAIN order = 1..Len(order)
  OBVIOUS
<1>1. Up(0)
  <2>1. Fine(<<>>, 0)
    OBVIOUS
  <2> DEFINE it == [i \in 0..0 |-> <<>>]
  <2>2. it = [i \in 0..0 |-> Step(it, i)]
    OBVIOUS
  <2>3. \A i \in 0..0 : it[i] = <<>> /\ i = 0
    OBVIOUS
  <2> HIDE DEF it, Fine, Step
  <2> QED
    BY <2>1, <2>2, <2>3
<1>2. ASSUME NEW n \in Nat, n < Len(order), Up(n) PROVE Up(n + 1)
  <2>1. PICK it : it = [i \in 0..n |-> Step(it, i)] /\ \A i \in 0..n : Fine(it[i], i)
    BY <1>2
  <2>0. n < Len(order)
    BY <1>2
  <2> DEFINE up == [i \in 0..(n + 1) |-> IF i <= n THEN it[i] ELSE Step(it, n + 1)]
  <2>2. \A i \in 0..n : up[i] = it[i] /\ it[i] = Step(it, i)
    <3>1. \A i \in 0..n : up[i] = it[i]
      OBVIOUS
    <3> HIDE DEF Step, Fine, up
    <3> QED
      BY <2>1, <3>1
  <2>3. up[n + 1] = Step(it, n + 1)
    OBVIOUS
  <2>4. DOMAIN up = 0..(n + 1) /\ up = [i \in 0..(n + 1) |-> up[i]]
    OBVIOUS
  <2> HIDE DEF up
  <2>5. ASSUME NEW i \in 0..(n + 1) PROVE Step(up, i) = up[i]
    <3>1. CASE i = 0
      BY <3>1, <2>2
    <3>2. CASE i # 0
      <4>1. up[i - 1] = it[i - 1]
        BY <3>2, <2>2
      <4>2. CASE i \in 0..n
        BY <4>1, <4>2, <3>2, <2>2
      <4>3. CASE i = n + 1
        BY <4>1, <4>3, <3>2, <2>3
      <4> QED
        BY <4>2, <4>3
    <3> QED
      BY <3>1, <3>2
  <2>6. up = [i \in 0..(n + 1) |-> Step(up, i)]
    <3> HIDE DEF Step
    <3> QED
      BY <2>4, <2>5
  <2>7. Fine(up[n + 1], n + 1)
    <3> DEFINE s == it[n]
    <3>1. Fine(s, n)
      <4> HIDE DEF Fine, Step
      <4> QED
        BY <2>1, <1>0
    <3>8. n + 1 \in DOMAIN order /\ n + 1 # 0 /\ (n + 1) - 1 = n
      BY <2>0, <1>0
    <3>7. n + 1 \in DOMAIN order /\ order[n + 1] \in Key
      BY <3>8
    <3>2. up[n + 1] = IF order[n + 1] = k THEN s ELSE Append(s, order[n + 1])
      BY <2>3, <3>8
    <3>3. \A i \in 1..n : order[i] # order[n + 1]
      BY <2>0, <1>0, <3>8
    <3>4. \A x : (\E i \in 1..(n + 1) : order[i] = x)
                 <=> (\E i \in 1..n : order[i] = x) \/ x = order[n + 1]
      OBVIOUS
    <3>5. CASE order[n + 1] = k
      BY <3>1, <3>2, <3>4, <3>5
    <3>6. CASE order[n + 1] # k
      <4> DEFINE t == Append(s, order[n + 1])
      <4>6. s \in Seq(Key) /\ Len(s) \in Nat /\ DOMAIN s = 1..Len(s)
        BY <3>1
      <4>7. t \in Seq(Key) /\ Len(t) = Len(s) + 1 /\ DOMAIN t = 1..(Len(s) + 1)
        BY <3>7, <4>6
      <4>1. t[Len(s) + 1] = order[n + 1] /\ \A i \in 1..Len(s) : t[i] = s[i]
        BY <3>7, <4>6
      <4> HIDE DEF s, t
      <4>2. \A i \in 1..Len(s) : s[i] # order[n + 1]
        BY <3>1, <3>3, <4>6
      <4>3. \A i, j \in DOMAIN t : t[i] = t[j] => i = j
        BY <3>1, <4>1, <4>2, <4>6, <4>7
      <4>4. \A x : (\E i \in DOMAIN t : t[i] = x)
                   <=> (\E i \in DOMAIN s : s[i] = x) \/ x = order[n + 1]
        BY <4>1, <4>6, <4>7
      <4>5. Fine(t, n + 1)
        BY <3>1, <3>4, <3>6, <4>3, <4>4, <4>7
      <4> QED
        BY <3>2, <3>6, <4>5 DEF t
    <3> QED
      BY <3>5, <3>6
  <2>8. \A i \in 0..(n + 1) : Fine(up[i], i)
    <3> HIDE DEF Fine, Step
    <3> QED
      BY <2>1, <2>2, <2>7
  <2> HIDE DEF Fine, Step
  <2> QED
    BY <2>6, <2>8
<1>3. bad = {}
  <2> SUFFICES ASSUME bad # {} PROVE FALSE
    OBVIOUS
  <2> HIDE DEF Up
  <2>4. bad \subseteq Nat
    BY <1>0
  <2>1. PICK m \in bad : \A n \in bad : m <= n
    <3> HIDE DEF bad
    <3> QED
      BY <2>4, LeastMember
  <2>2. m # 0 /\ m - 1 \in Nat /\ m - 1 < Len(order) /\ Up(m - 1)
    BY <2>1, <1>1
  <2>3. Up((m - 1) + 1)
    BY <2>2, <1>2
  <2> QED
    BY <2>1, <2>3
<1>4. Up(Len(order))
  <2> HIDE DEF Up
  <2> QED
    BY <1>3
<1> DEFINE kept == CHOOSE it : it = [i \in 0..Len(order) |-> Step(it, i)]
<1>5. PICK it : /\ it = [i \in 0..Len(order) |-> Step(it, i)]
                /\ \A i \in 0..Len(order) : Fine(it[i], i)
  BY <1>4
<1>6. kept = [i \in 0..Len(order) |-> Step(kept, i)]
  <2> HIDE DEF Step
  <2> QED
    BY <1>5
<1>7. Without(k) = kept[Len(order)]
  BY DEF Without
<1> HIDE DEF kept
<1>8. \A i \in 0..Len(order) : kept[i] = Step(kept, i) /\ it[i] = Step(it, i)
  <2> HIDE DEF Step, Fine
  <2> QED
    BY <1>5, <1>6
<1>9. {n \in 0..Len(order) : kept[n] # it[n]} = {}
  <2> DEFINE odd == {n \in 0..Len(order) : kept[n] # it[n]}
  <2> SUFFICES ASSUME odd # {} PROVE FALSE
    OBVIOUS
  <2>4. odd \subseteq Nat
    BY <1>0
  <2>1. PICK m \in odd : \A n \in odd : m <= n
    <3> HIDE DEF odd
    <3> QED
      BY <2>4, LeastMember
  <2>2. m # 0
    BY <1>8
  <2>3. kept[m - 1] = it[m - 1]
    BY <2>1, <2>2
  <2> QED
    BY <1>8, <2>2, <2>3
<1>10. Fine(Without(k), Len(order))
  <2>1. Len(order) \in 0..Len(order)
    BY <1>0
  <2>2. kept[Len(order)] = it[Len(order)]
    BY <1>9, <2>1
  <2> HIDE DEF Fine
  <2> QED
    BY <1>5, <1>7, <2>1, <2>2
<1>11. DOMAIN order = 1..Len(order)
  OBVIOUS
<1> QED
  BY <1>10, <1>11

----------------------------------------------------------------------------
(* A meta file has its body. *)

FileTypes ==
  /\ meta_file \in [Key -> Entry \cup {NoEntry}]
  /\ body_file \in [Key -> Version \cup {None}]
  /\ map \in [Key -> Entry \cup {NoEntry}]

StepTypes ==
  /\ step.at \in {"body", "meta", "index"} =>
       step.key \in Key /\ step.version \in Version /\ step.fresh \in BOOLEAN
  /\ step = At(step.at, step.key, step.version, step.fresh)
  /\ server \in [Key -> Version \cup {None}]

\* What is on disk at each place.
Progress ==
  /\ step.at = "meta" => body_file[step.key] # None
  /\ step.at = "index" => meta_file[step.key] # NoEntry
  /\ step.at = "unlink" /\ step.key \in Key => meta_file[step.key] = NoEntry

HotOnDisk == \A k \in Key : map[k] # NoEntry => meta_file[k] # NoEntry

IInv == FileTypes /\ StepTypes /\ Progress /\ HotOnDisk /\ BodyBeside

\* A stored entry is not the missing one, and its fields are typed.
LEMMA Entries ==
  ASSUME NEW e \in Entry \cup {NoEntry}
  PROVE  /\ e.version \in Version \cup {None} /\ e.fresh \in BOOLEAN
         /\ e # NoEntry <=> e.version \in Version
         /\ Stale(e) \in Entry \cup {NoEntry}
         /\ Stale(e) = NoEntry <=> e = NoEntry
<1>0. Version \subseteq Nat \ {0} /\ None \notin Version
  BY BoundsAssumption DEF Version, None
<1>1. CASE e = NoEntry
  <2>1. e.version = None /\ e.fresh \in BOOLEAN /\ Stale(e) = NoEntry
    BY <1>1 DEF NoEntry, Stale
  <2> QED
    BY <2>1, <1>0, <1>1
<1>2. CASE e \in Entry
  <2>1. /\ e = [version |-> e.version, fresh |-> e.fresh]
        /\ e.version \in Version /\ e.fresh \in BOOLEAN
    BY <1>2 DEF Entry
  <2>2. Stale(e) = [version |-> e.version, fresh |-> FALSE]
    BY DEF Stale
  <2>3. Stale(e) \in Entry /\ Stale(e).version \in Version
    BY <2>1, <2>2 DEF Entry
  <2>4. NoEntry.version \notin Version
    BY <1>0 DEF NoEntry
  <2>5. e # NoEntry /\ Stale(e) # NoEntry
    BY <2>1, <2>3, <2>4
  <2> QED
    BY <2>1, <2>3, <2>5
<1> QED
  BY <1>1, <1>2

\* An entry that lookup finds is a hot one or a meta file's.
LEMMA Lookups ==
  ASSUME IInv, NEW k \in Key
  PROVE  /\ Lookup(k) \in Entry \cup {NoEntry}
         /\ Lookup(k) # NoEntry => meta_file[k] # NoEntry
BY DEF IInv, FileTypes, HotOnDisk, Lookup

\* It holds of an empty cache.
LEMMA InitIInv == Init => IInv
BY BoundsAssumption DEF Init, IInv, FileTypes, StepTypes, Progress, HotOnDisk,
   BodyBeside, Idle, At, None, NoEntry, Entry, Version

\* Every step keeps it, unless a file operation fails.
LEMMA NextIInv ==
  ASSUME failures \in Nat, failures' = 0, IInv, [Next]_vars
  PROVE  IInv'
<1> USE DEF IInv
<1>0. ~Fails
  BY DEF Fails
<1>1. ASSUME NEW k \in Key, Hit(k) PROVE IInv'
  BY <1>1, Lookups DEF Hit, files, world, FileTypes, StepTypes, Progress, HotOnDisk,
     BodyBeside
<1>2. ASSUME NEW k \in Key, NEW fresh \in BOOLEAN, Revalidate(k, fresh) PROVE IInv'
  <2>1. Lookup(k) \in Entry /\ meta_file[k] # NoEntry /\ body_file[k] # None
    BY <1>2, Lookups DEF Revalidate, BodyBeside
  <2> DEFINE entry == [version |-> Lookup(k).version, fresh |-> fresh]
  <2>2. entry \in Entry /\ entry # NoEntry
    BY <2>1, Entries DEF Entry, NoEntry, None, Version
  <2>3. /\ map' = [map EXCEPT ![k] = entry]
        /\ meta_file' = [meta_file EXCEPT ![k] = entry]
        /\ UNCHANGED <<body_file, step, server>>
    BY <1>2, <1>0 DEF Revalidate, world
  <2> HIDE DEF entry
  <2> QED
    BY <2>1, <2>2, <2>3 DEF FileTypes, StepTypes, Progress, HotOnDisk, BodyBeside, Idle, At
<1>3. ASSUME NEW k \in Key, NEW fresh \in BOOLEAN, Fetch(k, fresh) PROVE IInv'
  <2>1. /\ map' = [map EXCEPT ![k] = Lookup(k)]
        /\ UNCHANGED <<meta_file, body_file, server>>
        /\ step = Idle
        /\ step' = step \/ step' = At("body", k, server[k], fresh)
        /\ server[k] # None
    BY <1>3 DEF Fetch, files, world
  <2>2. FileTypes' /\ HotOnDisk' /\ BodyBeside'
    BY <2>1, Lookups DEF FileTypes, HotOnDisk, BodyBeside
  <2>3. StepTypes' /\ Progress'
    BY <2>1 DEF StepTypes, Progress, At, Idle
  <2> QED
    BY <2>2, <2>3
<1>4. ASSUME NEW k \in Key, Publish(k) PROVE IInv'
  BY <1>4 DEF Publish, files, memory, FileTypes, StepTypes, Progress, HotOnDisk,
     BodyBeside
<1>5. ASSUME NEW k \in Key, Expire(k) PROVE IInv'
  <2>1. /\ map' = [map EXCEPT ![k] = Stale(@)]
        /\ meta_file' = [meta_file EXCEPT ![k] = Stale(@)]
        /\ UNCHANGED <<body_file, step, server>>
    BY <1>5 DEF Expire, world
  <2>2. /\ map[k] \in Entry \cup {NoEntry}
        /\ meta_file[k] \in Entry \cup {NoEntry}
    BY DEF FileTypes
  <2>3. FileTypes'
    BY <2>1, <2>2, Entries DEF FileTypes
  <2>4. \A x \in Key : /\ meta_file'[x] = NoEntry <=> meta_file[x] = NoEntry
                       /\ map'[x] = NoEntry <=> map[x] = NoEntry
    BY <2>1, <2>2, Entries DEF FileTypes
  <2> QED
    BY <2>1, <2>3, <2>4 DEF StepTypes, Progress, HotOnDisk, BodyBeside
<1>6. CASE WriteBody
  <2>1. /\ step.at = "body"
        /\ body_file' = [body_file EXCEPT ![step.key] = step.version]
        /\ step' = [step EXCEPT !.at = "meta"]
        /\ UNCHANGED <<meta_file, map, server>>
    BY <1>6, <1>0 DEF WriteBody, memory, world
  <2>2. step.key \in Key /\ step.version \in Version
    BY <2>1 DEF StepTypes
  <2>3. StepTypes'
    BY <2>1, <2>2 DEF StepTypes, At
  <2> QED
    BY <2>1, <2>2, <2>3, BoundsAssumption
    DEF FileTypes, StepTypes, Progress, HotOnDisk, BodyBeside, Version, None
<1>7. CASE WriteMeta
  <2> DEFINE entry == [version |-> step.version, fresh |-> step.fresh]
  <2>1. /\ step.at = "meta"
        /\ meta_file' = [meta_file EXCEPT ![step.key] = entry]
        /\ step' = [step EXCEPT !.at = "index"]
        /\ UNCHANGED <<body_file, map, server>>
    BY <1>7, <1>0 DEF WriteMeta, memory, world
  <2>2. step.key \in Key /\ entry \in Entry /\ entry # NoEntry
    BY <2>1 DEF StepTypes, Entry, NoEntry, None, Version
  <2>3. StepTypes'
    BY <2>1, <2>2 DEF StepTypes, At
  <2> HIDE DEF entry
  <2> QED
    BY <2>1, <2>2, <2>3 DEF FileTypes, StepTypes, Progress, HotOnDisk, BodyBeside
<1>8. CASE UpdateIndex
  <2> DEFINE entry == [version |-> step.version, fresh |-> step.fresh]
  <2>1. /\ step.at = "index"
        /\ map' = [map EXCEPT ![step.key] = entry]
        /\ step' = [Idle EXCEPT !.at = "evict"]
        /\ UNCHANGED <<meta_file, body_file, server>>
    BY <1>8 DEF UpdateIndex, files, world
  <2>2. step.key \in Key /\ entry \in Entry
    BY <2>1 DEF StepTypes, Entry
  <2>3. StepTypes' /\ Progress'
    BY <2>1 DEF StepTypes, Progress, Idle, At
  <2> HIDE DEF entry
  <2> QED
    BY <2>1, <2>2, <2>3 DEF FileTypes, Progress, HotOnDisk, BodyBeside
<1>9. CASE EvictOldest
  <2> DEFINE k == Head(order)
  <2>1. /\ step.at = "evict"
        /\ map' = [map EXCEPT ![k] = NoEntry]
        /\ meta_file' = [meta_file EXCEPT ![k] = NoEntry]
        /\ step' = [Idle EXCEPT !.at = "unlink", !.key = k]
        /\ UNCHANGED <<body_file, server>>
    BY <1>9, <1>0 DEF EvictOldest, world
  <2>2. StepTypes'
    BY <2>1 DEF StepTypes, Idle, At
  <2>3. step'.at = "unlink" /\ step'.key = k
    BY <2>1 DEF Idle
  <2> HIDE DEF k
  <2> QED
    BY <2>1, <2>2, <2>3 DEF FileTypes, Progress, HotOnDisk, BodyBeside
<1>10. CASE RemoveBody
  <2>1. /\ step.at = "unlink"
        /\ body_file' = [body_file EXCEPT ![step.key] = None]
        /\ step' = [Idle EXCEPT !.at = "evict"]
        /\ UNCHANGED <<meta_file, map, server>>
    BY <1>10, <1>0 DEF RemoveBody, memory, world
  <2>2. StepTypes' /\ Progress'
    BY <2>1 DEF StepTypes, Progress, Idle, At
  <2> QED
    BY <2>1, <2>2 DEF FileTypes, Progress, HotOnDisk, BodyBeside
<1>11. CASE EvictionDone
  BY <1>11 DEF EvictionDone, files, memory, world, FileTypes, StepTypes, Progress,
     HotOnDisk, BodyBeside, Idle, At
<1>12. CASE Crash
  <2>1. /\ map' = [k \in Key |-> NoEntry]
        /\ step' = [Idle EXCEPT !.at = "evict"]
        /\ UNCHANGED <<meta_file, body_file, server>>
    BY <1>12 DEF Crash, files, world
  <2>2. StepTypes' /\ Progress'
    BY <2>1 DEF StepTypes, Progress, Idle, At
  <2> QED
    BY <2>1, <2>2 DEF FileTypes, HotOnDisk, BodyBeside
<1>13. CASE UNCHANGED vars
  BY <1>13 DEF vars, files, memory, world, FileTypes, StepTypes, Progress, HotOnDisk,
     BodyBeside
<1> QED
  BY <1>1, <1>2, <1>3, <1>4, <1>5, <1>6, <1>7, <1>8, <1>9, <1>10, <1>11, <1>12, <1>13
  DEF Next

\* Whatever the sizes, and wherever and however often the process stops: until a
\* file operation fails, every meta file on disk has a body file (store's and
\* evict_until_under_cap's order of file operations).
THEOREM BodiesPresent == Spec => []MetaHasBody
<1> DEFINE Strong == failures \in Nat /\ (failures = 0 => IInv)
<1>1. Init => Strong
  BY InitIInv DEF Init
<1>2. Strong /\ [Next]_vars => Strong'
  <2> SUFFICES ASSUME Strong, [Next]_vars PROVE Strong'
    OBVIOUS
  <2>1. failures' \in Nat /\ failures' >= failures
    BY DEF Next, Hit, Revalidate, Fetch, Publish, Expire, WriteBody, WriteMeta,
       UpdateIndex, EvictOldest, RemoveBody, EvictionDone, Crash, Succeeds, Fails, vars
  <2>2. ASSUME failures' = 0 PROVE IInv'
    <3>1. failures = 0
      BY <2>1, <2>2
    <3> QED
      BY <2>2, <3>1, NextIInv
  <2> QED
    BY <2>1, <2>2
<1>3. Strong => MetaHasBody
  BY DEF IInv, MetaHasBody
<1> QED
  BY <1>1, <1>2, <1>3, PTL DEF Spec

----------------------------------------------------------------------------
(* The books, the cap and the pairs. *)

\* Each key is in the eviction order at most once; where a store or an eviction is.
Ordered ==
  /\ order \in Seq(Key)
  /\ \A i, j \in DOMAIN order : order[i] = order[j] => i = j

Places ==
  /\ step.at \in {"idle", "body", "meta", "index", "evict", "unlink"}
  /\ step.at = "idle" => step = Idle
  /\ step.at = "unlink" => step.key \in Key
  /\ disk \in [Key -> Nat \cup {Absent}]
  /\ crashes \in Nat /\ failures \in Nat

Types == FileTypes /\ StepTypes /\ Places /\ Ordered

InOrder(k) == \E i \in DOMAIN order : order[i] = k

\* The total is the sum, on record and in the order are the same keys, and a hot
\* entry is on record.
Books ==
  /\ total_bytes = Total(OnRecord)
  /\ \A k \in Key : disk[k] # Absent <=> InOrder(k)
  /\ \A k \in Key : map[k] # NoEntry => disk[k] # Absent

\* What lookup finds is typed, and on record.
LEMMA Found ==
  ASSUME Types, NEW k \in Key
  PROVE  /\ Lookup(k) \in Entry \cup {NoEntry}
         /\ Books /\ Lookup(k) # NoEntry => disk[k] # Absent
         /\ NoEntry.fresh = FALSE
<1>1. NoEntry.fresh = FALSE
  BY DEF NoEntry
<1>2. Lookup(k) \in Entry \cup {NoEntry}
  BY DEF Types, FileTypes, Lookup
<1>3. Books /\ Lookup(k) # NoEntry => disk[k] # Absent
  BY DEF Books, Lookup
<1> QED
  BY <1>1, <1>2, <1>3

\* Sizes are what they should be.
LEMMA SizesTyped ==
  ASSUME NEW v \in Version \cup {None}
  PROVE  /\ BodySize(v) \in Nat
         /\ v # None => v \in Version /\ BodySize(v) = SizeOf[v] /\ SizeOf[v] \in Nat
         /\ None \notin Version
<1>1. None \notin Version
  BY BoundsAssumption DEF Version, None
<1>2. v \in Version => SizeOf[v] \in Nat
  BY BoundsAssumption
<1> QED
  BY <1>1, <1>2 DEF BodySize, None

\* The index's sizes are numbers.
LEMMA RecordTyped ==
  ASSUME disk \in [Key -> Nat \cup {Absent}]
  PROVE  /\ OnRecord \in [Key -> Nat]
         /\ \A k \in Key : OnRecord[k] = Counted(disk[k])
         /\ Absent \notin Nat
<1>1. Absent \notin Nat
  BY DEF Absent
<1>2. \A k \in Key : Counted(disk[k]) \in Nat
  BY <1>1 DEF Counted
<1> QED
  BY <1>1, <1>2 DEF OnRecord

\* The oldest key goes from the order, and no other.
LEMMA Oldest ==
  ASSUME Ordered, order # <<>>
  PROVE  /\ Head(order) \in Key /\ InOrder(Head(order))
         /\ Tail(order) \in Seq(Key)
         /\ \A i, j \in DOMAIN Tail(order) : Tail(order)[i] = Tail(order)[j] => i = j
         /\ \A x : (\E i \in DOMAIN Tail(order) : Tail(order)[i] = x)
                   <=> x # Head(order) /\ InOrder(x)
<1> DEFINE t == Tail(order)
<1>1. /\ Len(order) \in Nat /\ Len(order) # 0 /\ DOMAIN order = 1..Len(order)
      /\ order[1] \in Key
  BY DEF Ordered
<1>2. /\ t \in Seq(Key) /\ DOMAIN t = 1..(Len(order) - 1)
      /\ \A i \in 1..(Len(order) - 1) : t[i] = order[i + 1]
  BY <1>1 DEF Ordered
<1>3. Head(order) = order[1]
  BY <1>1 DEF Ordered
<1> HIDE DEF t
<1>4. ASSUME NEW i \in DOMAIN t, NEW j \in DOMAIN t, t[i] = t[j] PROVE i = j
  <2>1. i + 1 \in DOMAIN order /\ j + 1 \in DOMAIN order /\ order[i + 1] = order[j + 1]
    BY <1>1, <1>2, <1>4
  <2>2. i + 1 = j + 1
    BY <2>1 DEF Ordered
  <2> QED
    BY <1>2, <2>2
<1>5. ASSUME NEW i \in DOMAIN t PROVE t[i] # order[1] /\ InOrder(t[i])
  BY <1>1, <1>2 DEF Ordered, InOrder
<1>6. ASSUME NEW i \in DOMAIN order, order[i] # order[1]
      PROVE  \E j \in DOMAIN t : t[j] = order[i]
  <2>1. i - 1 \in DOMAIN t /\ t[i - 1] = order[i]
    BY <1>1, <1>2, <1>6
  <2> QED
    BY <2>1
<1>7. \A x : (\E i \in DOMAIN t : t[i] = x) <=> x # order[1] /\ InOrder(x)
  BY <1>5, <1>6 DEF InOrder
<1> QED
  BY <1>1, <1>2, <1>3, <1>4, <1>7 DEF t, InOrder

\* A key put last is in the order once, with the others that were.
LEMMA PutLast ==
  ASSUME Ordered, NEW k \in Key
  PROVE  LET last == Append(Without(k), k) IN
         /\ last \in Seq(Key)
         /\ \A i, j \in DOMAIN last : last[i] = last[j] => i = j
         /\ \A x : (\E i \in DOMAIN last : last[i] = x) <=> x = k \/ InOrder(x)
<1> DEFINE s == Without(k)
           t == Append(s, k)
<1>1. /\ s \in Seq(Key)
      /\ \A i, j \in DOMAIN s : s[i] = s[j] => i = j
      /\ \A x : (\E i \in DOMAIN s : s[i] = x) <=> x # k /\ InOrder(x)
  BY Kept DEF Ordered, InOrder
<1> HIDE DEF s
<1>2. Len(s) \in Nat /\ DOMAIN s = 1..Len(s)
  BY <1>1
<1>3. /\ t \in Seq(Key) /\ DOMAIN t = 1..(Len(s) + 1) /\ t[Len(s) + 1] = k
      /\ \A i \in 1..Len(s) : t[i] = s[i]
  BY <1>1, <1>2
<1> HIDE DEF t
<1>4. \A i \in 1..Len(s) : s[i] # k
  BY <1>1, <1>2
<1>5. \A i, j \in DOMAIN t : t[i] = t[j] => i = j
  BY <1>1, <1>2, <1>3, <1>4
<1>6. \A x : (\E i \in DOMAIN t : t[i] = x) <=> (\E i \in DOMAIN s : s[i] = x) \/ x = k
  BY <1>2, <1>3
<1> QED
  BY <1>1, <1>3, <1>5, <1>6 DEF t, s

\* A restart finds each file once.
LEMMA Rescan ==
  ASSUME NEW o, NEW S \in SUBSET Key, o \in SetToSeqs(S)
  PROVE  /\ o \in Seq(Key)
         /\ \A i, j \in DOMAIN o : o[i] = o[j] => i = j
         /\ \A x : (\E i \in DOMAIN o : o[i] = x) <=> x \in S
<1>1. IsFiniteSet(S) /\ Cardinality(S) \in Nat
  BY BoundsAssumption, FS_Subset, FS_CardinalityType
<1> DEFINE D == 1..Cardinality(S)
<1>2. o \in [D -> S] /\ \A i, j \in D : i # j => o[i] # o[j]
  BY DEF SetToSeqs
<1>3. o \in Injection(D, S)
  BY <1>2 DEF Injection, IsInjective
<1>4. Cardinality(D) = Cardinality(S)
  BY <1>1, FS_Interval
<1>5. o \in Surjection(D, S)
  BY <1>1, <1>3, <1>4, FS_Injection
<1>6. \A x \in S : \E i \in D : o[i] = x
  BY <1>5 DEF Surjection
<1>7. o \in Seq(Key)
  BY <1>1, <1>2
<1> QED
  BY <1>2, <1>6, <1>7
\* They are the types of an empty cache.
LEMMA InitTypes == Init => Types /\ Books
<1> SUFFICES ASSUME Init PROVE Types /\ Books
  OBVIOUS
<1>1. FileTypes /\ StepTypes
  BY BoundsAssumption DEF Init, FileTypes, StepTypes, Idle, At, None, NoEntry, Entry
<1>2. Places /\ Ordered
  BY DEF Init, Places, Ordered, Idle
<1>3. OnRecord \in [Key -> Nat] /\ \A k \in Key : OnRecord[k] = 0
  BY DEF Init, OnRecord, Counted, Absent
<1>4. Total(OnRecord) = 0
  BY <1>3, TotalOfNothing
<1> QED
  BY <1>1, <1>2, <1>4 DEF Init, Types, Books, InOrder

\* Every step keeps the types.
LEMMA NextTypes ==
  ASSUME Types, [Next]_vars
  PROVE  Types'
<1> USE DEF Types
<1>0. /\ (Succeeds \/ Fails) => failures' \in Nat
      /\ Idle = At("idle", None, None, FALSE) /\ Idle.at = "idle"
  BY DEF Succeeds, Fails, Places, Idle, At
<1>1. ASSUME NEW k \in Key, Hit(k) PROVE Types'
  BY <1>1, Found DEF Hit, files, world, FileTypes, StepTypes, Places, Ordered
<1>2. ASSUME NEW k \in Key, NEW fresh \in BOOLEAN, Revalidate(k, fresh) PROVE Types'
  <2> DEFINE entry == [version |-> Lookup(k).version, fresh |-> fresh]
  <2>1. entry \in Entry
    BY <1>2, Found, Entries DEF Revalidate, Entry
  <2>2. /\ map' = [map EXCEPT ![k] = entry]
        /\ meta_file' = meta_file \/ meta_file' = [meta_file EXCEPT ![k] = entry]
        /\ UNCHANGED <<body_file, disk, order, step, server, crashes>>
        /\ failures' \in Nat
    BY <1>2, <1>0 DEF Revalidate, world
  <2> HIDE DEF entry
  <2> QED
    BY <2>1, <2>2 DEF FileTypes, StepTypes, Places, Ordered
<1>3. ASSUME NEW k \in Key, NEW fresh \in BOOLEAN, Fetch(k, fresh) PROVE Types'
  <2>1. /\ map' = [map EXCEPT ![k] = Lookup(k)]
        /\ UNCHANGED <<meta_file, body_file, disk, order, server, crashes, failures>>
        /\ step = Idle
        /\ step' = step \/ step' = At("body", k, server[k], fresh)
        /\ server[k] # None
    BY <1>3 DEF Fetch, files, world
  <2>2. FileTypes' /\ Ordered'
    BY <2>1, Found DEF FileTypes, Ordered
  <2>3. StepTypes'
    BY <2>1 DEF StepTypes, At, Idle
  <2>4. Places'
    BY <2>1 DEF Places, At, Idle
  <2> QED
    BY <2>2, <2>3, <2>4
<1>4. ASSUME NEW k \in Key, Publish(k) PROVE Types'
  BY <1>4 DEF Publish, files, memory, FileTypes, StepTypes, Places, Ordered
<1>5. ASSUME NEW k \in Key, Expire(k) PROVE Types'
  <2>1. Stale(map[k]) \in Entry \cup {NoEntry} /\ Stale(meta_file[k]) \in Entry \cup {NoEntry}
    BY Entries DEF FileTypes
  <2> QED
    BY <1>5, <2>1 DEF Expire, world, FileTypes, StepTypes, Places, Ordered
<1>6. CASE WriteBody
  <2>1. /\ step.at = "body" /\ step.key \in Key /\ step.version \in Version
        /\ \/ /\ body_file' = [body_file EXCEPT ![step.key] = step.version]
              /\ step' = [step EXCEPT !.at = "meta"]
           \/ body_file' = body_file /\ step' = Idle
        /\ UNCHANGED <<meta_file, map, disk, order, server, crashes>>
        /\ failures' \in Nat
    BY <1>6, <1>0 DEF WriteBody, memory, world, StepTypes
  <2>2. FileTypes' /\ Ordered'
    BY <2>1 DEF FileTypes, Ordered
  <2>3. StepTypes'
    BY <2>1 DEF StepTypes, At, Idle
  <2>4. Places'
    BY <2>1 DEF Places, StepTypes, At, Idle
  <2> QED
    BY <2>2, <2>3, <2>4
<1>7. CASE WriteMeta
  <2> DEFINE entry == [version |-> step.version, fresh |-> step.fresh]
  <2>1. /\ step.at = "meta" /\ step.key \in Key /\ entry \in Entry
        /\ \/ /\ meta_file' = [meta_file EXCEPT ![step.key] = entry]
              /\ body_file' = body_file
              /\ step' = [step EXCEPT !.at = "index"]
           \/ /\ meta_file' = meta_file
              /\ body_file' = [body_file EXCEPT ![step.key] = None]
              /\ step' = Idle
        /\ UNCHANGED <<map, disk, order, server, crashes>>
        /\ failures' \in Nat
    BY <1>7, <1>0 DEF WriteMeta, memory, world, StepTypes, Entry
  <2> HIDE DEF entry
  <2>2. FileTypes' /\ Ordered'
    BY <2>1 DEF FileTypes, Ordered
  <2>3. StepTypes'
    BY <2>1 DEF StepTypes, At, Idle
  <2>4. Places'
    BY <2>1 DEF Places, StepTypes, At, Idle
  <2> QED
    BY <2>2, <2>3, <2>4
<1>8. CASE UpdateIndex
  <2> DEFINE entry == [version |-> step.version, fresh |-> step.fresh]
  <2>1. /\ step.key \in Key /\ entry \in Entry /\ SizeOf[step.version] \in Nat
        /\ disk' = [disk EXCEPT ![step.key] = SizeOf[step.version]]
        /\ map' = [map EXCEPT ![step.key] = entry]
        /\ order' = Append(Without(step.key), step.key)
        /\ step' = [Idle EXCEPT !.at = "evict"]
        /\ UNCHANGED <<meta_file, body_file, server, crashes, failures>>
    BY <1>8, SizesTyped DEF UpdateIndex, files, world, StepTypes, Entry
  <2> HIDE DEF entry
  <2>2. FileTypes'
    BY <2>1 DEF FileTypes
  <2>3. StepTypes'
    BY <2>1 DEF StepTypes, At, Idle
  <2>4. Places'
    BY <2>1 DEF Places, Idle
  <2>5. Ordered'
    BY <2>1, PutLast DEF Ordered
  <2> QED
    BY <2>2, <2>3, <2>4, <2>5
<1>9. CASE EvictOldest
  <2> DEFINE k == Head(order)
  <2>1. /\ k \in Key
        /\ meta_file' = meta_file \/ meta_file' = [meta_file EXCEPT ![k] = NoEntry]
        /\ disk' = [disk EXCEPT ![k] = Absent]
        /\ map' = [map EXCEPT ![k] = NoEntry]
        /\ order' = Tail(order)
        /\ step' = [Idle EXCEPT !.at = "unlink", !.key = k]
        /\ UNCHANGED <<body_file, server, crashes>>
        /\ failures' \in Nat
    BY <1>9, <1>0, Oldest DEF EvictOldest, world
  <2> HIDE DEF k
  <2>2. FileTypes'
    BY <2>1 DEF FileTypes
  <2>3. StepTypes'
    BY <2>1 DEF StepTypes, At, Idle
  <2>4. Places'
    BY <2>1 DEF Places, Idle
  <2>5. Ordered'
    BY <1>9, Oldest DEF EvictOldest, Ordered
  <2> QED
    BY <2>2, <2>3, <2>4, <2>5
<1>10. CASE RemoveBody
  <2>1. /\ body_file' = body_file \/ body_file' = [body_file EXCEPT ![step.key] = None]
        /\ step' = [Idle EXCEPT !.at = "evict"]
        /\ UNCHANGED <<meta_file, map, disk, order, server, crashes>>
        /\ failures' \in Nat
    BY <1>10, <1>0 DEF RemoveBody, memory, world
  <2>2. FileTypes' /\ Ordered'
    BY <2>1 DEF FileTypes, Ordered
  <2>3. StepTypes' /\ Places'
    BY <2>1 DEF StepTypes, Places, At, Idle
  <2> QED
    BY <2>2, <2>3
<1>11. CASE EvictionDone
  BY <1>11 DEF EvictionDone, files, memory, world, FileTypes, StepTypes, Places, Ordered,
     Idle, At
<1>12. CASE Crash
  <2>1. /\ map' = [k \in Key |-> NoEntry]
        /\ disk' = [k \in Key |-> IF k \in Scanned THEN BodySize(body_file[k]) ELSE Absent]
        /\ order' \in SetToSeqs(Scanned)
        /\ step' = [Idle EXCEPT !.at = "evict"]
        /\ UNCHANGED <<meta_file, body_file, server, failures>>
        /\ crashes' \in Nat
    BY <1>12 DEF Crash, files, world, Places
  <2>2. FileTypes'
    BY <2>1 DEF FileTypes
  <2>3. StepTypes'
    BY <2>1 DEF StepTypes, At, Idle
  <2>4. \A k \in Key : BodySize(body_file[k]) \in Nat
    BY SizesTyped DEF FileTypes
  <2>5. Places'
    BY <2>1, <2>4 DEF Places, Idle
  <2>6. Scanned \in SUBSET Key
    BY DEF Scanned
  <2>7. Ordered'
    BY <2>1, <2>6, Rescan DEF Ordered
  <2> QED
    BY <2>2, <2>3, <2>5, <2>7
<1>13. CASE UNCHANGED vars
  BY <1>13 DEF vars, files, memory, world, FileTypes, StepTypes, Places, Ordered
<1> QED
  BY <1>1, <1>2, <1>3, <1>4, <1>5, <1>6, <1>7, <1>8, <1>9, <1>10, <1>11, <1>12, <1>13
  DEF Next

\* Every step keeps the books.
LEMMA NextBooks ==
  ASSUME Types, Books, [Next]_vars
  PROVE  Books'
<1> USE DEF Types
<1>1. ASSUME NEW k \in Key, NEW e, e # NoEntry => disk[k] # Absent,
             map' = [map EXCEPT ![k] = e], UNCHANGED <<disk, order, total_bytes>>
      PROVE  Books'
  <2>1. OnRecord' = OnRecord
    BY <1>1 DEF OnRecord
  <2>2. \A x \in Key : map'[x] # NoEntry => disk'[x] # Absent
    BY <1>1 DEF FileTypes, Books
  <2> QED
    BY <1>1, <2>1, <2>2 DEF Books, InOrder
<1>2. ASSUME NEW k \in Key, Hit(k) PROVE Books'
  <2>1. Lookup(k) # NoEntry
    BY <1>2, Found DEF Hit
  <2> QED
    BY <1>1, <1>2, <2>1, Found DEF Hit
<1>3. ASSUME NEW k \in Key, NEW fresh \in BOOLEAN, Revalidate(k, fresh) PROVE Books'
  <2>1. disk[k] # Absent
    BY <1>3, Found DEF Revalidate
  <2> QED
    BY <1>1, <1>3, <2>1 DEF Revalidate
<1>4. ASSUME NEW k \in Key, NEW fresh \in BOOLEAN, Fetch(k, fresh) PROVE Books'
  BY <1>1, <1>4, Found DEF Fetch
<1>5. ASSUME NEW k \in Key, Expire(k) PROVE Books'
  <2>1. Stale(map[k]) # NoEntry => disk[k] # Absent
    BY Entries DEF FileTypes, Books
  <2> QED
    BY <1>1, <1>5, <2>1 DEF Expire
<1>6. ASSUME UNCHANGED memory PROVE Books'
  BY <1>6 DEF memory, Books, OnRecord, InOrder
<1>7. CASE UpdateIndex
  <2> DEFINE k == step.key
             size == SizeOf[step.version]
  <2>1. /\ k \in Key /\ size \in Nat
        /\ disk' = [disk EXCEPT ![k] = size]
        /\ map' = [map EXCEPT ![k] = [version |-> step.version, fresh |-> step.fresh]]
        /\ order' = Append(Without(k), k)
        /\ total_bytes' = total_bytes - Counted(disk[k]) + size
    BY <1>7, SizesTyped DEF UpdateIndex, StepTypes
  <2> HIDE DEF k, size
  <2>2. size # Absent /\ Counted(size) = size
    BY <2>1 DEF Absent, Counted
  <2>3. OnRecord \in [Key -> Nat] /\ OnRecord[k] = Counted(disk[k])
    BY <2>1, RecordTyped DEF Places
  <2>4. OnRecord' = [OnRecord EXCEPT ![k] = size]
    BY <2>1, <2>2 DEF OnRecord, Places
  <2>5. Total(OnRecord') = Total(OnRecord) - OnRecord[k] + size
    BY <2>1, <2>3, <2>4, TotalChange
  <2>6. \A x \in Key : disk'[x] # Absent <=> x = k \/ disk[x] # Absent
    BY <2>1, <2>2 DEF Places
  <2>7. \A x : InOrder(x)' <=> x = k \/ InOrder(x)
    <3>1. \A x : (\E i \in DOMAIN order' : order'[i] = x) <=> x = k \/ InOrder(x)
      BY <2>1, PutLast
    <3> QED
      BY <3>1 DEF InOrder
  <2>8. \A x \in Key : map'[x] # NoEntry => disk'[x] # Absent
    BY <2>1, <2>6 DEF FileTypes, Books
  <2> QED
    BY <2>1, <2>3, <2>5, <2>6, <2>7, <2>8 DEF Books
<1>8. CASE EvictOldest
  <2> DEFINE k == Head(order)
  <2>1. /\ order # <<>>
        /\ k \in Key /\ InOrder(k)
        /\ disk' = [disk EXCEPT ![k] = Absent]
        /\ map' = [map EXCEPT ![k] = NoEntry]
        /\ order' = Tail(order)
        /\ total_bytes' = total_bytes - disk[k]
    BY <1>8, Oldest DEF EvictOldest
  <2>7. \A x : InOrder(x)' <=> x # k /\ InOrder(x)
    BY <2>1, Oldest DEF InOrder
  <2> HIDE DEF k
  <2>2. Counted(disk[k]) = disk[k]
    BY <2>1 DEF Books, Counted
  <2>3. OnRecord \in [Key -> Nat] /\ OnRecord[k] = disk[k]
    BY <2>1, <2>2, RecordTyped DEF Places
  <2>4. OnRecord' = [OnRecord EXCEPT ![k] = 0]
    BY <2>1 DEF OnRecord, Places, Counted
  <2>5. Total(OnRecord') = Total(OnRecord) - OnRecord[k] + 0 /\ Total(OnRecord) \in Nat
    BY <2>1, <2>3, <2>4, TotalChange
  <2>6. \A x \in Key : disk'[x] # Absent <=> x # k /\ disk[x] # Absent
    BY <2>1 DEF Places
  <2>8. \A x \in Key : map'[x] # NoEntry => disk'[x] # Absent
    BY <2>1, <2>6 DEF FileTypes, Books
  <2>9. OnRecord[k] \in Nat
    BY <2>1, <2>3
  <2> QED
    BY <2>1, <2>3, <2>5, <2>6, <2>7, <2>8, <2>9 DEF Books
<1>9. CASE Crash
  <2>1. /\ map' = [k \in Key |-> NoEntry]
        /\ disk' = [k \in Key |-> IF k \in Scanned THEN BodySize(body_file[k]) ELSE Absent]
        /\ order' \in SetToSeqs(Scanned)
        /\ total_bytes' = Total([k \in Key |-> Counted(disk'[k])])
    BY <1>9 DEF Crash
  <2>2. Scanned \in SUBSET Key
    BY DEF Scanned
  <2>3. \A k \in Key : BodySize(body_file[k]) # Absent
    BY SizesTyped DEF FileTypes, Absent
  <2>4. \A x : InOrder(x)' <=> x \in Scanned
    BY <2>1, <2>2, Rescan DEF InOrder
  <2>5. \A x \in Key : disk'[x] # Absent <=> x \in Scanned
    BY <2>1, <2>3
  <2> QED
    BY <2>1, <2>4, <2>5 DEF Books, OnRecord
<1> QED
  BY <1>2, <1>3, <1>4, <1>5, <1>6, <1>7, <1>8, <1>9
  DEF Next, Publish, WriteBody, WriteMeta, RemoveBody, EvictionDone, vars
Recorded == Types /\ Books

\* After a store or a restart the cache is not idle before it is under the cap.
Capped == step.at \notin {"evict", "unlink", "index"} => total_bytes <= MaxBytes

\* Every step keeps the cap: eviction ends under it, with the order empty at worst.
LEMMA NextCapped ==
  ASSUME Recorded, Capped, [Next]_vars
  PROVE  Capped'
<1> USE DEF Recorded
<1>1. ASSUME step.at \notin {"evict", "unlink", "index"}, UNCHANGED total_bytes
      PROVE  Capped'
  BY <1>1 DEF Capped
<1>2. CASE WriteMeta \/ WriteBody \/ \E k \in Key : \E fresh \in BOOLEAN : Fetch(k, fresh)
  BY <1>1, <1>2 DEF WriteMeta, WriteBody, Fetch, Idle, memory
<1>3. CASE UpdateIndex \/ EvictOldest \/ RemoveBody \/ Crash
  BY <1>3 DEF UpdateIndex, EvictOldest, RemoveBody, Crash, Capped, Idle
<1>4. CASE EvictionDone
  <2>1. UNCHANGED total_bytes /\ (total_bytes <= MaxBytes \/ order = <<>>)
    BY <1>4 DEF EvictionDone, memory
  <2>2. ASSUME order = <<>> PROVE total_bytes <= MaxBytes
    <3>1. \A k \in Key : disk[k] = Absent
      BY <2>2 DEF Books, InOrder
    <3>2. OnRecord \in [Key -> Nat] /\ \A k \in Key : OnRecord[k] = 0
      BY <3>1 DEF OnRecord, Counted
    <3>3. total_bytes = 0
      BY <3>2, TotalOfNothing DEF Books
    <3> QED
      BY <3>3, BoundsAssumption
  <2> QED
    BY <2>1, <2>2 DEF Capped
<1>5. ASSUME UNCHANGED <<step, total_bytes>> PROVE Capped'
  BY <1>5 DEF Capped
<1> QED
  BY <1>2, <1>3, <1>4, <1>5 DEF Next, Hit, Revalidate, Publish, Expire, memory, vars

\* While no write is cut short: a key being stored has its new body and, from then
\* on, its new headers, one being evicted has lost its headers, and the files, the
\* record and the hot entry of every other key are of one version.
Writing(k) == step.at \in {"meta", "index"} /\ k = step.key
Removing(k) == step.at = "unlink" /\ k = step.key

OneVersion(k) ==
  /\ body_file[k] = meta_file[k].version
  /\ Counted(disk[k]) = BodySize(body_file[k])
  /\ map[k] # NoEntry => map[k].version = body_file[k]

Paired ==
  /\ served.head = served.body
  /\ \A k \in Key :
       /\ Writing(k) => /\ body_file[k] = step.version
                        /\ step.at = "index" => meta_file[k].version = step.version
       /\ Removing(k) => meta_file[k] = NoEntry /\ disk[k] = Absent
       /\ ~Writing(k) /\ ~Removing(k) => OneVersion(k)

\* Every step that is not cut short keeps the files of each key together.
LEMMA NextPaired ==
  ASSUME Recorded, Undisturbed => Paired, [Next]_vars, Undisturbed'
  PROVE  Paired'
<1> USE DEF Recorded, Types
<1>0. Undisturbed /\ Paired /\ ~Fails /\ ~Crash
  <2>1. crashes \in Nat /\ failures \in Nat
    BY DEF Places
  <2>2. crashes' >= crashes /\ failures' >= failures
    BY <2>1 DEF Next, Hit, Revalidate, Fetch, Publish, Expire, WriteBody, WriteMeta,
       UpdateIndex, EvictOldest, RemoveBody, EvictionDone, Crash, Succeeds, Fails, vars
  <2> QED
    BY <2>1, <2>2 DEF Undisturbed, Fails, Crash
<1>1. \A k \in Key : step = Idle => ~Writing(k) /\ ~Removing(k) /\ OneVersion(k)
  BY <1>0 DEF Idle, Writing, Removing, Paired
<1>2. ASSUME NEW k \in Key, step = Idle, Lookup(k) # NoEntry
      PROVE  Lookup(k).version = body_file[k]
  BY <1>1, <1>2 DEF OneVersion, Lookup
<1>3. ASSUME NEW k \in Key, Hit(k) PROVE Paired'
  <2>1. /\ step = Idle /\ Lookup(k) # NoEntry
        /\ map' = [map EXCEPT ![k] = Lookup(k)]
        /\ served' = [head |-> Lookup(k).version, body |-> body_file[k]]
        /\ UNCHANGED <<meta_file, body_file, disk, step>>
    BY <1>3, Found DEF Hit, files
  <2>2. \A x \in Key : OneVersion(x)'
    BY <1>1, <1>2, <2>1 DEF OneVersion, FileTypes
  <2>3. served'.head = served'.body
    BY <1>2, <2>1
  <2>4. \A x \in Key : ~Writing(x)' /\ ~Removing(x)'
    BY <2>1 DEF Writing, Removing, Idle
  <2> QED
    BY <2>2, <2>3, <2>4 DEF Paired
<1>4. ASSUME NEW k \in Key, NEW fresh \in BOOLEAN, Revalidate(k, fresh) PROVE Paired'
  <2> DEFINE entry == [version |-> Lookup(k).version, fresh |-> fresh]
  <2>1. /\ step = Idle /\ Lookup(k) # NoEntry /\ Lookup(k).version = server[k]
        /\ map' = [map EXCEPT ![k] = entry]
        /\ meta_file' = [meta_file EXCEPT ![k] = entry]
        /\ served' = [head |-> server[k], body |-> body_file[k]]
        /\ UNCHANGED <<body_file, disk, step>>
    BY <1>0, <1>4 DEF Revalidate
  <2>2. entry.version = body_file[k]
    BY <1>2, <2>1
  <2>3. served'.head = served'.body
    BY <1>2, <2>1
  <2> HIDE DEF entry
  <2>4. \A x \in Key : OneVersion(x)'
    BY <1>1, <2>1, <2>2 DEF OneVersion, FileTypes
  <2>5. \A x \in Key : ~Writing(x)' /\ ~Removing(x)'
    BY <2>1 DEF Writing, Removing, Idle
  <2> QED
    BY <2>3, <2>4, <2>5 DEF Paired
<1>5. ASSUME NEW k \in Key, NEW fresh \in BOOLEAN, Fetch(k, fresh) PROVE Paired'
  <2>1. /\ step = Idle
        /\ map' = [map EXCEPT ![k] = Lookup(k)]
        /\ served' = [head |-> server[k], body |-> server[k]]
        /\ UNCHANGED <<meta_file, body_file, disk>>
        /\ step' = step \/ step' = At("body", k, server[k], fresh)
    BY <1>5 DEF Fetch, files
  <2>2. \A x \in Key : OneVersion(x)'
    BY <1>1, <1>2, <2>1 DEF OneVersion, FileTypes
  <2>3. \A x \in Key : ~Writing(x)' /\ ~Removing(x)'
    BY <2>1 DEF Writing, Removing, Idle, At
  <2> QED
    BY <2>1, <2>2, <2>3 DEF Paired
<1>6. ASSUME UNCHANGED <<files, map, disk, step, served>> PROVE Paired'
  BY <1>0, <1>6 DEF files, Paired, Writing, Removing, OneVersion
<1>7. ASSUME NEW k \in Key, Expire(k) PROVE Paired'
  <2>1. /\ map' = [map EXCEPT ![k] = Stale(@)]
        /\ meta_file' = [meta_file EXCEPT ![k] = Stale(@)]
        /\ UNCHANGED <<body_file, disk, step, served>>
    BY <1>7 DEF Expire
  <2>2. \A e : Stale(e).version = e.version
    BY DEF Stale
  <2>3. /\ Stale(map[k]) # NoEntry <=> map[k] # NoEntry
        /\ Stale(meta_file[k]) = NoEntry <=> meta_file[k] = NoEntry
    BY Entries DEF FileTypes
  <2>4. \A x \in Key : /\ meta_file'[x].version = meta_file[x].version
                       /\ map'[x].version = map[x].version
                       /\ map'[x] # NoEntry <=> map[x] # NoEntry
                       /\ meta_file'[x] = NoEntry <=> meta_file[x] = NoEntry
    BY <2>1, <2>2, <2>3 DEF FileTypes
  <2> QED
    BY <1>0, <2>1, <2>4 DEF Paired, Writing, Removing, OneVersion
<1>8. CASE WriteBody
  <2>1. /\ step.at = "body"
        /\ body_file' = [body_file EXCEPT ![step.key] = step.version]
        /\ step' = [step EXCEPT !.at = "meta"]
        /\ UNCHANGED <<meta_file, map, disk, served>>
    BY <1>0, <1>8 DEF WriteBody, memory
  <2>2. step'.at = "meta" /\ step'.key = step.key /\ step'.version = step.version
    BY <2>1 DEF StepTypes, At
  <2> QED
    BY <1>0, <2>1, <2>2 DEF Paired, Writing, Removing, OneVersion, FileTypes
<1>9. CASE WriteMeta
  <2> DEFINE entry == [version |-> step.version, fresh |-> step.fresh]
  <2>1. /\ step.at = "meta"
        /\ meta_file' = [meta_file EXCEPT ![step.key] = entry]
        /\ step' = [step EXCEPT !.at = "index"]
        /\ UNCHANGED <<body_file, map, disk, served>>
    BY <1>0, <1>9 DEF WriteMeta, memory
  <2>2. step'.at = "index" /\ step'.key = step.key /\ step'.version = step.version
    BY <2>1 DEF StepTypes, At
  <2>3. entry.version = step.version
    OBVIOUS
  <2> HIDE DEF entry
  <2> QED
    BY <1>0, <2>1, <2>2, <2>3 DEF Paired, Writing, Removing, OneVersion, FileTypes
<1>10. CASE UpdateIndex
  <2>0. step.at = "index" /\ step.key \in Key /\ step.version \in Version
    BY <1>10 DEF UpdateIndex, StepTypes
  <2> DEFINE entry == [version |-> step.version, fresh |-> step.fresh]
  <2>1. PICK k, size, e :
             k \in Key /\ k = step.key /\ size = SizeOf[step.version] /\ e = entry
    BY <2>0
  <2>2. /\ disk' = [disk EXCEPT ![k] = size]
        /\ map' = [map EXCEPT ![k] = e]
        /\ step' = [Idle EXCEPT !.at = "evict"]
        /\ UNCHANGED <<meta_file, body_file, served>>
        /\ e.version = step.version
    BY <1>10, <2>1 DEF UpdateIndex, files
  <2>3. BodySize(step.version) = size /\ Counted(size) = size
    BY <2>0, <2>1, SizesTyped DEF Counted, Absent
  <2>4. body_file[k] = step.version /\ meta_file[k].version = step.version
    BY <1>0, <2>0, <2>1 DEF Paired, Writing
  <2>5. disk'[k] = size /\ map'[k] = e
    BY <2>1, <2>2 DEF Places, FileTypes
  <2>6. OneVersion(k)'
    BY <2>2, <2>3, <2>4, <2>5 DEF OneVersion
  <2>7. \A x \in Key : x # k => OneVersion(x)
    BY <1>0, <2>0, <2>1 DEF Paired, Writing, Removing
  <2>8. \A x \in Key : x # k => OneVersion(x)'
    BY <2>2, <2>7 DEF OneVersion, FileTypes, Places
  <2>9. \A x \in Key : ~Writing(x)' /\ ~Removing(x)'
    BY <2>2 DEF Writing, Removing, Idle
  <2>10. served'.head = served'.body
    BY <1>0, <2>2 DEF Paired
  <2> QED
    BY <2>6, <2>8, <2>9, <2>10 DEF Paired
<1>11. CASE EvictOldest
  <2> DEFINE k == Head(order)
  <2>1. /\ step.at = "evict" /\ k \in Key
        /\ meta_file' = [meta_file EXCEPT ![k] = NoEntry]
        /\ disk' = [disk EXCEPT ![k] = Absent]
        /\ map' = [map EXCEPT ![k] = NoEntry]
        /\ step' = [Idle EXCEPT !.at = "unlink", !.key = k]
        /\ UNCHANGED <<body_file, served>>
    BY <1>0, <1>11, Oldest DEF EvictOldest
  <2>2. step'.at = "unlink" /\ step'.key = k
    BY <2>1 DEF Idle
  <2> HIDE DEF k
  <2>3. \A x \in Key : OneVersion(x)
    BY <1>0, <2>1 DEF Paired, Writing, Removing
  <2>4. \A x \in Key : x # k => OneVersion(x)'
    BY <2>1, <2>3 DEF OneVersion, FileTypes, Places
  <2>5. meta_file'[k] = NoEntry /\ disk'[k] = Absent
    BY <2>1 DEF FileTypes, Places
  <2> QED
    BY <1>0, <2>1, <2>2, <2>4, <2>5 DEF Paired, Writing, Removing
<1>12. CASE RemoveBody
  <2>0. step.at = "unlink"
    BY <1>12 DEF RemoveBody
  <2>1. PICK k \in Key : k = step.key
    BY <2>0 DEF Places
  <2>2. /\ body_file' = [body_file EXCEPT ![k] = None]
        /\ step' = [Idle EXCEPT !.at = "evict"]
        /\ UNCHANGED <<meta_file, map, disk, served>>
    BY <1>0, <1>12, <2>1 DEF RemoveBody, memory
  <2>3. meta_file[k] = NoEntry /\ disk[k] = Absent
    BY <1>0, <2>0, <2>1 DEF Paired, Removing
  <2>4. map[k] = NoEntry
    BY <2>3 DEF Books
  <2>5. body_file'[k] = None
    BY <2>2 DEF FileTypes
  <2>6. OneVersion(k)'
    BY <2>2, <2>3, <2>4, <2>5 DEF OneVersion, NoEntry, Counted, BodySize
  <2>7. \A x \in Key : x # k => OneVersion(x)
    BY <1>0, <2>0, <2>1 DEF Paired, Writing, Removing
  <2>8. \A x \in Key : x # k => OneVersion(x)'
    BY <2>2, <2>7 DEF OneVersion, FileTypes
  <2>9. \A x \in Key : ~Writing(x)' /\ ~Removing(x)'
    BY <2>2 DEF Writing, Removing, Idle
  <2>10. served'.head = served'.body
    BY <1>0, <2>2 DEF Paired
  <2> QED
    BY <2>6, <2>8, <2>9, <2>10 DEF Paired
<1>13. CASE EvictionDone
  <2>1. step.at = "evict" /\ step' = Idle /\ UNCHANGED <<files, map, disk, served>>
    BY <1>13 DEF EvictionDone, memory
  <2>2. \A x \in Key : OneVersion(x)
    BY <1>0, <2>1 DEF Paired, Writing, Removing
  <2> QED
    BY <1>0, <2>1, <2>2 DEF Paired, Writing, Removing, OneVersion, Idle, files
<1> QED
  BY <1>0, <1>3, <1>4, <1>5, <1>6, <1>7, <1>8, <1>9, <1>10, <1>11, <1>12, <1>13
  DEF Next, Publish, memory, vars

Strong == Recorded /\ Capped /\ (Undisturbed => Paired)

\* The second invariant.
LEMMA StrongInvariant == Spec => []Strong
<1>1. Init => Strong
  <2>1. Init => Types /\ Books
    BY InitTypes
  <2>2. Init => Capped /\ Paired
    BY BoundsAssumption DEF Init, Capped, Paired, Writing, Removing, OneVersion, Idle, NoEntry,
       Counted, BodySize
  <2> QED
    BY <2>1, <2>2 DEF Strong, Recorded
<1>2. Strong /\ [Next]_vars => Strong'
  BY NextTypes, NextBooks, NextCapped, NextPaired DEF Strong, Recorded
<1> QED
  BY <1>1, <1>2, PTL DEF Spec

\* The state stays what the program can hold (its index, its files, its place).
THEOREM CacheTypes == Spec => []TypeOK
<1>1. Strong => TypeOK
  <2> SUFFICES ASSUME Strong PROVE TypeOK
    OBVIOUS
  <2>1. OnRecord \in [Key -> Nat]
    BY RecordTyped DEF Strong, Recorded, Types, Places
  <2>2. total_bytes \in Nat
    <3>1. CASE Key = {}
      <4>1. \A k \in Key : OnRecord[k] = 0
        BY <3>1
      <4> QED
        BY <2>1, <4>1, TotalOfNothing DEF Strong, Recorded, Books
    <3>2. CASE Key # {}
      <4>1. PICK k \in Key : TRUE
        BY <3>2
      <4> QED
        BY <2>1, <4>1, TotalChange DEF Strong, Recorded, Books
    <3> QED
      BY <3>1, <3>2
  <2> QED
    BY <2>2 DEF Strong, Recorded, Types, FileTypes, StepTypes, Places, Ordered, TypeOK
<1> QED
  BY <1>1, StrongInvariant, PTL

\* Whatever is stored, overwritten, evicted or scanned again, and whatever fails, the
\* total is the sum of the sizes on record, and each of them can be evicted once
\* (store, evict_until_under_cap, rebuild_index_from_disk).
THEOREM BooksBalance == Spec => []Accounted
<1>1. Strong => Accounted
  BY DEF Strong, Recorded, Types, Ordered, Books, InOrder, Accounted, Contains
<1> QED
  BY <1>1, StrongInvariant, PTL

\* For any budget and any sizes, between requests the bytes on record are within the
\* budget, and the bytes on disk too while no write is cut short (cache.rs 34-36).
THEOREM CapHolds == Spec => []UnderCap
<1>1. Strong => UnderCap
  <2> SUFFICES ASSUME Strong, step = Idle
               PROVE  total_bytes <= MaxBytes /\ (Undisturbed => Total(Resident) <= MaxBytes)
    BY DEF UnderCap
  <2>1. total_bytes <= MaxBytes
    BY DEF Strong, Capped, Idle
  <2>2. Undisturbed => Resident = OnRecord
    BY DEF Strong, Paired, Writing, Removing, OneVersion, Idle, Resident, OnRecord
  <2> QED
    BY <2>1, <2>2 DEF Strong, Recorded, Books
<1> QED
  BY <1>1, StrongInvariant, PTL

\* While no write is cut short, no response pairs one version's headers with the
\* bytes of another (lookup, store, refresh_after_304, evict_until_under_cap).
THEOREM PairsServed == Spec => []ServedTogether
<1>1. Strong => ServedTogether
  BY DEF Strong, Paired, ServedTogether
<1> QED
  BY <1>1, StrongInvariant, PTL

=============================================================================
