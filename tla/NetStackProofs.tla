---------------------------- MODULE NetStackProofs ----------------------------
(***************************************************************************)
(* What holds of the transport, the client, the cookie jar, the body and   *)
(* session storage, whatever the constants; and, for StorageProofs too,    *)
(* what holds of what is computed item by item.                            *)
(***************************************************************************)
EXTENDS NetStack, Sequences, SequenceTheorems, NaturalsInduction, WellFoundedInduction,
        FiniteSetTheorems, TLAPS

----------------------------------------------------------------------------
(* What is computed item by item: a function on 0..n, each value made of the one before. *)

\* A set of naturals has a least member.
LEMMA LeastMember ==
  ASSUME NEW S, S \subseteq Nat, S # {}
  PROVE  \E m \in S : \A k \in S : m <= k
<1>1. PICK m \in S : \A k \in S : <<k, m>> \notin OpToRel(<, Nat)
  BY WFMin, NatLessThanWellFounded
<1>2. \A k \in S : ~(k < m)
  BY <1>1 DEF OpToRel
<1>3. \A k \in S : m <= k
  BY <1>2
<1> QED
  BY <1>3

\* What holds of 0 and is handed on holds up to n.
LEMMA UpTo ==
  ASSUME NEW n \in Nat, NEW B, 0 \in B, \A k \in 0..n : k \in B /\ k < n => k + 1 \in B
  PROVE  \A k \in 0..n : k \in B
<1> DEFINE odd == {k \in 0..n : k \notin B}
<1> SUFFICES ASSUME odd # {} PROVE FALSE
  OBVIOUS
<1>1. odd \subseteq Nat
  OBVIOUS
<1>2. PICK m \in odd : \A k \in odd : m <= k
  <2> HIDE DEF odd
  <2> QED
    BY <1>1, LeastMember
<1>3. m \in 0..n /\ m \notin B /\ m # 0
  BY <1>2
<1>4. m - 1 \in 0..n /\ m - 1 \in B /\ m - 1 < n
  BY <1>2, <1>3
<1> QED
  BY <1>3, <1>4

\* it starts at base, and F makes each value of the one before.
Iterates(it, base, F, n) == it[0] = base /\ \A i \in 1..n : it[i] = F[<<i, it[i - 1]>>]

\* Such a function exists.
LEMMA Iterated ==
  ASSUME NEW n \in Nat, NEW S, NEW base \in S, NEW F \in [(1..n) \X S -> S]
  PROVE  \E it \in [0..n -> S] : Iterates(it, base, F, n)
<1> SUFFICES \E it \in [0..n -> S] : it[0] = base /\ \A i \in 1..n : it[i] = F[<<i, it[i - 1]>>]
  BY DEF Iterates
<1> DEFINE Fits(it, m) == it[0] = base /\ \A i \in 1..m : it[i] = F[<<i, it[i - 1]>>]
           B == {m \in 0..n : \E it \in [0..m -> S] : Fits(it, m)}
<1>1. 0 \in B
  <2> DEFINE it == [i \in 0..0 |-> base]
  <2>1. it \in [0..0 -> S] /\ Fits(it, 0)
    OBVIOUS
  <2> HIDE DEF it, Fits
  <2> QED
    BY <2>1
<1>2. ASSUME NEW m \in 0..n, m \in B, m < n PROVE m + 1 \in B
  <2>1. PICK it \in [0..m -> S] : Fits(it, m)
    BY <1>2
  <2> DEFINE top == F[<<m + 1, it[m]>>]
             up == [i \in 0..(m + 1) |-> IF i <= m THEN it[i] ELSE top]
  <2>2. top \in S
    <3>1. <<m + 1, it[m]>> \in (1..n) \X S
      BY <1>2
    <3> QED
      BY <3>1
  <2>3. up \in [0..(m + 1) -> S]
    <3> HIDE DEF top
    <3> QED
      BY <2>2
  <2>4. up[m + 1] = top /\ \A i \in 0..m : up[i] = it[i]
    <3> HIDE DEF top
    <3> QED
      BY <1>2
  <2> HIDE DEF up
  <2>5. Fits(up, m + 1)
    <3>1. up[0] = base
      BY <2>1, <2>4
    <3>2. ASSUME NEW i \in 1..(m + 1) PROVE up[i] = F[<<i, up[i - 1]>>]
      <4>1. i - 1 \in 0..m /\ up[i - 1] = it[i - 1]
        BY <2>4
      <4>2. CASE i \in 1..m
        BY <2>1, <2>4, <4>1, <4>2
      <4>3. CASE i = m + 1
        BY <2>4, <4>1, <4>3
      <4> QED
        BY <4>2, <4>3
    <3> QED
      BY <3>1, <3>2
  <2> HIDE DEF Fits
  <2> QED
    BY <1>2, <2>3, <2>5
<1>3. n \in B
  <2>1. \A k \in 0..n : k \in B
    <3> HIDE DEF B
    <3> QED
      BY <1>1, <1>2, UpTo
  <2> QED
    BY <2>1
<1> QED
  BY <1>3

\* Two that start at the same value and go on alike from the same value.
Alike(f, g, n) == f[0] = g[0] /\ \A i \in 1..n : f[i - 1] = g[i - 1] => f[i] = g[i]

\* They are the same.
LEMMA Agree ==
  ASSUME NEW n \in Nat, NEW f, NEW g, Alike(f, g, n)
  PROVE  \A i \in 0..n : f[i] = g[i]
<1>0. f[0] = g[0] /\ \A i \in 1..n : f[i - 1] = g[i - 1] => f[i] = g[i]
  BY DEF Alike
<1> DEFINE B == {i \in 0..n : f[i] = g[i]}
<1>1. 0 \in B
  BY <1>0
<1>2. \A k \in 0..n : k \in B /\ k < n => k + 1 \in B
  <2> TAKE k \in 0..n
  <2> HAVE k \in B /\ k < n
  <2>1. k + 1 \in 1..n /\ (k + 1) - 1 = k
    OBVIOUS
  <2> QED
    BY <1>0, <2>1
<1> HIDE DEF B
<1>3. \A k \in 0..n : k \in B
  BY <1>1, <1>2, UpTo
<1> QED
  BY <1>3 DEF B

\* kept is what passing over cs keeps of it, at the positions of Keep.
Keeping(kept, cs, Keep) ==
  /\ kept[0] = <<>>
  /\ \A n \in 1..Len(cs) : kept[n] = IF n \in Keep THEN Append(kept[n - 1], cs[n]) ELSE kept[n - 1]

\* f holds items of those positions, each at one place, and all of them.
Kept(f, cs, Keep, T, n) ==
  /\ f \in Seq(T)
  /\ \A i \in DOMAIN f : \E j \in 1..n : j \in Keep /\ f[i] = cs[j]
  /\ \A i, j \in DOMAIN f : i # j => \E a, b \in 1..n : a # b /\ f[i] = cs[a] /\ f[j] = cs[b]
  /\ \A j \in 1..n : j \in Keep => \E i \in DOMAIN f : f[i] = cs[j]

\* Kept holds at every place of the pass.
LEMMA KeptItems ==
  ASSUME NEW T, NEW cs \in Seq(T), NEW Keep, NEW kept, Keeping(kept, cs, Keep)
  PROVE  \A n \in 0..Len(cs) : Kept(kept[n], cs, Keep, T, n)
<1> DEFINE B == {n \in 0..Len(cs) : Kept(kept[n], cs, Keep, T, n)}
<1>0. Len(cs) \in Nat /\ \A n \in 1..Len(cs) : cs[n] \in T
  OBVIOUS
<1> USE DEF Keeping
<1>1. 0 \in B
  <2>1. Kept(<<>>, cs, Keep, T, 0)
    BY DEF Kept
  <2> QED
    BY <1>0, <2>1
<1>2. ASSUME NEW k \in 0..Len(cs), Kept(kept[k], cs, Keep, T, k), k < Len(cs)
      PROVE  Kept(kept[k + 1], cs, Keep, T, k + 1)
  <2> DEFINE f == kept[k]
             g == kept[k + 1]
             x == cs[k + 1]
  <2>1. k \in Nat /\ k + 1 \in 1..Len(cs) /\ (k + 1) - 1 = k /\ x \in T
    BY <1>0, <1>2
  <2>2. g = IF k + 1 \in Keep THEN Append(f, x) ELSE f
    BY <2>1
  <2>3. Kept(f, cs, Keep, T, k) /\ x = cs[k + 1]
    BY <1>2
  <2> HIDE DEF f, g, x
  <2>4. /\ f \in Seq(T)
        /\ \A i \in DOMAIN f : \E j \in 1..k : j \in Keep /\ f[i] = cs[j]
        /\ \A i, j \in DOMAIN f : i # j => \E a, b \in 1..k : a # b /\ f[i] = cs[a] /\ f[j] = cs[b]
        /\ \A j \in 1..k : j \in Keep => \E i \in DOMAIN f : f[i] = cs[j]
    BY <2>3 DEF Kept
  <2>5. \A j \in 1..k : j \in 1..(k + 1) /\ j # k + 1
    BY <2>1
  <2>6. \A j \in 1..(k + 1) : j \in 1..k \/ j = k + 1
    BY <2>1
  <2>7. CASE k + 1 \notin Keep
    <3>1. g = f
      BY <2>2, <2>7
    <3>2. \A i \in DOMAIN f : \E j \in 1..(k + 1) : j \in Keep /\ f[i] = cs[j]
      BY <2>4, <2>5
    <3>3. \A i, j \in DOMAIN f : i # j =>
            \E a, b \in 1..(k + 1) : a # b /\ f[i] = cs[a] /\ f[j] = cs[b]
      <4> TAKE i, j \in DOMAIN f
      <4> HAVE i # j
      <4>1. PICK a, b \in 1..k : a # b /\ f[i] = cs[a] /\ f[j] = cs[b]
        BY <2>4
      <4> QED
        BY <2>5, <4>1
    <3>4. \A j \in 1..(k + 1) : j \in Keep => \E i \in DOMAIN f : f[i] = cs[j]
      BY <2>4, <2>6, <2>7
    <3>5. Kept(f, cs, Keep, T, k + 1)
      BY <2>4, <3>2, <3>3, <3>4 DEF Kept
    <3> QED
      BY <3>1, <3>5 DEF g
  <2>8. CASE k + 1 \in Keep
    <3> DEFINE m == Len(f)
    <3>1. /\ g \in Seq(T) /\ m \in Nat /\ DOMAIN f = 1..m /\ DOMAIN g = 1..(m + 1)
          /\ g[m + 1] = x /\ \A i \in 1..m : g[i] = f[i]
      <4>1. g = Append(f, x)
        BY <2>2, <2>8
      <4>2. Append(f, x) \in Seq(T) /\ Len(Append(f, x)) = m + 1
        BY <2>1, <2>4
      <4> QED
        BY <2>1, <2>4, <4>1, <4>2
    <3> HIDE DEF m
    <3>2. \A i \in 1..(m + 1) : i \in 1..m \/ i = m + 1
      BY <3>1
    <3>3. \A i \in DOMAIN g : \E j \in 1..(k + 1) : j \in Keep /\ g[i] = cs[j]
      <4> TAKE i \in DOMAIN g
      <4>1. CASE i \in 1..m
        BY <2>4, <2>5, <3>1, <4>1
      <4>2. CASE i = m + 1
        BY <2>1, <2>3, <2>8, <3>1, <4>2
      <4> QED
        BY <3>1, <3>2, <4>1, <4>2
    <3>4. ASSUME NEW i \in DOMAIN g, NEW j \in DOMAIN g, i # j
          PROVE  \E a, b \in 1..(k + 1) : a # b /\ g[i] = cs[a] /\ g[j] = cs[b]
      <4>0. k + 1 \in 1..(k + 1) /\ cs[k + 1] = x
        BY <2>1, <2>3
      <4>1. CASE i \in 1..m /\ j \in 1..m
        <5>0. i \in DOMAIN f /\ j \in DOMAIN f /\ i # j
          BY <3>1, <3>4, <4>1
        <5>1. PICK a, b \in 1..k : a # b /\ f[i] = cs[a] /\ f[j] = cs[b]
          BY <2>4, <5>0
        <5> QED
          BY <2>5, <3>1, <4>1, <5>1
      <4>2. CASE i \in 1..m /\ j = m + 1
        <5>1. PICK a \in 1..k : f[i] = cs[a]
          BY <2>4, <3>1, <4>2
        <5> QED
          BY <2>5, <3>1, <4>0, <4>2, <5>1
      <4>3. CASE j \in 1..m /\ i = m + 1
        <5>1. PICK b \in 1..k : f[j] = cs[b]
          BY <2>4, <3>1, <4>3
        <5> QED
          BY <2>5, <3>1, <4>0, <4>3, <5>1
      <4> QED
        BY <3>1, <3>2, <3>4, <4>1, <4>2, <4>3
    <3>5. \A j \in 1..(k + 1) : j \in Keep => \E i \in DOMAIN g : g[i] = cs[j]
      <4> TAKE j \in 1..(k + 1)
      <4> HAVE j \in Keep
      <4>1. CASE j \in 1..k
        <5>1. PICK i \in 1..m : f[i] = cs[j]
          BY <2>4, <3>1, <4>1
        <5>2. i \in DOMAIN g
          BY <3>1
        <5> QED
          BY <3>1, <5>1, <5>2
      <4>2. CASE j = k + 1
        <5>1. m + 1 \in DOMAIN g
          BY <3>1
        <5> QED
          BY <2>3, <3>1, <4>2, <5>1
      <4> QED
        BY <2>6, <4>1, <4>2
    <3>6. \A i, j \in DOMAIN g : i # j =>
            \E a, b \in 1..(k + 1) : a # b /\ g[i] = cs[a] /\ g[j] = cs[b]
      BY <3>4
    <3> QED
      BY <3>1, <3>3, <3>5, <3>6 DEF Kept, g
  <2> QED
    BY <2>7, <2>8
<1>3. \A k \in 0..Len(cs) : k \in B /\ k < Len(cs) => k + 1 \in B
  <2> TAKE k \in 0..Len(cs)
  <2> HAVE k \in B /\ k < Len(cs)
  <2>1. k + 1 \in 0..Len(cs)
    BY <1>0
  <2> HIDE DEF Kept
  <2> QED
    BY <1>2, <2>1
<1> HIDE DEF B
<1>4. \A k \in 0..Len(cs) : k \in B
  BY <1>0, <1>1, <1>3, UpTo
<1> QED
  BY <1>4 DEF B

\* The items of cs that are in S, in their order.
Filtered(cs, S) ==
  LET kept[n \in 0..Len(cs)] ==
        IF n = 0 THEN <<>>
        ELSE IF cs[n] \in S THEN Append(kept[n - 1], cs[n]) ELSE kept[n - 1]
  IN kept[Len(cs)]

\* What the recursion goes through.
FiltersTo(kept, cs, S) ==
  /\ kept[0] = <<>>
  /\ \A n \in 1..Len(cs) : kept[n] = IF cs[n] \in S THEN Append(kept[n - 1], cs[n]) ELSE kept[n - 1]

\* It goes to the end.
LEMMA Filtering ==
  ASSUME NEW T, NEW cs \in Seq(T), NEW S
  PROVE  \E kept \in [0..Len(cs) -> Seq(T)] :
           FiltersTo(kept, cs, S) /\ Filtered(cs, S) = kept[Len(cs)]
<1> DEFINE m == Len(cs)
           D == Seq(T)
           nil == <<>>
           F == [p \in (1..m) \X D |-> IF cs[p[1]] \in S THEN Append(p[2], cs[p[1]]) ELSE p[2]]
           Step(kept) == [n \in 0..m |->
                            IF n = 0 THEN nil
                            ELSE IF cs[n] \in S THEN Append(kept[n - 1], cs[n]) ELSE kept[n - 1]]
           rec == CHOOSE kept : kept = Step(kept)
<1>0. m \in Nat /\ nil \in D /\ \A n \in 1..m : cs[n] \in T
  OBVIOUS
<1>1. \A f \in D, x \in T : Append(f, x) \in D
  OBVIOUS
<1>2. Filtered(cs, S) = rec[m]
  BY DEF Filtered
<1> SUFFICES \E it \in [0..m -> D] :
       /\ it[0] = nil
       /\ \A n \in 1..m : it[n] = IF cs[n] \in S THEN Append(it[n - 1], cs[n]) ELSE it[n - 1]
       /\ rec[m] = it[m]
  BY <1>2 DEF FiltersTo
<1> HIDE DEF m, D, nil
<1>3. F \in [(1..m) \X D -> D]
  <2>1. ASSUME NEW p \in (1..m) \X D
        PROVE  (IF cs[p[1]] \in S THEN Append(p[2], cs[p[1]]) ELSE p[2]) \in D
    <3>1. p[1] \in 1..m /\ p[2] \in D
      OBVIOUS
    <3> QED
      BY <1>0, <1>1, <3>1
  <2> QED
    BY <2>1
<1>4. \A i \in 1..m, f \in D : F[<<i, f>>] = IF cs[i] \in S THEN Append(f, cs[i]) ELSE f
  OBVIOUS
<1> HIDE DEF F
<1>5. PICK it \in [0..m -> D] : it[0] = nil /\ \A i \in 1..m : it[i] = F[<<i, it[i - 1]>>]
  <2>1. PICK it \in [0..m -> D] : Iterates(it, nil, F, m)
    BY <1>0, <1>3, Iterated
  <2> QED
    BY <2>1 DEF Iterates
<1>6. \A i \in 1..m : it[i] = IF cs[i] \in S THEN Append(it[i - 1], cs[i]) ELSE it[i - 1]
  <2> TAKE i \in 1..m
  <2>1. i - 1 \in 0..m
    BY <1>0
  <2> QED
    BY <1>4, <1>5, <2>1
<1>7. it = Step(it)
  <2>1. it = [n \in 0..m |-> it[n]]
    OBVIOUS
  <2>2. ASSUME NEW n \in 0..m
        PROVE  it[n] = IF n = 0 THEN nil
                       ELSE IF cs[n] \in S THEN Append(it[n - 1], cs[n]) ELSE it[n - 1]
    <3>1. CASE n = 0
      BY <1>5, <3>1
    <3>2. CASE n \in 1..m
      <4>1. n # 0
        BY <1>0, <3>2
      <4>2. it[n] = IF cs[n] \in S THEN Append(it[n - 1], cs[n]) ELSE it[n - 1]
        BY <1>6, <3>2
      <4> QED
        BY <4>1, <4>2
    <3> QED
      BY <1>0, <3>1, <3>2
  <2> QED
    BY <2>1, <2>2
<1>8. rec = Step(rec)
  <2> HIDE DEF Step
  <2> QED
    BY <1>7
<1> HIDE DEF rec
<1>9. \A n \in 0..m :
        rec[n] = IF n = 0 THEN nil
                 ELSE IF cs[n] \in S THEN Append(rec[n - 1], cs[n]) ELSE rec[n - 1]
  BY <1>8
<1>10. Alike(rec, it, m)
  <2>1. rec[0] = it[0]
    BY <1>0, <1>5, <1>9
  <2>2. ASSUME NEW i \in 1..m PROVE rec[i - 1] = it[i - 1] => rec[i] = it[i]
    <3>1. i \in 0..m /\ i # 0
      BY <1>0
    <3> QED
      BY <1>6, <1>9, <3>1
  <2> QED
    BY <2>1, <2>2 DEF Alike
<1>11. \A i \in 0..m : rec[i] = it[i]
  BY <1>0, <1>10, Agree
<1>12. rec[m] = it[m]
  BY <1>0, <1>11
<1> QED
  BY <1>5, <1>6, <1>12

\* What is kept comes from the sequence, each from a place of its own, and all that
\* is asked for is kept.
LEMMA FilteredItems ==
  ASSUME NEW T, NEW cs \in Seq(T), NEW S
  PROVE  LET f == Filtered(cs, S) IN
         /\ f \in Seq(T)
         /\ \A i \in DOMAIN f : f[i] \in S /\ \E j \in DOMAIN cs : f[i] = cs[j]
         /\ \A i, j \in DOMAIN f : i # j =>
              \E a, b \in DOMAIN cs : a # b /\ f[i] = cs[a] /\ f[j] = cs[b]
         /\ \A j \in DOMAIN cs : cs[j] \in S => \E i \in DOMAIN f : f[i] = cs[j]
<1> DEFINE Keep == {n \in 1..Len(cs) : cs[n] \in S}
<1>1. PICK kept \in [0..Len(cs) -> Seq(T)] :
        FiltersTo(kept, cs, S) /\ Filtered(cs, S) = kept[Len(cs)]
  BY Filtering
<1>2. Keeping(kept, cs, Keep)
  BY <1>1 DEF FiltersTo, Keeping
<1>3. Len(cs) \in Nat /\ DOMAIN cs = 1..Len(cs) /\ \A n \in 1..Len(cs) : n \in Keep <=> cs[n] \in S
  OBVIOUS
<1> HIDE DEF Keep
<1>4. \A n \in 0..Len(cs) : Kept(kept[n], cs, Keep, T, n)
  BY <1>2, KeptItems
<1>5. Kept(Filtered(cs, S), cs, Keep, T, Len(cs))
  <2>1. Len(cs) \in 0..Len(cs)
    BY <1>3
  <2> QED
    BY <1>1, <1>4, <2>1
<1> DEFINE f == Filtered(cs, S)
<1> HIDE DEF f
<1>6. /\ f \in Seq(T)
      /\ \A i \in DOMAIN f : \E j \in 1..Len(cs) : j \in Keep /\ f[i] = cs[j]
      /\ \A i, j \in DOMAIN f : i # j =>
           \E a, b \in 1..Len(cs) : a # b /\ f[i] = cs[a] /\ f[j] = cs[b]
      /\ \A j \in 1..Len(cs) : j \in Keep => \E i \in DOMAIN f : f[i] = cs[j]
  BY <1>5 DEF Kept, f
<1>7. \A i \in DOMAIN f : f[i] \in S /\ \E j \in DOMAIN cs : f[i] = cs[j]
  BY <1>3, <1>6
<1>8. \A j \in DOMAIN cs : cs[j] \in S => \E i \in DOMAIN f : f[i] = cs[j]
  BY <1>3, <1>6
<1>9. \A i, j \in DOMAIN f : i # j =>
        \E a, b \in DOMAIN cs : a # b /\ f[i] = cs[a] /\ f[j] = cs[b]
  <2> TAKE i, j \in DOMAIN f
  <2> HAVE i # j
  <2>1. PICK a, b \in 1..Len(cs) : a # b /\ f[i] = cs[a] /\ f[j] = cs[b]
    BY <1>6
  <2>2. a \in DOMAIN cs /\ b \in DOMAIN cs
    BY <1>3
  <2> QED
    BY <2>1, <2>2
<1> QED
  BY <1>6, <1>7, <1>8, <1>9 DEF f

\* Nothing is kept of nothing.
LEMMA FilteredNone ==
  ASSUME NEW S PROVE Filtered(<<>>, S) = <<>>
<1>1. <<>> \in Seq({}) /\ Len(<<>>) = 0
  OBVIOUS
<1>2. PICK kept \in [0..Len(<<>>) -> Seq({})] :
        FiltersTo(kept, <<>>, S) /\ Filtered(<<>>, S) = kept[Len(<<>>)]
  BY <1>1, Filtering
<1> QED
  BY <1>1, <1>2 DEF FiltersTo

\* One more item is kept or not, as the set says.
LEMMA FilteredAppend ==
  ASSUME NEW T, NEW cs \in Seq(T), NEW x \in T, NEW S
  PROVE  /\ x \in S => Filtered(Append(cs, x), S) = Append(Filtered(cs, S), x)
         /\ x \notin S => Filtered(Append(cs, x), S) = Filtered(cs, S)
<1> DEFINE ds == Append(cs, x)
           m == Len(cs)
<1>1. m \in Nat
  OBVIOUS
<1>2. ds \in Seq(T) /\ Len(ds) = m + 1 /\ ds[m + 1] = x /\ \A i \in 1..m : ds[i] = cs[i]
  OBVIOUS
<1>3. PICK f \in [0..m -> Seq(T)] : FiltersTo(f, cs, S) /\ Filtered(cs, S) = f[m]
  BY Filtering
<1> HIDE DEF ds
<1>4. PICK g \in [0..Len(ds) -> Seq(T)] :
        FiltersTo(g, ds, S) /\ Filtered(ds, S) = g[Len(ds)]
  BY <1>2, Filtering
<1>5. f[0] = <<>> /\ \A n \in 1..m : f[n] = IF cs[n] \in S THEN Append(f[n - 1], cs[n])
                                              ELSE f[n - 1]
  BY <1>3 DEF FiltersTo
<1>6. /\ g[0] = <<>>
      /\ \A n \in 1..(m + 1) : g[n] = IF ds[n] \in S THEN Append(g[n - 1], ds[n]) ELSE g[n - 1]
  BY <1>2, <1>4 DEF FiltersTo
<1> HIDE DEF m
<1>7. \A i \in 0..m : f[i] = g[i]
  <2>1. \A i \in 1..m : f[i - 1] = g[i - 1] => f[i] = g[i]
    <3> TAKE i \in 1..m
    <3>1. i \in 1..(m + 1)
      BY <1>1
    <3> QED
      BY <1>2, <1>5, <1>6, <3>1
  <2>2. f[0] = g[0]
    BY <1>5, <1>6
  <2>3. Alike(f, g, m)
    BY <2>1, <2>2 DEF Alike
  <2> QED
    BY <1>1, <2>3, Agree
<1>8. f[m] = g[m]
  BY <1>1, <1>7
<1>9. g[m + 1] = IF x \in S THEN Append(g[m], x) ELSE g[m]
  <2>1. m + 1 \in 1..(m + 1) /\ (m + 1) - 1 = m
    BY <1>1
  <2> QED
    BY <1>2, <1>6, <2>1
<1> QED
  BY <1>2, <1>3, <1>4, <1>8, <1>9 DEF ds

\* Filtered twice is kept once, by what both ask.
LEMMA FilteredTwice ==
  ASSUME NEW T, NEW cs \in Seq(T), NEW P, NEW A, NEW R,
         \A x \in T : x \in R <=> x \in P /\ x \in A
  PROVE  Filtered(Filtered(cs, P), A) = Filtered(cs, R)
<1> DEFINE m == Len(cs)
<1>1. m \in Nat /\ \A n \in 1..m : cs[n] \in T
  OBVIOUS
<1>2. PICK f \in [0..m -> Seq(T)] : FiltersTo(f, cs, P) /\ Filtered(cs, P) = f[m]
  BY Filtering
<1>3. PICK g \in [0..m -> Seq(T)] : FiltersTo(g, cs, R) /\ Filtered(cs, R) = g[m]
  BY Filtering
<1>4. f[0] = <<>> /\ \A n \in 1..m : f[n] = IF cs[n] \in P THEN Append(f[n - 1], cs[n])
                                              ELSE f[n - 1]
  BY <1>2 DEF FiltersTo
<1>5. g[0] = <<>> /\ \A n \in 1..m : g[n] = IF cs[n] \in R THEN Append(g[n - 1], cs[n])
                                              ELSE g[n - 1]
  BY <1>3 DEF FiltersTo
<1> DEFINE h == [n \in 0..m |-> Filtered(f[n], A)]
<1> HIDE DEF m
<1>6. h[0] = g[0]
  BY <1>1, <1>4, <1>5, FilteredNone
<1>7. \A n \in 1..m : h[n - 1] = g[n - 1] => h[n] = g[n]
  <2> TAKE n \in 1..m
  <2> HAVE h[n - 1] = g[n - 1]
  <2>1. n - 1 \in 0..m /\ n \in 0..m /\ cs[n] \in T
    BY <1>1
  <2>2. f[n - 1] \in Seq(T) /\ h[n - 1] = Filtered(f[n - 1], A) /\ h[n] = Filtered(f[n], A)
    BY <2>1
  <2> HIDE DEF h
  <2>3. CASE cs[n] \in P
    <3>1. f[n] = Append(f[n - 1], cs[n])
      BY <1>4, <2>3
    <3>2. /\ cs[n] \in A => Filtered(Append(f[n - 1], cs[n]), A)
                              = Append(Filtered(f[n - 1], A), cs[n])
          /\ cs[n] \notin A => Filtered(Append(f[n - 1], cs[n]), A)
                                 = Filtered(f[n - 1], A)
      <4>1. f[n - 1] \in Seq(T) /\ cs[n] \in T
        BY <2>1, <2>2
      <4> QED
        BY <4>1, FilteredAppend
    <3>3. cs[n] \in R <=> cs[n] \in A
      BY <2>1, <2>3
    <3> QED
      BY <1>5, <2>2, <3>1, <3>2, <3>3
  <2>4. CASE cs[n] \notin P
    <3>1. f[n] = f[n - 1] /\ cs[n] \notin R
      BY <1>4, <2>1, <2>4
    <3> QED
      BY <1>5, <2>2, <3>1
  <2> QED
    BY <2>3, <2>4
<1> HIDE DEF h
<1>8. \A n \in 0..m : h[n] = g[n]
  <2>1. Alike(h, g, m)
    BY <1>6, <1>7 DEF Alike
  <2> QED
    BY <1>1, <2>1, Agree
<1>9. m \in 0..m /\ h[m] = Filtered(f[m], A)
  BY <1>1 DEF h
<1> QED
  BY <1>2, <1>3, <1>8, <1>9

----------------------------------------------------------------------------
(* Transport.  A request only goes down the ladder of protocols: what was tried lies
   above the rung tried now, a request without TLS starts at HTTP/1.1, and what
   carried the request past a rung left its mark on the blacklist by then. *)

\* The client's state, whole.
Net == [pooled : BOOLEAN, h3_blacklist : SUBSET Host, h2_blacklist : SUBSET Host,
        h2_senders : SUBSET Host, pool : [Host \X BOOLEAN -> 0..POOL_CAP],
        at : {"idle"} \cup TR!Rungs, host : Host, tls : BOOLEAN,
        tried : Seq(TR!Rungs), sent : Nat, answered : BOOLEAN]

\* The rungs of a request without TLS.
Plain == {"idle", "h1_pooled", "h1"}

\* What was tried lies above what is tried now, and what a blacklist keeps the
\* request from is passed.
Descent ==
  /\ \A i, j \in DOMAIN object.tried : i < j =>
          TR!Depth[object.tried[i]] < TR!Depth[object.tried[j]]
  /\ object.at # "idle" =>
          \A i \in DOMAIN object.tried : TR!Depth[object.tried[i]] < TR!Depth[object.at]
  /\ object.sent <= Len(object.tried)
  /\ ~object.tls => object.at \in Plain /\ \A i \in DOMAIN object.tried : object.tried[i] \in Plain

\* A rung below h3 needs the host marked for h3, one below h2 for h2 too.
Marked(s, r) ==
  /\ r \in TR!Rungs \ {"h3"} => s.host \in s.h3_blacklist
  /\ r \in {"h1_pooled", "h1"} => s.host \in s.h2_blacklist

\* Of a request with TLS, no rung was reached or tried but past those marked.
Passed ==
  object.tls => /\ Marked(object, object.at)
             /\ \A i \in DOMAIN object.tried : Marked(object, object.tried[i])

\* A request that ended without an answer has tried the last rung.
EndsLast ==
  object.at = "idle" /\ ~object.answered /\ object.tried # <<>> => TR!Last(object.tried) = "h1"

\* The transport's invariant.
LadderInv == object \in Net /\ Descent /\ Passed /\ EndsLast

\* The places of the rungs.
LEMMA Depths ==
  /\ TR!Depth["h3"] = 1 /\ TR!Depth["h2_pooled"] = 2 /\ TR!Depth["h2"] = 3
  /\ TR!Depth["h1_pooled"] = 4 /\ TR!Depth["h1"] = 5
  BY DEF TR!Depth, TR!Rungs

\* A rung that came to o, the request going on to rung next.
LEMMA Descends ==
  ASSUME LadderInv, object.at # "idle", object' \in Net,
         NEW o \in TR!Outcome, NEW next \in {"idle"} \cup TR!Rungs,
         o = "answer" => object'.at = "idle" /\ object'.answered, o # "answer" => object'.at = next,
         Len(object'.tried) = Len(object.tried) + 1,
         object'.tried[Len(object.tried) + 1] = object.at,
         \A i \in 1..Len(object.tried) : object'.tried[i] = object.tried[i],
         object'.sent <= object.sent + 1,
         object'.host = object.host, object'.tls = object.tls,
         object.h3_blacklist \subseteq object'.h3_blacklist,
         object.h2_blacklist \subseteq object'.h2_blacklist,
         o # "answer" /\ next = "idle" => object.at = "h1",
         o # "answer" /\ next # "idle" => TR!Depth[object.at] < TR!Depth[next],
         o # "answer" /\ next # "idle" /\ object.tls => Marked(object', next),
         o # "answer" /\ ~object.tls => next \in Plain
  PROVE  LadderInv'
<1> DEFINE n == Len(object.tried)
<1>1. /\ object.tried \in Seq(TR!Rungs) /\ object.at \in TR!Rungs /\ n \in Nat
      /\ object.sent \in Nat /\ object.tls \in BOOLEAN
  BY DEF LadderInv, Net
<1>2. /\ DOMAIN object'.tried = 1..n+1 /\ object'.tried[n+1] = object.at
      /\ Len(object'.tried) = n + 1
      /\ object'.tried \in Seq(TR!Rungs) /\ object'.sent \in Nat
      /\ \A i \in 1..n : object'.tried[i] = object.tried[i]
      /\ DOMAIN object.tried = 1..n
  <2>1. object'.tried \in Seq(TR!Rungs) /\ object'.sent \in Nat
    BY DEF Net
  <2> QED
    BY <1>1, <2>1
<1>3. \A r \in TR!Rungs : TR!Depth[r] \in Nat
  BY Depths DEF TR!Rungs
<1>4. \A i \in 1..n : object.tried[i] \in TR!Rungs
  BY <1>1, <1>2
<1> HIDE DEF n
<1>5. Descent'
  <2>1. \A i, j \in 1..n+1 : i < j => TR!Depth[object'.tried[i]] < TR!Depth[object'.tried[j]]
    <3>1. \A i, j \in 1..n : i < j => TR!Depth[object.tried[i]] < TR!Depth[object.tried[j]]
      BY <1>2 DEF LadderInv, Descent
    <3>2. \A i \in 1..n : TR!Depth[object.tried[i]] < TR!Depth[object.at]
      BY <1>2 DEF LadderInv, Descent
    <3>3. \A i \in 1..n+1 : i \in 1..n \/ i = n + 1
      BY <1>1
    <3>4. \A i, j \in 1..n+1 : i < j => i \in 1..n
      BY <1>1
    <3> QED
      BY <1>2, <3>1, <3>2, <3>3, <3>4
  <2>2. object'.at # "idle" => \A i \in 1..n+1 : TR!Depth[object'.tried[i]] < TR!Depth[object'.at]
    <3> SUFFICES ASSUME object'.at # "idle", NEW i \in 1..n+1
                 PROVE  TR!Depth[object'.tried[i]] < TR!Depth[object'.at]
      OBVIOUS
    <3>1. object'.at = next /\ next \in TR!Rungs /\ TR!Depth[object.at] < TR!Depth[next]
      BY DEF TR!Rungs
    <3>2. CASE i = n + 1
      BY <1>2, <3>1, <3>2
    <3>3. CASE i \in 1..n
      <4>1. TR!Depth[object.tried[i]] < TR!Depth[object.at]
        BY <1>1, <1>2, <3>3 DEF LadderInv, Descent, TR!Rungs
      <4>2. /\ TR!Depth[object.tried[i]] \in Nat /\ TR!Depth[object.at] \in Nat
            /\ TR!Depth[next] \in Nat
        BY <1>1, <1>3, <1>4, <3>1, <3>3
      <4> QED
        BY <1>2, <3>1, <3>3, <4>1, <4>2
    <3> QED
      BY <1>1, <3>2, <3>3
  <2>3. object'.sent <= n + 1
    <3>1. object.sent <= n
      BY DEF LadderInv, Descent, n
    <3> QED
      BY <1>1, <1>2, <3>1
  <2>4. ~object.tls => \A i \in 1..n+1 : object'.tried[i] \in Plain
    <3>1. ~object.tls => object.at \in Plain /\ \A i \in 1..n : object.tried[i] \in Plain
      BY <1>2 DEF LadderInv, Descent
    <3> QED
      BY <1>1, <1>2, <3>1
  <2>5. ~object.tls => object'.at \in Plain
    BY <1>1 DEF Plain
  <2> QED
    BY <1>2, <2>1, <2>2, <2>3, <2>4, <2>5 DEF Descent
<1>6. Passed'
  <2> SUFFICES ASSUME object.tls
               PROVE  /\ Marked(object', object'.at)
                      /\ \A i \in 1..n+1 : Marked(object', object'.tried[i])
    BY <1>2 DEF Passed
  <2>1. \A r : Marked(object, r) => Marked(object', r)
    BY DEF Marked
  <2>2. Marked(object', object'.at)
    BY DEF Marked, TR!Rungs
  <2>3. \A i \in 1..n+1 : Marked(object', object'.tried[i])
    <3>1. Marked(object, object.at) /\ \A i \in 1..n : Marked(object, object.tried[i])
      BY <1>2 DEF LadderInv, Passed
    <3> QED
      BY <1>1, <1>2, <2>1, <3>1
  <2> QED
    BY <2>2, <2>3
<1>7. EndsLast'
  BY <1>1, <1>2 DEF EndsLast, TR!Last
<1> QED
  BY <1>5, <1>6, <1>7 DEF LadderInv

\* What TR!Tried changes.
LEMMA TriedFields ==
  ASSUME object \in Net, object.at # "idle", NEW o \in TR!Outcome,
           NEW next \in {"idle"} \cup TR!Rungs
  PROVE  LET t == TR!Tried(o, next) IN
         /\ t \in Net
         /\ t.at = IF o = "answer" THEN "idle" ELSE next
         /\ t.tried = Append(object.tried, object.at)
         /\ o = "answer" => t.answered
         /\ t.sent = IF o = "early" THEN object.sent ELSE object.sent + 1
         /\ t.host = object.host /\ t.tls = object.tls /\ t.pooled = object.pooled
         /\ t.h3_blacklist = object.h3_blacklist /\ t.h2_blacklist = object.h2_blacklist
         /\ t.h2_senders = object.h2_senders /\ t.pool = object.pool
<1> DEFINE answered == o = "answer"
           at == IF o = "answer" THEN "idle" ELSE next
           tried == Append(object.tried, object.at)
           sent == IF o = "early" THEN object.sent ELSE object.sent + 1
<1>1. /\ answered \in BOOLEAN /\ at \in {"idle"} \cup TR!Rungs /\ sent \in Nat
      /\ tried \in Seq(TR!Rungs)
  BY DEF Net
<1>2. TR!Tried(o, next) = [object EXCEPT !.at = at, !.tried = tried, !.sent = sent,
                           !.answered = answered]
  BY DEF TR!Tried
<1>3. o = "answer" => answered
  OBVIOUS
<1> HIDE DEF answered, at, tried, sent
<1>4. /\ TR!Tried(o, next) \in Net
      /\ TR!Tried(o, next).at = at /\ TR!Tried(o, next).tried = tried
      /\ TR!Tried(o, next).sent = sent /\ TR!Tried(o, next).answered = answered
      /\ TR!Tried(o, next).host = object.host /\ TR!Tried(o, next).tls = object.tls
      /\ TR!Tried(o, next).pooled = object.pooled /\ TR!Tried(o, next).pool = object.pool
      /\ TR!Tried(o, next).h3_blacklist = object.h3_blacklist
      /\ TR!Tried(o, next).h2_blacklist = object.h2_blacklist
      /\ TR!Tried(o, next).h2_senders = object.h2_senders
  BY <1>1, <1>2 DEF Net
<1> QED
  BY <1>3, <1>4 DEF at, tried, sent

\* What LadderInv says of the fields.
LEMMA LadderTypes ==
  ASSUME LadderInv
  PROVE  /\ object \in Net /\ object.host \in Host /\ object.tls \in BOOLEAN
         /\ object.h3_blacklist \subseteq Host /\ object.h2_blacklist \subseteq Host
         /\ object.h2_senders \subseteq Host /\ object.pool \in [Host \X BOOLEAN -> 0..POOL_CAP]
         /\ object.at \in {"h3", "h2_pooled", "h2"} => object.tls = TRUE
         /\ object.tls => Marked(object, object.at)
  BY DEF LadderInv, Net, Descent, Plain, Passed

\* Where a request goes that HTTP/3 does not carry.
LEMMA FirstRung ==
  ASSUME NEW h, NEW tls \in BOOLEAN
  PROVE  /\ TR!H2OrH1(h, tls) \in {"h2_pooled", "h2", "h1_pooled"}
         /\ TR!H2OrH1(h, tls) = "h1_pooled" => tls = FALSE \/ h \in object.h2_blacklist
         /\ tls = FALSE => TR!H2OrH1(h, tls) = "h1_pooled"
  BY DEF TR!H2OrH1

\* A new request starts above all that its blacklists leave it.
LEMMA RequestStep ==
  ASSUME LadderInv, NEW h \in Host, NEW tls \in BOOLEAN, TR!Request(h, tls)
  PROVE  LadderInv'
<1> DEFINE at == IF tls /\ h \notin object.h3_blacklist THEN "h3" ELSE TR!H2OrH1(h, tls)
<1>1. object' = [object EXCEPT !.host = h, !.tls = tls, !.tried = <<>>, !.sent = 0,
                 !.answered = FALSE,
                         !.at = at]
  BY DEF TR!Request
<1>2. at \in TR!Rungs /\ at # "idle" /\ (tls = FALSE => at = "h1_pooled")
      /\ (at \in TR!Rungs \ {"h3"} => tls = FALSE \/ h \in object.h3_blacklist)
      /\ (at \in {"h1_pooled", "h1"} => tls = FALSE \/ h \in object.h2_blacklist)
  BY FirstRung DEF TR!Rungs
<1> HIDE DEF at
<1>3. object \in Net
  BY LadderTypes
<1>4. /\ object' \in Net /\ object'.host = h /\ object'.tls = tls /\ object'.tried = <<>>
      /\ object'.sent = 0
      /\ object'.at = at
      /\ object'.h3_blacklist = object.h3_blacklist /\ object'.h2_blacklist = object.h2_blacklist
  <2>1. <<>> \in Seq(TR!Rungs) /\ 0 \in Nat /\ FALSE \in BOOLEAN
    OBVIOUS
  <2> QED
    BY <1>1, <1>2, <1>3, <2>1 DEF Net
<1>5. Descent'
  BY <1>2, <1>4 DEF Descent, Plain
<1>6. Passed'
  BY <1>2, <1>4 DEF Passed, Marked
<1>7. EndsLast'
  BY <1>4 DEF EndsLast
<1> QED
  BY <1>4, <1>5, <1>6, <1>7 DEF LadderInv

\* u is t but for the blacklists, the senders and the pool.
Same(u, t) ==
  /\ u \in Net /\ u.at = t.at /\ u.tried = t.tried /\ u.sent = t.sent
  /\ u.answered = t.answered /\ u.host = t.host /\ u.tls = t.tls

\* EXCEPT of those leaves all else as it is.
LEMMA Left ==
  ASSUME NEW t \in Net
  PROVE  /\ Same(t, t)
         /\ \A a \in SUBSET Host :
              LET u == [t EXCEPT !.h3_blacklist = a] IN
              Same(u, t) /\ u.h3_blacklist = a /\ u.h2_blacklist = t.h2_blacklist
         /\ \A b \in SUBSET Host :
              LET u == [t EXCEPT !.h2_blacklist = b] IN
              Same(u, t) /\ u.h3_blacklist = t.h3_blacklist /\ u.h2_blacklist = b
         /\ \A c \in SUBSET Host :
              LET u == [t EXCEPT !.h2_senders = c] IN
              Same(u, t) /\ u.h3_blacklist = t.h3_blacklist /\ u.h2_blacklist = t.h2_blacklist
         /\ \A d \in [Host \X BOOLEAN -> 0..POOL_CAP] :
              LET u == [t EXCEPT !.pool = d] IN
              Same(u, t) /\ u.h3_blacklist = t.h3_blacklist /\ u.h2_blacklist = t.h2_blacklist
  BY DEF Same, Net

\* So does EXCEPT of the blacklist and the senders together.
LEMMA LeftByBoth ==
  ASSUME NEW t \in Net, NEW b \in SUBSET Host, NEW c \in SUBSET Host,
         object' = [t EXCEPT !.h2_blacklist = b, !.h2_senders = c]
  PROVE  Same(object', t) /\ object'.h3_blacklist = t.h3_blacklist /\ object'.h2_blacklist = b
  BY DEF Same, Net

\* A rung that came to o, with what it marked.
LEMMA RungStep ==
  ASSUME LadderInv, object.at # "idle",
         NEW o \in TR!Outcome, NEW next \in {"idle"} \cup TR!Rungs,
         Same(object', TR!Tried(o, next)),
         object.h3_blacklist \subseteq object'.h3_blacklist,
         object.h2_blacklist \subseteq object'.h2_blacklist,
         o # "answer" /\ next = "idle" => object.at = "h1",
         o # "answer" /\ next # "idle" =>
           TR!Depth[object.at] < TR!Depth[next]
             /\ (object.tls = FALSE \/ object.host \in object'.h3_blacklist)
             /\ (next \in {"h1_pooled", "h1"} =>
                  object.tls = FALSE \/ object.host \in object'.h2_blacklist),
         o # "answer" /\ object.tls = FALSE => next \in Plain
  PROVE  LadderInv'
<1> DEFINE t == TR!Tried(o, next)
<1>1. /\ t \in Net /\ t.at = IF o = "answer" THEN "idle" ELSE next
      /\ t.tried = Append(object.tried, object.at) /\ (o = "answer" => t.answered)
      /\ t.sent = IF o = "early" THEN object.sent ELSE object.sent + 1
      /\ t.host = object.host /\ t.tls = object.tls
  BY LadderTypes, TriedFields
<1> HIDE DEF t
<1>2. /\ object' \in Net /\ object'.at = t.at /\ object'.tried = t.tried /\ object'.sent = t.sent
      /\ object'.answered = t.answered /\ object'.host = t.host /\ object'.tls = t.tls
  BY DEF Same, t
<1>3. o # "answer" /\ next # "idle" /\ object.tls => Marked(object', next)
  BY <1>1, <1>2 DEF Marked
<1>4. object.tried \in Seq(TR!Rungs) /\ object.at \in TR!Rungs /\ object.sent \in Nat
  BY LadderTypes DEF Net
<1>5. /\ Len(t.tried) = Len(object.tried) + 1 /\ t.tried[Len(object.tried) + 1] = object.at
      /\ \A i \in 1..Len(object.tried) : t.tried[i] = object.tried[i]
  BY <1>1, <1>4
<1>6. t.sent <= object.sent + 1
  BY <1>1, <1>4
<1>7. /\ (o = "answer" => t.at = "idle" /\ t.answered) /\ (o # "answer" => t.at = next)
  BY <1>1
<1>8. /\ Len(object'.tried) = Len(object.tried) + 1
      /\ object'.tried[Len(object.tried) + 1] = object.at
      /\ \A i \in 1..Len(object.tried) : object'.tried[i] = object.tried[i]
  BY <1>2, <1>5
<1> QED
  BY <1>1, <1>2, <1>3, <1>6, <1>7, <1>8, LadderTypes, Descends

\* HTTP/3 failed: the host is marked and HTTP/2 or HTTP/1.1 is next.
LEMMA H3Step ==
  ASSUME LadderInv, TR!TryH3
  PROVE  LadderInv'
<1> DEFINE next == TR!H2OrH1(object.host, TRUE)
<1>1. PICK o \in TR!Outcome :
        object' = [TR!Tried(o, next) EXCEPT
                  !.h3_blacklist = IF o = "answer" THEN @ ELSE @ \cup {object.host}]
  BY DEF TR!TryH3
<1> DEFINE t == TR!Tried(o, next)
           marks == IF o = "answer" THEN object.h3_blacklist
                      ELSE object.h3_blacklist \cup {object.host}
<1>2. /\ object.at = "h3" /\ object.tls = TRUE /\ next \in {"h2_pooled", "h2", "h1_pooled"}
      /\ next = "h1_pooled" => object.host \in object.h2_blacklist
  BY FirstRung, LadderTypes DEF TR!TryH3
<1>3. next \in {"idle"} \cup TR!Rungs /\ next # "idle" /\ next # "h1"
  BY <1>2 DEF TR!Rungs
<1> HIDE DEF next
<1>4. t \in Net /\ t.h3_blacklist = object.h3_blacklist /\ t.h2_blacklist = object.h2_blacklist
  BY <1>2, <1>3, LadderTypes, TriedFields
<1> HIDE DEF t
<1>5. object' = [t EXCEPT !.h3_blacklist = marks] /\ marks \in SUBSET Host
  BY <1>1, <1>4, LadderTypes DEF t
<1>6. Same(object', t) /\ object'.h3_blacklist = marks /\ object'.h2_blacklist = object.h2_blacklist
  BY <1>4, <1>5, Left
<1>7. TR!Depth[object.at] < TR!Depth[next]
  BY <1>2, Depths
<1> QED
  BY <1>2, <1>3, <1>6, <1>7, RungStep DEF t

\* The cached sender was tried: a connection that is gone, or HTTP/2 given up.
LEMMA H2PooledStep ==
  ASSUME LadderInv, TR!TryH2Pooled
  PROVE  LadderInv'
<1>1. object.at = "h2_pooled" /\ object.tls = TRUE /\ object.host \in object.h3_blacklist
  BY LadderTypes DEF TR!TryH2Pooled, Marked, TR!Rungs
<1>2. /\ TR!Depth[object.at] < TR!Depth["h2"] /\ TR!Depth[object.at] < TR!Depth["h1_pooled"]
      /\ "idle" \in {"idle"} \cup TR!Rungs /\ "h2" \in {"idle"} \cup TR!Rungs
      /\ "h1_pooled" \in {"idle"} \cup TR!Rungs
      /\ "answer" \in TR!Outcome /\ \A o \in {"early", "written"} : o \in TR!Outcome
      /\ object.host \in Host /\ object.h2_senders \ {object.host} \in SUBSET Host
      /\ object.h2_blacklist \cup {object.host} \in SUBSET Host
  BY <1>1, Depths, LadderTypes DEF TR!Rungs, TR!Outcome
<1>3. CASE object' = TR!Tried("answer", "idle")
  BY <1>1, <1>2, <1>3, LadderTypes, TriedFields, Left, RungStep
<1>4. ASSUME NEW o \in {"early", "written"},
             object' = [TR!Tried(o, "h2") EXCEPT !.h2_senders = @ \ {object.host}]
      PROVE  LadderInv'
  <2> DEFINE t == TR!Tried(o, "h2")
  <2>1. /\ t \in Net /\ t.h3_blacklist = object.h3_blacklist /\ t.h2_blacklist = object.h2_blacklist
        /\ t.h2_senders = object.h2_senders
    BY <1>1, <1>2, LadderTypes, TriedFields
  <2> HIDE DEF t
  <2>2. object' = [t EXCEPT !.h2_senders = object.h2_senders \ {object.host}]
    BY <1>4, <2>1 DEF t
  <2>3. /\ Same(object', t) /\ object'.h3_blacklist = object.h3_blacklist
        /\ object'.h2_blacklist = object.h2_blacklist
    BY <1>2, <2>1, <2>2, Left
  <2> QED
    BY <1>1, <1>2, <2>3, RungStep DEF t
<1>5. ASSUME NEW o \in {"early", "written"},
             object' = [TR!Tried(o, "h1_pooled") EXCEPT !.h2_blacklist = @ \cup {object.host}]
      PROVE  LadderInv'
  <2> DEFINE t == TR!Tried(o, "h1_pooled")
  <2>1. /\ t \in Net /\ t.h3_blacklist = object.h3_blacklist /\ t.h2_blacklist = object.h2_blacklist
    BY <1>1, <1>2, LadderTypes, TriedFields
  <2> HIDE DEF t
  <2>2. object' = [t EXCEPT !.h2_blacklist = object.h2_blacklist \cup {object.host}]
    BY <1>5, <2>1 DEF t
  <2>3. /\ Same(object', t) /\ object'.h3_blacklist = object.h3_blacklist
        /\ object'.h2_blacklist = object.h2_blacklist \cup {object.host}
    BY <1>2, <2>1, <2>2, Left
  <2> QED
    BY <1>1, <1>2, <2>3, RungStep DEF t
<1> QED
  BY <1>3, <1>4, <1>5 DEF TR!TryH2Pooled

\* A new HTTP/2 connection, pooled or not: any failure marks the host.
LEMMA H2Step ==
  ASSUME LadderInv, TR!TryH2 \/ TR!TryH2Unpooled
  PROVE  LadderInv'
<1>1. object.at = "h2" /\ object.tls = TRUE /\ object.host \in object.h3_blacklist
  BY LadderTypes DEF TR!TryH2, TR!TryH2Unpooled, Marked, TR!Rungs
<1>2. /\ TR!Depth[object.at] < TR!Depth["h1_pooled"]
      /\ "idle" \in {"idle"} \cup TR!Rungs /\ "h1_pooled" \in {"idle"} \cup TR!Rungs
      /\ "answer" \in TR!Outcome /\ \A o \in {"early", "written"} : o \in TR!Outcome
      /\ object.h2_senders \cup {object.host} \in SUBSET Host
      /\ object.h2_senders \ {object.host} \in SUBSET Host
      /\ object.h2_blacklist \in SUBSET Host
      /\ object.h2_blacklist \cup {object.host} \in SUBSET Host
  BY <1>1, Depths, LadderTypes DEF TR!Rungs, TR!Outcome
<1>3. ASSUME object' = [TR!Tried("answer", "idle") EXCEPT !.h2_senders = @ \cup {object.host}]
      PROVE  LadderInv'
  <2> DEFINE t == TR!Tried("answer", "idle")
  <2>1. /\ t \in Net /\ t.h3_blacklist = object.h3_blacklist /\ t.h2_blacklist = object.h2_blacklist
        /\ t.h2_senders = object.h2_senders
    BY <1>1, <1>2, LadderTypes, TriedFields
  <2> HIDE DEF t
  <2>2. object' = [t EXCEPT !.h2_senders = object.h2_senders \cup {object.host}]
    BY <1>3, <2>1 DEF t
  <2>3. /\ Same(object', t) /\ object'.h3_blacklist = object.h3_blacklist
        /\ object'.h2_blacklist = object.h2_blacklist
    BY <1>2, <2>1, <2>2, Left
  <2> QED
    BY <1>1, <1>2, <2>3, RungStep DEF t
<1>4. ASSUME NEW o \in {"early", "written"}, NEW cached \in BOOLEAN,
             object' = [TR!Tried(o, "h1_pooled") EXCEPT
                       !.h2_blacklist = @ \cup {object.host},
                       !.h2_senders = IF cached THEN @ \cup {object.host} ELSE @ \ {object.host}]
      PROVE  LadderInv'
  <2> DEFINE t == TR!Tried(o, "h1_pooled")
             senders == IF cached THEN object.h2_senders \cup {object.host}
                                  ELSE object.h2_senders \ {object.host}
  <2>1. /\ t \in Net /\ t.h3_blacklist = object.h3_blacklist /\ t.h2_blacklist = object.h2_blacklist
        /\ t.h2_senders = object.h2_senders
    BY <1>1, <1>2, LadderTypes, TriedFields
  <2> HIDE DEF t
  <2>2. /\ object' = [t EXCEPT !.h2_blacklist = object.h2_blacklist \cup {object.host},
                            !.h2_senders = senders]
        /\ senders \in SUBSET Host
    BY <1>2, <1>4, <2>1 DEF t
  <2> HIDE DEF senders
  <2>3. /\ Same(object', t) /\ object'.h3_blacklist = object.h3_blacklist
        /\ object'.h2_blacklist = object.h2_blacklist \cup {object.host}
    BY <1>2, <2>1, <2>2, LeftByBoth
  <2> QED
    BY <1>1, <1>2, <2>3, RungStep DEF t
<1>5. ASSUME NEW o \in TR!Outcome,
             object' = [TR!Tried(o, "h1_pooled") EXCEPT
                       !.h2_blacklist = IF o = "answer" THEN @ ELSE @ \cup {object.host}]
      PROVE  LadderInv'
  <2> DEFINE t == TR!Tried(o, "h1_pooled")
             marks == IF o = "answer" THEN object.h2_blacklist
                        ELSE object.h2_blacklist \cup {object.host}
  <2>1. /\ t \in Net /\ t.h3_blacklist = object.h3_blacklist /\ t.h2_blacklist = object.h2_blacklist
    BY <1>1, <1>2, LadderTypes, TriedFields
  <2> HIDE DEF t
  <2>2. object' = [t EXCEPT !.h2_blacklist = marks] /\ marks \in SUBSET Host
    BY <1>2, <1>5, <2>1 DEF t
  <2>3. /\ Same(object', t) /\ object'.h3_blacklist = object.h3_blacklist
        /\ object'.h2_blacklist = marks
    BY <2>1, <2>2, Left
  <2> QED
    BY <1>1, <1>2, <2>3, RungStep DEF t
<1> QED
  BY <1>3, <1>4, <1>5 DEF TR!TryH2, TR!TryH2Unpooled

\* HTTP/1.1, from the pool or new.
LEMMA H1Step ==
  ASSUME TR!Bounds, LadderInv, TR!TryH1Pooled \/ TR!TryH1
  PROVE  LadderInv'
<1>1. /\ object.at \in {"h1_pooled", "h1"} /\ object.tls \in BOOLEAN /\ TR!Key \in Host \X BOOLEAN
      /\ \/ object.tls = FALSE
         \/ object.host \in object.h3_blacklist /\ object.host \in object.h2_blacklist
  BY LadderTypes DEF TR!TryH1Pooled, TR!TryH1, Marked, TR!Rungs, TR!Key
<1>2. /\ TR!Depth["h1_pooled"] < TR!Depth["h1"] /\ "h1" \in Plain
      /\ "idle" \in {"idle"} \cup TR!Rungs /\ "h1" \in {"idle"} \cup TR!Rungs
      /\ "answer" \in TR!Outcome /\ \A o \in {"early", "written"} : o \in TR!Outcome
  BY Depths DEF TR!Rungs, TR!Outcome, Plain
<1>3. ASSUME NEW o \in TR!Outcome, NEW next \in {"idle"} \cup TR!Rungs,
             NEW pool \in [Host \X BOOLEAN -> 0..POOL_CAP],
             object' = [TR!Tried(o, next) EXCEPT !.pool = pool],
             o # "answer" => next \in Plain
               /\ IF next = "idle" THEN object.at = "h1" ELSE TR!Depth[object.at] < TR!Depth[next]
      PROVE  LadderInv'
  <2> DEFINE t == TR!Tried(o, next)
  <2>1. /\ t \in Net /\ t.h3_blacklist = object.h3_blacklist /\ t.h2_blacklist = object.h2_blacklist
    BY <1>1, LadderTypes, TriedFields
  <2> HIDE DEF t
  <2>2. object' = [t EXCEPT !.pool = pool]
    BY <1>3 DEF t
  <2>3. /\ Same(object', t) /\ object'.h3_blacklist = object.h3_blacklist
        /\ object'.h2_blacklist = object.h2_blacklist
    BY <2>1, <2>2, Left
  <2> QED
    BY <1>1, <1>3, <2>3, RungStep DEF t
<1>4. ASSUME object.at = "h1_pooled", object' = [object EXCEPT !.at = "h1"]
      PROVE  LadderInv'
  <2>1. /\ object' \in Net /\ object'.at = "h1" /\ object'.tried = object.tried
        /\ object'.sent = object.sent
        /\ object'.answered = object.answered /\ object'.host = object.host
        /\ object'.tls = object.tls
        /\ object'.h3_blacklist = object.h3_blacklist /\ object'.h2_blacklist = object.h2_blacklist
    BY <1>2, <1>4, LadderTypes DEF Net
  <2>2. /\ object.tried \in Seq(TR!Rungs) /\ TR!Depth[object.at] \in Nat /\ TR!Depth["h1"] \in Nat
        /\ \A i \in DOMAIN object.tried : object.tried[i] \in TR!Rungs
        /\ \A r \in TR!Rungs : TR!Depth[r] \in Nat
    <3>1. \A r \in TR!Rungs : TR!Depth[r] \in Nat
      BY Depths DEF TR!Rungs
    <3> QED
      BY <1>4, <3>1, LadderTypes, Depths DEF Net
  <2>3. Descent'
    BY <1>2, <1>4, <2>1, <2>2 DEF LadderInv, Descent
  <2>4. Passed'
    BY <1>1, <2>1 DEF LadderInv, Passed, Marked
  <2>5. EndsLast'
    BY <2>1 DEF EndsLast
  <2> QED
    BY <2>1, <2>3, <2>4, <2>5 DEF LadderInv
<1>5. ASSUME NEW pool \in [Host \X BOOLEAN -> 0..POOL_CAP], NEW keep \in BOOLEAN
      PROVE  TR!return_to_pool(pool, TR!Key, keep) \in [Host \X BOOLEAN -> 0..POOL_CAP]
  BY <1>1 DEF TR!return_to_pool, TR!Bounds
<1>6. CASE TR!TryH1Pooled
  <2> DEFINE taken == [object.pool EXCEPT ![TR!Key] = @ - 1]
  <2>1. CASE object.pool[TR!Key] = 0
    BY <1>4, <1>6, <2>1 DEF TR!TryH1Pooled
  <2>2. ASSUME object.pool[TR!Key] # 0 PROVE taken \in [Host \X BOOLEAN -> 0..POOL_CAP]
    BY <1>1, <2>2, LadderTypes DEF TR!Bounds
  <2>3. ASSUME object.pool[TR!Key] # 0, NEW keep \in BOOLEAN,
               object' = [TR!Tried("answer", "idle") EXCEPT
                             !.pool = TR!return_to_pool(taken, TR!Key, keep)]
        PROVE  LadderInv'
    BY <1>2, <1>3, <1>5, <2>2, <2>3
  <2>4. ASSUME object.pool[TR!Key] # 0, NEW o \in {"early", "written"},
               object' = [TR!Tried(o, "h1") EXCEPT !.pool = taken]
        PROVE  LadderInv'
    <3>1. object.at = "h1_pooled"
      BY <1>6 DEF TR!TryH1Pooled
    <3> QED
      BY <1>2, <1>3, <2>2, <2>4, <3>1
  <2> QED
    BY <1>6, <2>1, <2>3, <2>4 DEF TR!TryH1Pooled
<1>7. CASE TR!TryH1
  <2>1. object.at = "h1" /\ "idle" \in Plain
    BY <1>7 DEF TR!TryH1, Plain
  <2>2. ASSUME NEW keep \in BOOLEAN,
               object' = [TR!Tried("answer", "idle") EXCEPT
                             !.pool = TR!return_to_pool(@, TR!Key, keep)]
        PROVE  LadderInv'
    <3>1. TR!Tried("answer", "idle").pool = object.pool
      BY <1>1, <1>2, LadderTypes, TriedFields
    <3>2. TR!return_to_pool(object.pool, TR!Key, keep) \in [Host \X BOOLEAN -> 0..POOL_CAP]
      BY <1>5, LadderTypes
    <3> QED
      BY <1>2, <1>3, <2>2, <3>1, <3>2
  <2>3. ASSUME NEW o \in {"early", "written"}, object' = TR!Tried(o, "idle")
        PROVE  LadderInv'
    <3>1. /\ TR!Tried(o, "idle") \in Net /\ o \in TR!Outcome
          /\ TR!Tried(o, "idle").h3_blacklist = object.h3_blacklist
          /\ TR!Tried(o, "idle").h2_blacklist = object.h2_blacklist
      BY <1>1, <1>2, LadderTypes, TriedFields
    <3>2. Same(object', TR!Tried(o, "idle"))
      BY <2>3, <3>1, Left
    <3> QED
      BY <1>1, <1>2, <2>1, <2>3, <3>1, <3>2, RungStep
  <2> QED
    BY <1>7, <2>2, <2>3 DEF TR!TryH1
<1> QED
  BY <1>6, <1>7

\* A client that has sent nothing yet.
LEMMA LadderStart == ASSUME TR!Bounds, TR!Init PROVE LadderInv
<1>1. (CHOOSE h \in Host : TRUE) \in Host
  BY DEF TR!Bounds
<1>2. /\ <<>> \in Seq(TR!Rungs) /\ {} \in SUBSET Host
      /\ [k \in Host \X BOOLEAN |-> 0] \in [Host \X BOOLEAN -> 0..POOL_CAP]
  BY DEF TR!Bounds
<1>3. /\ object \in Net /\ object.at = "idle" /\ object.tried = <<>>
      /\ object.sent = 0 /\ object.tls = FALSE
  BY <1>1, <1>2 DEF TR!Init, Net
<1> QED
  BY <1>3 DEF LadderInv, Descent, Passed, EndsLast, Plain

\* Every step of the ladder keeps its invariant.
LEMMA LadderKept == ASSUME TR!Bounds, LadderInv, TR!Next PROVE LadderInv'
BY RequestStep, H3Step, H2PooledStep, H2Step, H1Step DEF TR!Next, TR!Step

\* The invariant has what the run checks, and the types.
LEMMA LadderHolds == ASSUME LadderInv PROVE TR!LadderDescends /\ TR!TypeOK
<1>1. object.tried \in Seq(TR!Rungs)
  BY DEF LadderInv, Net
<1>2. object.tried # <<>> =>
           Len(object.tried) \in DOMAIN object.tried /\ TR!Last(object.tried) \in TR!Rungs
                          /\ TR!Last(object.tried) = object.tried[Len(object.tried)]
  BY <1>1 DEF TR!Last
<1>3. object.tls /\ object.tried # <<>> => Marked(object, TR!Last(object.tried))
  BY <1>2 DEF LadderInv, Passed
<1>4. /\ \A i, j \in DOMAIN object.tried : i < j =>
              TR!Depth[object.tried[i]] < TR!Depth[object.tried[j]]
      /\ object.sent <= Len(object.tried)
  BY DEF LadderInv, Descent
<1>5. object.at = "idle" /\ ~object.answered /\ object.tried # <<>> => TR!Last(object.tried) = "h1"
  BY DEF LadderInv, EndsLast
<1>6. TR!TypeOK
  BY DEF LadderInv, Net, TR!TypeOK
<1> QED
  BY <1>2, <1>3, <1>4, <1>5, <1>6 DEF TR!LadderDescends, Marked

----------------------------------------------------------------------------
(* Client.  What goes over the wire has been admitted at this very hop, and a body is
   there only once the request has ended. *)

\* The client's state, whole.
Client == [hsts : SUBSET Site, jar : SUBSET Site,
           cache : [Cacheable -> {"none", "open", "private"}],
           at : {"idle", "admit", "lookup", "wait"}, url : CL!URL, post : BOOLEAN,
           depth : 0..max_redirects,
           context : [initiator : SUBSET CL!URL, cors : BOOLEAN, top : BOOLEAN],
           cookie : BOOLEAN, body : {"none", "open", "private"}]

\* The hop of s has passed Admit.
Admitted(s) ==
  /\ s.depth < max_redirects /\ s.url.host \notin Blocked
  /\ s.url.host \in s.hsts \cup Preloaded => s.url.tls
  /\ (\E i \in s.context.initiator : i.tls) => s.url.tls

\* The client's invariant.
ClientInv ==
  /\ object \in Client
  /\ object.at \in {"lookup", "wait"} => Admitted(object)
  /\ object.at = "wait" /\ object.cookie =>
       ~CL!is_third_party_subresource(object.url, object.context)
  /\ object.at # "idle" => object.body = "none"
  /\ CL!ReadersAllowed

\* A client that has sent nothing yet.
LEMMA ClientStart == ASSUME CL!Bounds, CL!Init PROVE ClientInv
<1>1. (CHOOSE u \in CL!URL : TRUE) \in CL!URL
  <2>1. PICK h \in Site : TRUE
    BY DEF CL!Bounds
  <2>2. [tls |-> FALSE, host |-> h] \in CL!URL
    BY DEF CL!URL
  <2> QED
    BY <2>2
<1>2. CL!Context({}, FALSE, FALSE) \in [initiator : SUBSET CL!URL, cors : BOOLEAN, top : BOOLEAN]
  BY DEF CL!Context
<1>3. [u \in Cacheable |-> "none"] \in [Cacheable -> {"none", "open", "private"}]
  OBVIOUS
<1>4. 0 \in 0..max_redirects
  BY DEF CL!Bounds
<1>5. object \in Client /\ object.at = "idle" /\ object.body = "none"
  BY <1>1, <1>2, <1>3, <1>4 DEF CL!Init, Client
<1> QED
  BY <1>5 DEF ClientInv, CL!ReadersAllowed

\* A request that ends with the body b, if any, that its reader may have.
LEMMA ClientEnds ==
  ASSUME ClientInv, object' \in Client, object'.at = "idle",
         object'.url = object.url, object'.context = object.context,
         \/ object'.body = object.body
         \/ CL!cors_allows(object'.body, object.url, object.context)
  PROVE  ClientInv'
<1>1. CL!ReadersAllowed'
  BY DEF ClientInv, CL!ReadersAllowed, CL!cors_allows
<1> QED
  BY <1>1 DEF ClientInv

\* What an answer's headers change.
LEMMA Ingests ==
  ASSUME object \in Client, NEW cookies \in BOOLEAN, NEW sts \in BOOLEAN
  PROVE  LET in == CL!Ingested(cookies, sts) IN
         /\ in \in Client /\ in.cache = object.cache /\ in.at = object.at
         /\ in.url = object.url /\ in.post = object.post /\ in.depth = object.depth
         /\ in.context = object.context /\ in.cookie = object.cookie /\ in.body = object.body
<1> DEFINE third == CL!is_third_party_subresource(object.url, object.context)
           cookied == IF cookies /\ ~third THEN object.jar \cup {object.url.host} ELSE object.jar
           asked == IF sts /\ object.url.tls THEN object.hsts \cup {object.url.host}
                      ELSE object.hsts
<1>1. object.url.host \in Site /\ object.jar \in SUBSET Site /\ object.hsts \in SUBSET Site
  BY DEF Client, CL!URL
<1>2. cookied \in SUBSET Site /\ asked \in SUBSET Site
  BY <1>1
<1>3. CL!Ingested(cookies, sts) = [object EXCEPT !.jar = cookied, !.hsts = asked]
  BY DEF CL!Ingested
<1> HIDE DEF cookied, asked
<1> QED
  BY <1>2, <1>3 DEF Client

\* What the cache keeps of it.
LEMMA Stores ==
  ASSUME NEW c \in Client, NEW allow \in {"open", "private"}, NEW store \in BOOLEAN
  PROVE  LET s == CL!Stored(c, allow, store) IN
         /\ s \in Client /\ s.hsts = c.hsts /\ s.at = c.at
         /\ s.url = c.url /\ s.post = c.post /\ s.depth = c.depth
         /\ s.context = c.context /\ s.cookie = c.cookie /\ s.body = c.body
<1> DEFINE cache == [c.cache EXCEPT ![object.url] = allow]
<1>1. cache \in [Cacheable -> {"none", "open", "private"}]
  BY DEF Client
<1>2. CL!Stored(c, allow, store) \in {c, [c EXCEPT !.cache = cache]}
  BY DEF CL!Stored, Client
<1> HIDE DEF cache
<1>3. LET s == [c EXCEPT !.cache = cache] IN
         /\ s \in Client /\ s.hsts = c.hsts /\ s.at = c.at
         /\ s.url = c.url /\ s.post = c.post /\ s.depth = c.depth
         /\ s.context = c.context /\ s.cookie = c.cookie /\ s.body = c.body
  BY <1>1 DEF Client
<1> QED
  BY <1>2, <1>3

\* Every step of the client keeps its invariant.
LEMMA ClientKept == ASSUME CL!Bounds, ClientInv, CL!Next PROVE ClientInv'
<1>0. object \in Client
  BY DEF ClientInv
<1>1. CASE CL!Request
  <2>1. PICK u \in CL!URL, post \in BOOLEAN, i \in {{}} \cup {{p} : p \in Pages},
             cors \in BOOLEAN, top \in BOOLEAN :
          object' = [object EXCEPT !.at = "admit", !.url = u, !.post = post, !.depth = 0,
                       !.context = CL!Context(i, cors, top), !.cookie = FALSE, !.body = "none"]
    BY <1>1 DEF CL!Request
  <2>2. i \in SUBSET CL!URL /\ 0 \in 0..max_redirects
    BY DEF CL!Bounds
  <2>3. CL!Context(i, cors, top) \in [initiator : SUBSET CL!URL, cors : BOOLEAN, top : BOOLEAN]
    BY <2>2 DEF CL!Context
  <2>4. object' \in Client /\ object'.at = "admit" /\ object'.body = "none"
    BY <1>0, <2>1, <2>2, <2>3 DEF Client
  <2> QED
    BY <2>4 DEF ClientInv, CL!ReadersAllowed
<1>2. CASE CL!Admit
  <2> DEFINE u == CL!Upgraded(object.url)
  <2>1. CASE CL!Refuse
    BY <1>0, <2>1, ClientEnds DEF CL!Refuse, Client
  <2>2. ASSUME ~CL!Exhausted(object.depth), u.tls \/ ~\E i \in object.context.initiator : i.tls,
               u.host \notin Blocked, object' = [object EXCEPT !.url = u, !.at = "lookup"]
        PROVE  ClientInv'
    <3>1. u \in CL!URL /\ (u.host \in object.hsts \cup Preloaded => u.tls)
      BY <1>0 DEF CL!Upgraded, Client, CL!URL
    <3> HIDE DEF u
    <3>2. /\ object' \in Client /\ object'.url = u /\ object'.at = "lookup"
          /\ object'.depth = object.depth /\ object'.hsts = object.hsts
          /\ object'.context = object.context /\ object'.body = object.body
      BY <1>0, <2>2, <3>1 DEF Client
    <3>3. object.depth < max_redirects
      BY <1>0, <2>2 DEF CL!Exhausted, CL!Bounds, Client
    <3>4. Admitted(object')
      BY <2>2, <3>1, <3>2, <3>3 DEF Admitted
    <3>5. object.body = "none"
      BY <1>2 DEF CL!Admit, ClientInv
    <3> QED
      BY <3>2, <3>4, <3>5 DEF ClientInv, CL!ReadersAllowed
  <2> QED
    BY <1>2, <2>1, <2>2 DEF CL!Admit
<1>3. CASE CL!ServeCached
  <2>1. CASE CL!Refuse
    BY <1>0, <2>1, ClientEnds DEF CL!Refuse, Client
  <2>2. ASSUME object.url \in Cacheable,
               CL!cors_allows(object.cache[object.url], object.url, object.context),
               object' = [object EXCEPT !.at = "idle", !.body = object.cache[object.url]]
        PROVE  ClientInv'
    <3>1. object.cache[object.url] \in {"none", "open", "private"}
      BY <1>0, <2>2 DEF Client
    <3> QED
      BY <1>0, <2>2, <3>1, ClientEnds DEF Client
  <2> QED
    BY <1>3, <2>1, <2>2 DEF CL!ServeCached
<1>4. CASE CL!Send
  <2> DEFINE cookie == /\ ~CL!is_third_party_subresource(object.url, object.context)
                       /\ object.url.host \in object.jar
  <2>1. object' = [object EXCEPT !.at = "wait", !.cookie = cookie] /\ cookie \in BOOLEAN
    BY <1>4 DEF CL!Send
  <2>2. cookie => ~CL!is_third_party_subresource(object.url, object.context)
    OBVIOUS
  <2> HIDE DEF cookie
  <2>3. /\ object' \in Client /\ object'.url = object.url /\ object'.at = "wait"
        /\ object'.depth = object.depth /\ object'.hsts = object.hsts /\ object'.cookie = cookie
        /\ object'.context = object.context /\ object'.body = object.body
    BY <1>0, <2>1 DEF Client
  <2>4. Admitted(object) /\ object.body = "none"
    BY <1>4 DEF CL!Send, ClientInv
  <2> QED
    BY <2>2, <2>3, <2>4 DEF ClientInv, Admitted, CL!ReadersAllowed
<1>5. CASE CL!Unanswered
  BY <1>0, <1>5, ClientEnds DEF CL!Unanswered, CL!Refuse, Client
<1>6. CASE CL!Answer
  <2>1. PICK cookies \in BOOLEAN, sts \in BOOLEAN, store \in BOOLEAN,
             allow \in {"open", "private"} :
          LET in == CL!Ingested(cookies, sts) IN
          object' = IF CL!cors_allows(allow, object.url, object.context)
                      THEN [CL!Stored(in, allow, store) EXCEPT !.at = "idle", !.body = allow]
                      ELSE [in EXCEPT !.at = "idle"]
    BY <1>6 DEF CL!Answer
  <2> DEFINE in == CL!Ingested(cookies, sts)
             kept == CL!Stored(in, allow, store)
  <2>2. /\ in \in Client /\ in.url = object.url /\ in.context = object.context
        /\ in.body = object.body
    BY <1>0, Ingests
  <2> HIDE DEF in
  <2>3. kept \in Client /\ kept.url = in.url /\ kept.context = in.context
    BY <2>2, Stores
  <2> HIDE DEF kept
  <2>4. CASE CL!cors_allows(allow, object.url, object.context)
    <3>1. object' = [kept EXCEPT !.at = "idle", !.body = allow]
      BY <2>1, <2>4 DEF in, kept
    <3>2. /\ object' \in Client /\ object'.at = "idle" /\ object'.body = allow
          /\ object'.url = object.url /\ object'.context = object.context
      BY <2>2, <2>3, <3>1 DEF Client
    <3> QED
      BY <2>4, <3>2, ClientEnds
  <2>5. CASE ~CL!cors_allows(allow, object.url, object.context)
    <3>1. object' = [in EXCEPT !.at = "idle"]
      BY <2>1, <2>5 DEF in
    <3>2. /\ object' \in Client /\ object'.at = "idle" /\ object'.body = object.body
          /\ object'.url = object.url /\ object'.context = object.context
      BY <2>2, <3>1 DEF Client
    <3> QED
      BY <3>2, ClientEnds
  <2> QED
    BY <2>4, <2>5
<1>7. CASE CL!NotModified
  <2>1. PICK cookies \in BOOLEAN, sts \in BOOLEAN, allow \in {"open", "private"} :
          LET in == CL!Ingested(cookies, sts) IN
          object' = IF CL!cors_allows(allow, object.url, object.context)
                      THEN [in EXCEPT !.at = "idle", !.body = allow]
                      ELSE [in EXCEPT !.at = "idle"]
    BY <1>7 DEF CL!NotModified
  <2> DEFINE in == CL!Ingested(cookies, sts)
  <2>2. /\ in \in Client /\ in.url = object.url /\ in.context = object.context
        /\ in.body = object.body
    BY <1>0, Ingests
  <2> HIDE DEF in
  <2>3. CASE CL!cors_allows(allow, object.url, object.context)
    <3>1. object' = [in EXCEPT !.at = "idle", !.body = allow]
      BY <2>1, <2>3 DEF in
    <3>2. /\ object' \in Client /\ object'.at = "idle" /\ object'.body = allow
          /\ object'.url = object.url /\ object'.context = object.context
      BY <2>2, <3>1 DEF Client
    <3> QED
      BY <2>3, <3>2, ClientEnds
  <2>4. CASE ~CL!cors_allows(allow, object.url, object.context)
    <3>1. object' = [in EXCEPT !.at = "idle"]
      BY <2>1, <2>4 DEF in
    <3>2. /\ object' \in Client /\ object'.at = "idle" /\ object'.body = object.body
          /\ object'.url = object.url /\ object'.context = object.context
      BY <2>2, <3>1 DEF Client
    <3> QED
      BY <3>2, ClientEnds
  <2> QED
    BY <2>3, <2>4
<1>8. CASE CL!Redirect
  <2>1. PICK cookies \in BOOLEAN, sts \in BOOLEAN, store \in BOOLEAN, keeps \in BOOLEAN,
             allow \in {"open", "private"}, u \in CL!URL :
          LET in == CL!Ingested(cookies, sts) IN
          IF CL!cors_allows(allow, object.url, object.context)
            THEN \/ object' = CL!Redirected(CL!Stored(in, allow, store), u, object.post /\ keeps)
                 \/ object' = [CL!Stored(in, allow, store) EXCEPT !.at = "idle"]
            ELSE object' = [in EXCEPT !.at = "idle"]
    BY <1>8 DEF CL!Redirect
  <2> DEFINE in == CL!Ingested(cookies, sts)
             kept == CL!Stored(in, allow, store)
             post == object.post /\ keeps
  <2>2. /\ in \in Client /\ in.url = object.url /\ in.context = object.context
        /\ in.body = object.body /\ in.depth = object.depth
    BY <1>0, Ingests
  <2>3. post \in BOOLEAN
    OBVIOUS
  <2> HIDE DEF in, post
  <2>4. /\ kept \in Client /\ kept.url = in.url /\ kept.context = in.context
        /\ kept.body = in.body /\ kept.depth = in.depth
    BY <2>2, Stores
  <2> HIDE DEF kept
  <2>5. CASE /\ CL!cors_allows(allow, object.url, object.context)
             /\ object' = CL!Redirected(kept, u, post)
    <3>1. object' = [kept EXCEPT !.at = "admit", !.url = u, !.post = post,
                                 !.depth = kept.depth + 1]
      BY <2>4, <2>5 DEF CL!Redirected, Client
    <3>2. object.depth < max_redirects /\ object.body = "none"
      BY <1>8 DEF CL!Redirect, ClientInv, Admitted
    <3>3. kept.depth + 1 \in 0..max_redirects
      BY <1>0, <2>2, <2>4, <3>2 DEF Client, CL!Bounds
    <3>4. object' \in Client /\ object'.at = "admit" /\ object'.body = "none"
      BY <2>2, <2>3, <2>4, <3>1, <3>2, <3>3 DEF Client
    <3> QED
      BY <3>4 DEF ClientInv, CL!ReadersAllowed
  <2>7. CASE object' = [kept EXCEPT !.at = "idle"]
    <3>1. /\ object' \in Client /\ object'.at = "idle" /\ object'.body = object.body
          /\ object'.url = object.url /\ object'.context = object.context
      BY <2>2, <2>4, <2>7 DEF Client
    <3> QED
      BY <3>1, ClientEnds
  <2>6. CASE ~CL!cors_allows(allow, object.url, object.context)
    <3>1. object' = [in EXCEPT !.at = "idle"]
      BY <2>1, <2>6 DEF in
    <3>2. /\ object' \in Client /\ object'.at = "idle" /\ object'.body = object.body
          /\ object'.url = object.url /\ object'.context = object.context
      BY <2>2, <3>1 DEF Client
    <3> QED
      BY <3>2, ClientEnds
  <2> QED
    BY <2>1, <2>5, <2>6, <2>7 DEF in, kept, post
<1>9. CASE CL!Evict
  <2>1. PICK u \in Cacheable : object' = [object EXCEPT !.cache[u] = "none"]
    BY <1>9 DEF CL!Evict
  <2> DEFINE cache == [object.cache EXCEPT ![u] = "none"]
  <2>2. cache \in [Cacheable -> {"none", "open", "private"}]
    BY <1>0 DEF Client
  <2>3. object' = [object EXCEPT !.cache = cache]
    BY <1>0, <2>1 DEF Client
  <2> HIDE DEF cache
  <2>4. /\ object' \in Client /\ object'.at = object.at /\ object'.body = object.body
        /\ object'.url = object.url /\ object'.context = object.context
    BY <1>0, <2>2, <2>3 DEF Client
  <2> QED
    BY <1>9, <2>4, ClientEnds DEF CL!Evict
<1> QED
  BY <1>1, <1>2, <1>3, <1>4, <1>5, <1>6, <1>7, <1>8, <1>9 DEF CL!Next, CL!Step

\* The invariant has what the run checks, and the types.
LEMMA ClientHolds ==
  ASSUME ClientInv PROVE CL!WireKeepsPolicy /\ CL!ReadersAllowed /\ CL!TypeOK
<1>1. CL!TypeOK
  BY DEF ClientInv, Client, CL!TypeOK
<1> QED
  BY <1>1 DEF ClientInv, Admitted, CL!WireKeepsPolicy

----------------------------------------------------------------------------
(* Cookie jar.  The file lags the jar while it is written, and else holds what the jar
   would keep over a restart. *)

\* What SequencesExt's InsertAt does to each place.
LEMMA InsertedAt ==
  ASSUME NEW S, NEW s \in Seq(S), NEW p \in 1..(Len(s) + 1), NEW e \in S
  PROVE  LET t == CJ!InsertAt(s, p, e) IN
         /\ t \in Seq(S) /\ Len(t) = Len(s) + 1
         /\ \A i \in 1..(Len(s) + 1) :
              t[i] = IF i < p THEN s[i] ELSE IF i = p THEN e ELSE s[i - 1]
<1> DEFINE a == SubSeq(s, 1, p - 1)
           b == SubSeq(s, p, Len(s))
<1>0. Len(s) \in Nat /\ DOMAIN s = 1..Len(s) /\ \A i \in 1..Len(s) : s[i] \in S
  OBVIOUS
<1>1. /\ a \in Seq(S) /\ Len(a) = p - 1
      /\ \A i \in 1..(p - 1) : a[i] = s[i]
  <2>1. \A i \in 1..(p - 1) : s[i] \in S
    BY <1>0
  <2> QED
    BY <1>0, <2>1, SubSeqProperties
<1>2. /\ b \in Seq(S) /\ Len(b) = Len(s) - p + 1
      /\ \A i \in 1..(Len(s) - p + 1) : b[i] = s[p + i - 1]
  <2>1. \A i \in p..Len(s) : s[i] \in S
    BY <1>0
  <2> QED
    BY <1>0, <2>1, SubSeqProperties
<1>3. CJ!InsertAt(s, p, e) = a \o <<e>> \o b
  BY DEF CJ!InsertAt
<1> HIDE DEF a, b
<1>4. /\ a \o <<e>> \in Seq(S) /\ Len(a \o <<e>>) = p
      /\ \A i \in 1..p : (a \o <<e>>)[i] = IF i <= p - 1 THEN a[i] ELSE e
  BY <1>0, <1>1
<1> DEFINE c == a \o <<e>>
<1>5. c \in Seq(S) /\ Len(c) = p /\ \A i \in 1..p : c[i] = IF i < p THEN s[i] ELSE e
  BY <1>0, <1>1, <1>4
<1>6. CJ!InsertAt(s, p, e) = c \o b
  BY <1>3
<1> HIDE DEF c
<1>7. /\ c \o b \in Seq(S) /\ Len(c \o b) = Len(s) + 1
      /\ \A i \in 1..(Len(s) + 1) : (c \o b)[i] = IF i <= p THEN c[i] ELSE b[i - p]
  <2>1. Len(c) + Len(b) = Len(s) + 1 /\ p = Len(c)
    BY <1>0, <1>2, <1>5
  <2> QED
    BY <1>2, <1>5, <2>1, ConcatProperties
<1>8. \A i \in 1..(Len(s) + 1) : (c \o b)[i] = IF i < p THEN s[i] ELSE IF i = p THEN e ELSE s[i - 1]
  BY <1>0, <1>2, <1>5, <1>7
<1> QED
  BY <1>6, <1>7, <1>8

\* Longer paths come first.
Sorted(cs) == \A i, j \in DOMAIN cs : i < j => Len(cs[i].path) >= Len(cs[j].path)

\* A cookie put in its place leaves them so.
LEMMA PlacedSorted ==
  ASSUME CJ!Bounds, NEW cs \in Seq(Cookies), NEW c \in Cookies
  PROVE  /\ CJ!Placed(cs, c) \in Seq(Cookies)
         /\ \A i \in DOMAIN CJ!Placed(cs, c) :
              CJ!Placed(cs, c)[i] = c \/ \E j \in DOMAIN cs : CJ!Placed(cs, c)[i] = cs[j]
         /\ Sorted(cs) => Sorted(CJ!Placed(cs, c))
<1> DEFINE m == Len(cs)
           length == [i \in 1..m |-> Len(cs[i].path)]
           l == Len(c.path)
           Fits(n) == /\ \A i \in 1..n : Len(cs[i].path) >= Len(c.path)
                      /\ n < Len(cs) => Len(cs[n + 1].path) < Len(c.path)
           n == CHOOSE n \in 0..Len(cs) : Fits(n)
           t == CJ!Placed(cs, c)
<1>0. m \in Nat /\ DOMAIN cs = 1..m /\ l \in Nat /\ \A i \in 1..m : length[i] \in Nat
  <2>1. \A d \in Cookies : d.path \in Seq(Label)
    BY DEF CJ!Bounds, CJ!Parts
  <2>2. \A d \in Cookies : Len(d.path) \in Nat
    BY <2>1
  <2> QED
    BY <2>2
<1>1. n \in 0..m /\ (\A i \in 1..n : length[i] >= l) /\ (n < m => length[n + 1] < l)
  <2> DEFINE short == {k \in 0..m : k < m => length[k + 1] < l}
  <2>1. short \subseteq Nat /\ m \in short
    BY <1>0
  <2>2. PICK k \in short : \A j \in short : k <= j
    <3> HIDE DEF short
    <3> QED
      BY <2>1, LeastMember
  <2>3. ASSUME NEW i \in 1..k PROVE length[i] >= l
    <3>0. k \in 0..m
      BY <2>2
    <3>1. i - 1 \in 0..m /\ i - 1 < k /\ i - 1 < m /\ (i - 1) + 1 = i /\ i \in 1..m
      <4> HIDE DEF m, short
      <4> QED
        BY <1>0, <3>0
    <3>2. i - 1 \notin short
      <4> HIDE DEF m, short
      <4> QED
        BY <1>0, <2>2, <3>0, <3>1
    <3>3. ~(length[i] < l)
      <4> HIDE DEF m, length, l
      <4> QED
        BY <3>1, <3>2
    <3> HIDE DEF length, l
    <3> QED
      BY <1>0, <3>1, <3>3
  <2>4. k \in 0..m /\ Fits(k)
    <3>1. \A i \in 1..k : i \in 1..m /\ length[i] = Len(cs[i].path)
      BY <1>0, <2>2
    <3>2. k < m => k + 1 \in 1..m /\ length[k + 1] = Len(cs[k + 1].path)
      BY <1>0, <2>2
    <3> QED
      BY <2>2, <2>3, <3>1, <3>2
  <2>5. n \in 0..m /\ Fits(n)
    <3> HIDE DEF Fits
    <3> QED
      BY <2>4
  <2>6. \A i \in 1..n : i \in 1..m /\ length[i] = Len(cs[i].path)
    BY <1>0, <2>5
  <2>7. n < m => n + 1 \in 1..m /\ length[n + 1] = Len(cs[n + 1].path)
    BY <1>0, <2>5
  <2> HIDE DEF n
  <2> QED
    BY <2>5, <2>6, <2>7
<1>2. t = CJ!InsertAt(cs, n + 1, c)
  BY DEF CJ!Placed
<1> HIDE DEF n, t
<1>3. /\ t \in Seq(Cookies) /\ Len(t) = m + 1
      /\ \A i \in 1..(m + 1) :
           t[i] = IF i < n + 1 THEN cs[i] ELSE IF i = n + 1 THEN c ELSE cs[i - 1]
  <2>1. n + 1 \in 1..(Len(cs) + 1)
    BY <1>0, <1>1
  <2> QED
    BY <1>2, <2>1, InsertedAt
<1>4. DOMAIN t = 1..(m + 1)
  BY <1>0, <1>3
<1>5. \A i \in DOMAIN t : t[i] = c \/ \E j \in DOMAIN cs : t[i] = cs[j]
  <2> TAKE i \in DOMAIN t
  <2>1. CASE i < n + 1
    BY <1>0, <1>1, <1>3, <1>4, <2>1
  <2>2. CASE i = n + 1
    BY <1>0, <1>1, <1>3, <1>4, <2>2
  <2>3. CASE i > n + 1
    <3>1. i - 1 \in DOMAIN cs /\ t[i] = cs[i - 1]
      BY <1>0, <1>1, <1>3, <1>4, <2>3
    <3> QED
      BY <3>1
  <2> QED
    BY <1>0, <1>1, <1>4, <2>1, <2>2, <2>3
<1>6. ASSUME Sorted(cs) PROVE Sorted(t)
  <2> DEFINE lt == [i \in 1..(m + 1) |-> Len(t[i].path)]
  <2>1. \A i \in 1..(m + 1) :
          lt[i] = IF i < n + 1 THEN length[i] ELSE IF i = n + 1 THEN l ELSE length[i - 1]
    <3> TAKE i \in 1..(m + 1)
    <3>1. CASE i < n + 1
      BY <1>0, <1>1, <1>3, <3>1
    <3>2. CASE i = n + 1
      BY <1>0, <1>1, <1>3, <3>2
    <3>3. CASE i > n + 1
      BY <1>0, <1>1, <1>3, <3>3
    <3> QED
      BY <1>0, <1>1, <3>1, <3>2, <3>3
  <2>2. \A i, j \in 1..m : i < j => length[i] >= length[j]
    BY <1>0, <1>6 DEF Sorted
  <2> SUFFICES ASSUME NEW i \in 1..(m + 1), NEW j \in 1..(m + 1), i < j PROVE lt[i] >= lt[j]
    BY <1>4 DEF Sorted
  <2> HIDE DEF lt, length, l
  <2>3. CASE j < n + 1
    BY <1>0, <1>1, <2>1, <2>2, <2>3
  <2>4. CASE j = n + 1
    BY <1>0, <1>1, <2>1, <2>4
  <2>5. CASE j > n + 1 /\ i < n + 1
    <3>1. lt[i] = length[i] /\ lt[j] = length[j - 1] /\ i \in 1..m /\ j - 1 \in 1..m
      BY <1>0, <1>1, <2>1, <2>5
    <3>2. i < j - 1
      BY <1>0, <1>1, <2>5
    <3> QED
      BY <2>2, <3>1, <3>2
  <2>6. CASE j > n + 1 /\ i = n + 1
    <3>1. lt[i] = l /\ lt[j] = length[j - 1] /\ n + 1 \in 1..m /\ j - 1 \in 1..m /\ n < m
      BY <1>0, <1>1, <2>1, <2>6
    <3>2. length[n + 1] < l
      BY <1>1, <3>1
    <3>3. n + 1 = j - 1 \/ n + 1 < j - 1
      BY <1>0, <1>1, <2>6
    <3>4. length[j - 1] <= length[n + 1]
      BY <1>0, <2>2, <3>1, <3>3
    <3> QED
      BY <1>0, <3>1, <3>2, <3>4
  <2>7. CASE j > n + 1 /\ i > n + 1
    <3>1. /\ lt[i] = length[i - 1] /\ lt[j] = length[j - 1]
          /\ i - 1 \in 1..m /\ j - 1 \in 1..m /\ i - 1 < j - 1
      BY <1>0, <1>1, <2>1, <2>7
    <3> QED
      BY <2>2, <3>1
  <2> QED
    BY <1>0, <1>1, <2>3, <2>4, <2>5, <2>6, <2>7
<1> QED
  BY <1>3, <1>5, <1>6 DEF t

\* What goes out is sorted, and of the cookies it is made of.
LEMMA ByPathSorted ==
  ASSUME CJ!Bounds, NEW cs \in Seq(Cookies)
  PROVE  /\ CJ!ByPath(cs) \in Seq(Cookies) /\ Sorted(CJ!ByPath(cs))
         /\ \A i \in DOMAIN CJ!ByPath(cs) : \E j \in DOMAIN cs : CJ!ByPath(cs)[i] = cs[j]
<1> DEFINE m == Len(cs)
           D == Seq(Cookies)
           nil == <<>>
           F == [p \in (1..m) \X D |-> CJ!Placed(p[2], cs[p[1]])]
           Step(sorted) == [n \in 0..m |-> IF n = 0 THEN nil ELSE CJ!Placed(sorted[n - 1], cs[n])]
           rec == CHOOSE sorted : sorted = Step(sorted)
<1>0. m \in Nat /\ nil \in D /\ DOMAIN cs = 1..m /\ \A n \in 1..m : cs[n] \in Cookies
  OBVIOUS
<1>1. \A f \in D, c \in Cookies : CJ!Placed(f, c) \in D
  BY PlacedSorted
<1>2. CJ!ByPath(cs) = rec[m]
  BY DEF CJ!ByPath
<1>3. DOMAIN nil = {}
  OBVIOUS
<1> HIDE DEF m, nil
<1>4. F \in [(1..m) \X D -> D]
  <2> HIDE DEF D
  <2>1. ASSUME NEW p \in (1..m) \X D PROVE CJ!Placed(p[2], cs[p[1]]) \in D
    <3>1. p[1] \in 1..m /\ p[2] \in D
      OBVIOUS
    <3> QED
      BY <1>0, <1>1, <3>1
  <2> QED
    BY <2>1
<1>5. \A i \in 1..m, f \in D : F[<<i, f>>] = CJ!Placed(f, cs[i])
  OBVIOUS
<1> HIDE DEF F
<1>6. PICK it \in [0..m -> D] : it[0] = nil /\ \A i \in 1..m : it[i] = F[<<i, it[i - 1]>>]
  <2> HIDE DEF D
  <2>1. PICK it \in [0..m -> D] : Iterates(it, nil, F, m)
    BY <1>0, <1>4, Iterated
  <2> QED
    BY <2>1 DEF Iterates
<1>7. \A i \in 1..m : i - 1 \in 0..m /\ it[i] = CJ!Placed(it[i - 1], cs[i])
  <2> TAKE i \in 1..m
  <2>1. i - 1 \in 0..m
    BY <1>0
  <2> HIDE DEF D
  <2> QED
    BY <1>5, <1>6, <2>1
<1>8. it = Step(it)
  <2>1. it = [n \in 0..m |-> it[n]]
    BY <1>6
  <2>2. ASSUME NEW n \in 0..m
        PROVE  it[n] = IF n = 0 THEN nil ELSE CJ!Placed(it[n - 1], cs[n])
    <3>1. CASE n = 0
      BY <1>6, <3>1
    <3>2. CASE n \in 1..m
      <4>1. n # 0
        BY <1>0, <3>2
      <4>2. it[n] = CJ!Placed(it[n - 1], cs[n])
        BY <1>7, <3>2
      <4> QED
        BY <4>1, <4>2
    <3> QED
      BY <1>0, <3>1, <3>2
  <2> QED
    BY <2>1, <2>2
<1>9. rec = Step(rec)
  <2> HIDE DEF Step
  <2> QED
    BY <1>8
<1> HIDE DEF rec
<1>10. \A n \in 0..m : rec[n] = IF n = 0 THEN nil ELSE CJ!Placed(rec[n - 1], cs[n])
  BY <1>9
<1>11. Alike(rec, it, m)
  <2>1. rec[0] = it[0]
    <3>1. 0 \in 0..m
      BY <1>0
    <3>2. rec[0] = nil
      BY <1>10, <3>1
    <3> QED
      BY <1>6, <3>2
  <2>2. ASSUME NEW i \in 1..m PROVE rec[i - 1] = it[i - 1] => rec[i] = it[i]
    <3>1. i \in 0..m /\ i # 0
      BY <1>0
    <3> QED
      BY <1>7, <1>10, <3>1
  <2> QED
    BY <2>1, <2>2 DEF Alike
<1>12. rec[m] = it[m]
  BY <1>0, <1>11, Agree
<1> DEFINE B == {n \in 0..m : /\ Sorted(it[n])
                              /\ \A i \in DOMAIN it[n] : \E j \in DOMAIN cs : it[n][i] = cs[j]}
<1>13. 0 \in B
  BY <1>0, <1>3, <1>6 DEF Sorted
<1>14. \A n \in 0..m : n \in B /\ n < m => n + 1 \in B
  <2> HIDE DEF B, D
  <2> TAKE n \in 0..m
  <2> HAVE n \in B /\ n < m
  <2>1. n + 1 \in 1..m /\ (n + 1) - 1 = n /\ n + 1 \in 0..m
    BY <1>0
  <2>2. it[n] \in D /\ cs[n + 1] \in Cookies /\ it[n + 1] = CJ!Placed(it[n], cs[n + 1])
    BY <1>0, <1>6, <1>7, <2>1
  <2>3. /\ \A i \in DOMAIN it[n + 1] :
             it[n + 1][i] = cs[n + 1] \/ \E j \in DOMAIN it[n] : it[n + 1][i] = it[n][j]
        /\ Sorted(it[n]) => Sorted(it[n + 1])
    <3>1. ASSUME NEW f \in Seq(Cookies), NEW c \in Cookies, NEW t, t = CJ!Placed(f, c)
          PROVE  /\ \A i \in DOMAIN t : t[i] = c \/ \E j \in DOMAIN f : t[i] = f[j]
                 /\ Sorted(f) => Sorted(t)
      BY <3>1, PlacedSorted
    <3> QED
      BY <2>2, <3>1 DEF D
  <2>4. Sorted(it[n]) /\ \A i \in DOMAIN it[n] : \E j \in DOMAIN cs : it[n][i] = cs[j]
    BY DEF B
  <2>5. Sorted(it[n + 1]) /\ \A i \in DOMAIN it[n + 1] : \E j \in DOMAIN cs : it[n + 1][i] = cs[j]
    BY <1>0, <2>1, <2>3, <2>4
  <2> QED
    BY <2>1, <2>5 DEF B
<1>15. m \in B
  <2>1. \A n \in 0..m : n \in B
    <3> HIDE DEF B
    <3> QED
      BY <1>0, <1>13, <1>14, UpTo
  <2> QED
    BY <1>0, <2>1
<1>16. /\ it[m] \in Seq(Cookies) /\ Sorted(it[m])
       /\ \A i \in DOMAIN it[m] : \E j \in DOMAIN cs : it[m][i] = cs[j]
  BY <1>0, <1>6, <1>15
<1> QED
  BY <1>2, <1>12, <1>16

\* The jar's state, whole.
Jar == [cookies : Seq(Cookies), disk : Seq(Cookies), tmp : Seq(Cookies),
        at : {"idle", "write", "rename"}, now : 1..MaxTime, stale : BOOLEAN,
        request : Seq(Requests), header : Seq(Cookies)]

\* One version of each cookie.
Distinct(cs) == \A i, j \in DOMAIN cs : i # j => ~CJ!SameCookie(cs[i], cs[j])

\* A file has no session's cookies.
Lasting(cs) == \A i \in DOMAIN cs : cs[i].expires # CJ!Session

\* The cookies of cs that live on at a time.
AliveAt(cs, now) == Filtered(cs, {c \in Cookies : c.expires > now})

\* The header's cookies are the jar's and apply, the longest path first.
HeaderOf(s) ==
  /\ Sorted(s.header)
  /\ \A i \in DOMAIN s.header : \E j \in DOMAIN s.cookies : s.header[i] = s.cookies[j]
  /\ \A i \in DOMAIN s.header : \A k \in DOMAIN s.request : CJ!Applies(s.header[i], s.request[k])

\* The jar's invariant: the file beside is what a rename shall put there, and an idle jar
\* that nothing made stale has on disk what it has in memory.
JarInv ==
  /\ object \in Jar
  /\ Distinct(object.cookies) /\ Distinct(object.disk) /\ Distinct(object.tmp)
  /\ Lasting(object.disk) /\ Lasting(object.tmp)
  /\ object.at = "rename" => object.tmp = CJ!Persistent(object.cookies)
  /\ object.at = "idle" /\ ~object.stale
       => AliveAt(object.disk, object.now) = AliveAt(object.cookies, object.now)
  /\ HeaderOf(object)

\* What is kept of distinct cookies is distinct, and is as lasting.
LEMMA RetainedDistinct ==
  ASSUME NEW cs \in Seq(Cookies), NEW S
  PROVE  /\ Filtered(cs, S) \in Seq(Cookies)
         /\ Distinct(cs) => Distinct(Filtered(cs, S))
         /\ Lasting(cs) => Lasting(Filtered(cs, S))
<1> DEFINE f == Filtered(cs, S)
<1>1. /\ f \in Seq(Cookies)
      /\ \A i \in DOMAIN f : f[i] \in S /\ \E j \in DOMAIN cs : f[i] = cs[j]
      /\ \A i, j \in DOMAIN f : i # j =>
           \E a, b \in DOMAIN cs : a # b /\ f[i] = cs[a] /\ f[j] = cs[b]
  BY FilteredItems
<1> HIDE DEF f
<1>2. ASSUME Distinct(cs) PROVE Distinct(f)
  <2> SUFFICES ASSUME NEW i \in DOMAIN f, NEW j \in DOMAIN f, i # j
               PROVE  ~CJ!SameCookie(f[i], f[j])
    BY DEF Distinct
  <2>1. PICK a, b \in DOMAIN cs : a # b /\ f[i] = cs[a] /\ f[j] = cs[b]
    BY <1>1
  <2> QED
    BY <1>2, <2>1 DEF Distinct
<1>3. ASSUME Lasting(cs) PROVE Lasting(f)
  BY <1>1, <1>3 DEF Lasting
<1> QED
  BY <1>1, <1>2, <1>3 DEF f

\* insert keeps one version of each cookie.
LEMMA InsertDistinct ==
  ASSUME NEW cs \in Seq(Cookies), NEW c \in Cookies, Distinct(cs)
  PROVE  CJ!Inserted(cs, c) \in Seq(Cookies) /\ Distinct(CJ!Inserted(cs, c))
<1> DEFINE Found == \E i \in DOMAIN cs : CJ!SameCookie(c, cs[i])
<1>0. Len(cs) \in Nat /\ DOMAIN cs = 1..Len(cs)
  OBVIOUS
<1>1. CASE c.expires # CJ!Session /\ c.expires <= object.now
  <2>1. CJ!Inserted(cs, c) = Filtered(cs, {d \in Cookies : ~CJ!SameCookie(c, d)})
    BY <1>1 DEF CJ!Inserted, CJ!Retained, Filtered
  <2> QED
    BY <2>1, RetainedDistinct
<1>2. CASE ~(c.expires # CJ!Session /\ c.expires <= object.now) /\ Found
  <2> DEFINE First(i) == CJ!SameCookie(c, cs[i]) /\ \A j \in 1..(i - 1) : ~CJ!SameCookie(c, cs[j])
             i == CHOOSE i \in DOMAIN cs : First(i)
             same == {k \in DOMAIN cs : CJ!SameCookie(c, cs[k])}
  <2>1. PICK m \in same : \A k \in same : m <= k
    <3>1. same \subseteq Nat /\ same # {}
      BY <1>0, <1>2
    <3> HIDE DEF same
    <3> QED
      BY <3>1, LeastMember
  <2>2. m \in DOMAIN cs /\ First(m)
    <3>1. m \in 1..Len(cs) /\ CJ!SameCookie(c, cs[m])
      BY <1>0, <2>1
    <3>2. ASSUME NEW j \in 1..(m - 1), CJ!SameCookie(c, cs[j]) PROVE FALSE
      <4>1. j \in same /\ ~(m <= j)
        BY <1>0, <3>1, <3>2
      <4> QED
        BY <2>1, <4>1
    <3> QED
      BY <1>0, <3>1, <3>2
  <2>3. i \in DOMAIN cs /\ CJ!SameCookie(c, cs[i])
    <3>1. i \in DOMAIN cs /\ First(i)
      <4> HIDE DEF First
      <4> QED
        BY <2>2
    <3> HIDE DEF i
    <3> QED
      BY <3>1
  <2>4. CJ!Inserted(cs, c) = [cs EXCEPT ![i] = c]
    BY <1>2 DEF CJ!Inserted
  <2> HIDE DEF i
  <2> DEFINE ds == [cs EXCEPT ![i] = c]
  <2>5. ds \in Seq(Cookies)
    BY <2>3
  <2>6. DOMAIN ds = DOMAIN cs /\ ds[i] = c /\ \A k \in DOMAIN cs \ {i} : ds[k] = cs[k]
    BY <2>3
  <2>7. Distinct(ds)
    <3> HIDE DEF ds
    <3> SUFFICES ASSUME NEW k \in DOMAIN cs, NEW j \in DOMAIN cs, k # j
                 PROVE  ~CJ!SameCookie(ds[k], ds[j])
      BY <2>6 DEF Distinct
    <3>1. ~CJ!SameCookie(cs[k], cs[j])
      BY DEF Distinct
    <3> QED
      BY <2>3, <2>6, <3>1 DEF CJ!SameCookie
  <2> QED
    BY <2>4, <2>5, <2>7
<1>3. CASE ~(c.expires # CJ!Session /\ c.expires <= object.now) /\ ~Found
  <2> DEFINE ds == Append(cs, c)
             m == Len(cs)
  <2>1. CJ!Inserted(cs, c) = ds
    BY <1>3 DEF CJ!Inserted
  <2>2. /\ ds \in Seq(Cookies) /\ DOMAIN ds = 1..(m + 1) /\ ds[m + 1] = c
        /\ \A k \in 1..m : ds[k] = cs[k]
    OBVIOUS
  <2>3. m \in Nat /\ DOMAIN cs = 1..m
    OBVIOUS
  <2> HIDE DEF ds, m
  <2>4. ASSUME NEW k \in 1..(m + 1), NEW j \in 1..(m + 1), k # j
        PROVE  ~CJ!SameCookie(ds[k], ds[j])
    <3>1. CASE k \in 1..m /\ j \in 1..m
      BY <2>2, <2>3, <2>4, <3>1 DEF Distinct
    <3>2. CASE k = m + 1 /\ j \in 1..m
      BY <1>3, <2>2, <2>3, <3>2 DEF CJ!SameCookie
    <3>3. CASE k \in 1..m /\ j = m + 1
      BY <1>3, <2>2, <2>3, <3>3 DEF CJ!SameCookie
    <3> QED
      BY <2>3, <2>4, <3>1, <3>2, <3>3
  <2>5. Distinct(ds)
    BY <2>2, <2>4 DEF Distinct
  <2> QED
    BY <2>1, <2>2, <2>5
<1> QED
  BY <1>1, <1>2, <1>3

\* A process that ends forgets no cookie that lives on, in the file it wrote or later.
LEMMA AliveLater ==
  ASSUME NEW cs \in Seq(Cookies), NEW t \in Nat, NEW u \in Nat, t <= u, CJ!Bounds
  PROVE  /\ AliveAt(AliveAt(cs, t), u) = AliveAt(cs, u)
         /\ AliveAt(CJ!Persistent(cs), t) = AliveAt(cs, t)
<1> DEFINE At(n) == {c \in Cookies : c.expires > n}
           P == {c \in Cookies : c.expires # CJ!Session}
<1>0. \A c \in Cookies : c.expires \in Nat
  BY DEF CJ!Bounds
<1>1. \A c \in Cookies : c \in At(u) <=> c \in At(t) /\ c \in At(u)
  BY <1>0
<1>2. \A c \in Cookies : c \in At(t) <=> c \in P /\ c \in At(t)
  BY <1>0 DEF CJ!Session
<1>3. AliveAt(AliveAt(cs, t), u) = Filtered(Filtered(cs, At(t)), At(u))
  BY DEF AliveAt
<1>4. AliveAt(CJ!Persistent(cs), t) = Filtered(Filtered(cs, P), At(t))
  BY DEF AliveAt, CJ!Persistent, CJ!Retained, Filtered
<1>5. AliveAt(cs, u) = Filtered(cs, At(u)) /\ AliveAt(cs, t) = Filtered(cs, At(t))
  BY DEF AliveAt
<1> HIDE DEF At, P
<1>6. Filtered(Filtered(cs, At(t)), At(u)) = Filtered(cs, At(u))
  BY <1>1, FilteredTwice
<1>7. Filtered(Filtered(cs, P), At(t)) = Filtered(cs, At(t))
  BY <1>2, FilteredTwice
<1> QED
  BY <1>3, <1>4, <1>5, <1>6, <1>7

\* The jar starts empty.
LEMMA JarStart == ASSUME CJ!Bounds, CJ!Init PROVE JarInv
<1>1. object \in Jar
  BY DEF CJ!Init, CJ!Bounds, Jar
<1>2. /\ object.cookies = <<>> /\ object.disk = <<>> /\ object.tmp = <<>> /\ object.header = <<>>
      /\ object.at = "idle"
  BY DEF CJ!Init
<1>3. DOMAIN <<>> = {}
  OBVIOUS
<1> QED
  BY <1>1, <1>2, <1>3 DEF JarInv, Distinct, Lasting, Sorted, HeaderOf

\* A header of nothing is sound.
LEMMA NoHeader == ASSUME NEW s, s.header = <<>> PROVE HeaderOf(s)
<1>1. DOMAIN <<>> = {}
  OBVIOUS
<1> QED
  BY <1>1 DEF HeaderOf, Sorted

\* Every step of the jar keeps the invariant.
LEMMA JarKept == ASSUME CJ!Bounds, JarInv, CJ!Next PROVE JarInv'
<1>0. object \in Jar /\ object.now \in Nat /\ MaxTime \in Nat
  BY DEF JarInv, Jar, CJ!Bounds
<1> DEFINE nil == <<>>
<1>00. nil \in Seq(Cookies) /\ nil \in Seq(Requests) /\ \A s : s.header = nil => HeaderOf(s)
  BY NoHeader
<1>1. CASE CJ!Insert
  <2>1. PICK c \in Cookies :
          object' = [object EXCEPT !.cookies = CJ!Inserted(@, c), !.at = "write",
                                   !.request = <<>>, !.header = <<>>]
    BY <1>1 DEF CJ!Insert
  <2> DEFINE cs == CJ!Inserted(object.cookies, c)
  <2>2. cs \in Seq(Cookies) /\ Distinct(cs)
    BY <1>0, InsertDistinct DEF JarInv, Jar
  <2>3. object' = [object EXCEPT !.cookies = cs, !.at = "write",
                                !.request = nil, !.header = nil]
    BY <1>0, <2>1 DEF Jar
  <2> HIDE DEF cs, nil
  <2>4. /\ object' \in Jar /\ object'.at = "write" /\ object'.header = nil
        /\ object'.cookies = cs /\ object'.disk = object.disk /\ object'.tmp = object.tmp
    BY <1>0, <1>00, <2>2, <2>3 DEF Jar
  <2> QED
    BY <1>00, <2>2, <2>4 DEF JarInv
<1>2. CASE CJ!Fails
  <2>1. /\ object' \in Jar /\ object'.at = "idle" /\ object'.stale /\ object'.header = object.header
        /\ object'.cookies = object.cookies /\ object'.disk = object.disk
        /\ object'.tmp = object.tmp
        /\ object'.request = object.request
    BY <1>0, <1>2 DEF CJ!Fails, Jar
  <2> QED
    BY <2>1 DEF JarInv, HeaderOf
<1>3. CASE object.at = "write"
           /\ object' = [object EXCEPT !.tmp = CJ!Persistent(object.cookies), !.at = "rename"]
  <2> DEFINE cs == CJ!Persistent(object.cookies)
             P == {c \in Cookies : c.expires # CJ!Session}
  <2>1. cs = Filtered(object.cookies, P)
    BY DEF CJ!Persistent, CJ!Retained, Filtered
  <2>2. object.cookies \in Seq(Cookies) /\ Distinct(object.cookies)
    BY <1>0 DEF JarInv, Jar
  <2>3. object' = [object EXCEPT !.tmp = cs, !.at = "rename"]
    BY <1>3
  <2> HIDE DEF cs, P
  <2>4. cs \in Seq(Cookies) /\ Distinct(cs)
    BY <2>1, <2>2, RetainedDistinct
  <2>5. Lasting(cs)
    BY <2>1, <2>2, FilteredItems DEF Lasting, P
  <2>6. /\ object' \in Jar /\ object'.at = "rename" /\ object'.header = object.header
        /\ object'.cookies = object.cookies /\ object'.disk = object.disk /\ object'.tmp = cs
        /\ object'.request = object.request
    BY <1>0, <2>3, <2>4 DEF Jar
  <2> QED
    BY <2>4, <2>5, <2>6 DEF JarInv, HeaderOf, cs
<1>4. CASE object.at = "rename"
           /\ object' = [object EXCEPT !.disk = object.tmp, !.at = "idle", !.stale = FALSE]
  <2>1. /\ object' \in Jar /\ object'.at = "idle" /\ object'.header = object.header
        /\ object'.cookies = object.cookies /\ object'.disk = object.tmp /\ object'.tmp = object.tmp
        /\ object'.request = object.request /\ object'.now = object.now
    BY <1>0, <1>4 DEF Jar
  <2>2. AliveAt(object.tmp, object.now) = AliveAt(object.cookies, object.now)
    <3>1. object.tmp = CJ!Persistent(object.cookies) /\ object.cookies \in Seq(Cookies)
      BY <1>0, <1>4 DEF JarInv, Jar
    <3> QED
      BY <1>0, <3>1, AliveLater
  <2> QED
    BY <2>1, <2>2 DEF JarInv, HeaderOf
<1>5. CASE CJ!Send
  <2>1. PICK r \in Requests :
          object' = [object EXCEPT
            !.request = <<r>>,
            !.header = CJ!ByPath(Filtered(object.cookies, {c \in Cookies : CJ!Applies(c, r)}))]
    BY <1>5 DEF CJ!Send, CJ!Retained, Filtered
  <2> DEFINE S == {c \in Cookies : CJ!Applies(c, r)}
             fit == Filtered(object.cookies, S)
             header == CJ!ByPath(fit)
  <2>2. object.cookies \in Seq(Cookies)
    BY <1>0 DEF Jar
  <2>3. object' = [object EXCEPT !.request = <<r>>, !.header = header]
    BY <2>1
  <2>4. \A c \in S : CJ!Applies(c, r)
    OBVIOUS
  <2> HIDE DEF S
  <2>5. /\ fit \in Seq(Cookies)
        /\ \A i \in DOMAIN fit :
             fit[i] \in S /\ \E j \in DOMAIN object.cookies : fit[i] = object.cookies[j]
    BY <2>2, FilteredItems
  <2> HIDE DEF fit
  <2>6. /\ header \in Seq(Cookies) /\ Sorted(header)
        /\ \A i \in DOMAIN header : \E j \in DOMAIN fit : header[i] = fit[j]
    BY <2>5, ByPathSorted
  <2> HIDE DEF header
  <2>7. <<r>> \in Seq(Requests) /\ DOMAIN <<r>> = {1} /\ <<r>>[1] = r
    OBVIOUS
  <2>8. /\ object' \in Jar /\ object'.at = object.at /\ object'.header = header
        /\ object'.cookies = object.cookies /\ object'.disk = object.disk
        /\ object'.tmp = object.tmp
        /\ object'.request = <<r>> /\ object'.now = object.now /\ object'.stale = object.stale
    BY <1>0, <2>3, <2>6, <2>7 DEF Jar
  <2>9. \A i \in DOMAIN header :
          /\ \E j \in DOMAIN object.cookies : header[i] = object.cookies[j]
          /\ CJ!Applies(header[i], r)
    BY <2>4, <2>5, <2>6
  <2>10. HeaderOf(object')
    BY <2>6, <2>7, <2>8, <2>9 DEF HeaderOf
  <2> QED
    BY <2>8, <2>10 DEF JarInv
<1>6. CASE CJ!Tick
  <2>1. /\ object.at = "idle" /\ object.now < MaxTime
        /\ object' = [object EXCEPT !.now = object.now + 1]
    BY <1>0, <1>6 DEF CJ!Tick, Jar
  <2>0. object.now + 1 \in 1..MaxTime
    BY <1>0, <2>1
  <2>2. /\ object' \in Jar /\ object'.at = object.at /\ object'.header = object.header
        /\ object'.cookies = object.cookies /\ object'.disk = object.disk
        /\ object'.tmp = object.tmp
        /\ object'.request = object.request /\ object'.now = object.now + 1
        /\ object'.stale = object.stale
    BY <1>0, <2>0, <2>1 DEF Jar
  <2>3. ASSUME NEW cs \in Seq(Cookies)
        PROVE  AliveAt(AliveAt(cs, object.now), object.now + 1) = AliveAt(cs, object.now + 1)
    <3>1. object.now + 1 \in Nat /\ object.now <= object.now + 1
      BY <1>0
    <3> QED
      BY <1>0, <3>1, AliveLater
  <2>4. object.disk \in Seq(Cookies) /\ object.cookies \in Seq(Cookies)
    BY <1>0 DEF Jar
  <2>5. ~object.stale =>
             AliveAt(object.disk, object.now + 1) = AliveAt(object.cookies, object.now + 1)
    <3>1. HAVE ~object.stale
    <3>2. AliveAt(object.disk, object.now) = AliveAt(object.cookies, object.now)
      BY <2>1, <3>1 DEF JarInv
    <3> QED
      BY <2>3, <2>4, <3>2
  <2> QED
    BY <2>1, <2>2, <2>5 DEF JarInv, HeaderOf
<1>7. CASE CJ!Restart
  <2> DEFINE cs == AliveAt(object.disk, object.now)
  <2>1. object' = [object EXCEPT !.cookies = cs, !.at = "idle", !.stale = FALSE,
                                !.request = nil, !.header = nil]
    BY <1>7 DEF CJ!Restart, CJ!Alive, AliveAt, CJ!Retained, Filtered
  <2>2. object.disk \in Seq(Cookies) /\ Distinct(object.disk)
    BY <1>0 DEF JarInv, Jar
  <2>3. cs \in Seq(Cookies) /\ Distinct(cs)
    BY <2>2, RetainedDistinct DEF AliveAt
  <2>4. AliveAt(cs, object.now) = cs
    BY <1>0, <2>2, AliveLater
  <2> HIDE DEF cs, nil
  <2>5. /\ object' \in Jar /\ object'.at = "idle" /\ object'.header = nil
        /\ object'.cookies = cs /\ object'.disk = object.disk /\ object'.tmp = object.tmp
        /\ object'.now = object.now
    BY <1>0, <1>00, <2>1, <2>3 DEF Jar
  <2>6. AliveAt(object.disk, object.now) = AliveAt(cs, object.now)
    BY <2>4 DEF cs
  <2> QED
    BY <1>00, <2>3, <2>5, <2>6 DEF JarInv
<1> QED
  BY <1>1, <1>2, <1>3, <1>4, <1>5, <1>6, <1>7 DEF CJ!Next, CJ!WriteFile, CJ!RenameFile

\* A prefix agrees with the whole as far as it goes.
LEMMA PrefixBelow ==
  ASSUME NEW S, NEW s \in Seq(S), NEW t \in Seq(S), CJ!IsPrefix(s, t)
  PROVE  CJ!Below(s, t)
<1>1. Len(s) <= Len(t) /\ SubSeq(s, 1, Len(s)) = SubSeq(t, 1, Len(s))
  BY DEF CJ!IsPrefix
<1>2. ASSUME NEW n \in DOMAIN s PROVE s[n] = t[n]
  <2>1. n \in 1..Len(s) /\ Len(s) \in Nat /\ Len(t) \in Nat
    OBVIOUS
  <2>2. SubSeq(s, 1, Len(s))[n] = s[n] /\ SubSeq(t, 1, Len(s))[n] = t[n]
    BY <1>1, <2>1
  <2> QED
    BY <1>1, <2>2
<1> QED
  BY <1>1, <1>2 DEF CJ!Below

\* The invariant has what the run checks, and the types.
LEMMA JarHolds == ASSUME CJ!Bounds, JarInv PROVE CJ!HeaderSound /\ CJ!FileIsJar /\ CJ!TypeOK
<1>1. CJ!HeaderSound
  <2>1. ASSUME NEW i \in DOMAIN object.header, NEW r \in CJ!ToSet(object.request)
        PROVE  LET c == object.header[i] IN
               /\ CJ!Below(c.domain, r.host) /\ CJ!Below(c.path, r.path)
               /\ c.secure => r.tls
               /\ c.partition \subseteq r.outer
               /\ r.cross => /\ c.same_site # "strict"
                             /\ c.same_site = "lax" => r.top /\ r.get
                             /\ c.same_site = "none" => r.tls
    <3> DEFINE c == object.header[i]
    <3>1. PICK k \in DOMAIN object.request : r = object.request[k]
      BY DEF CJ!ToSet
    <3>2. /\ c.secure => r.tls
          /\ CJ!domain_matches(c, r) /\ CJ!path_matches(c, r)
          /\ c.partition # {} => c.partition = r.outer
          /\ r.cross => \/ c.same_site = "lax" /\ r.top /\ r.get
                        \/ c.same_site = "none" /\ c.secure
      BY <3>1 DEF JarInv, HeaderOf, CJ!Applies
    <3>3. r \in Requests /\ c \in Cookies
      BY <3>1 DEF JarInv, Jar
    <3>4. /\ c.domain \in Seq(Label) /\ c.path \in Seq(Label)
          /\ r.host \in Seq(Label) /\ r.path \in Seq(Label)
      BY <3>3 DEF CJ!Bounds, CJ!Parts
    <3>5. CJ!Below(c.domain, r.host)
      BY <3>2, <3>4, PrefixBelow DEF CJ!domain_matches
    <3>6. CJ!Below(c.path, r.path)
      BY <3>2, <3>4, PrefixBelow DEF CJ!path_matches
    <3> HIDE DEF c
    <3> QED
      BY <3>2, <3>5, <3>6 DEF c
  <2>2. \A i, j \in DOMAIN object.header :
          i < j => Len(object.header[i].path) >= Len(object.header[j].path)
    BY DEF JarInv, HeaderOf, Sorted
  <2>3. \A i, j \in DOMAIN object.cookies :
          i # j => ~CJ!SameCookie(object.cookies[i], object.cookies[j])
    BY DEF JarInv, Distinct
  <2> QED
    BY <2>1, <2>2, <2>3 DEF CJ!HeaderSound
<1>2. CJ!FileIsJar
  <2>1. \A c \in CJ!ToSet(object.disk) : c.expires # CJ!Session
    BY DEF JarInv, Lasting, CJ!ToSet
  <2>2. object.at = "idle" /\ ~object.stale => CJ!Alive(object.disk) = CJ!Alive(object.cookies)
    BY DEF JarInv, AliveAt, CJ!Alive, CJ!Retained, Filtered
  <2> QED
    BY <2>1, <2>2 DEF CJ!FileIsJar
<1>3. CJ!TypeOK
  <2>1. /\ object.cookies \in Seq(Cookies) /\ object.disk \in Seq(Cookies)
        /\ object.tmp \in Seq(Cookies) /\ object.request \in Seq(Requests)
    BY DEF JarInv, Jar
  <2>2. CJ!ToSet(object.cookies) \cup CJ!ToSet(object.disk) \cup CJ!ToSet(object.tmp)
          \subseteq Cookies
    BY <2>1 DEF CJ!ToSet
  <2>3. CJ!ToSet(object.request) \subseteq Requests
    BY <2>1 DEF CJ!ToSet
  <2>4. CJ!ToSet(object.header) \subseteq CJ!ToSet(object.cookies)
    BY DEF JarInv, HeaderOf, CJ!ToSet
  <2>5. object.at \in {"idle", "write", "rename"} /\ object.now \in 1..MaxTime
    BY DEF JarInv, Jar
  <2> QED
    BY <2>2, <2>3, <2>4, <2>5 DEF CJ!TypeOK
<1> QED
  BY <1>1, <1>2, <1>3

----------------------------------------------------------------------------
(* Body.  What was read and what is to come make up the whole, what was read and what
   the frame promises keep under the cap, and each file on disk is that of the sink or
   of the layer below it. *)

\* A sink within the cap, and the state of a body, whole.
Sink == [total : 0..max_bytes, spilled : BOOLEAN]

Body == [at : {"read", "decode", "layer", "done", "failed", "dropped"},
         framing : {"length", "chunked", "close"}, left : 0..(max_bytes + 1),
         due : 0..(max_bytes + 1), sink : Sink, input : {"none", "memory", "file"},
         layers : 0..MaxLayers, files : 0..2, whole : 0..(max_bytes + 1)]

\* The files of a sink, and of what a layer is read from.
Spills(sink) == IF sink.spilled THEN 1 ELSE 0
Below(input) == IF input = "file" THEN 1 ELSE 0

\* What is promised still fits, and the frame promises what its kind does.
Reading(s) ==
  /\ s.sink.total + s.due <= max_bytes /\ s.input = "none" /\ s.files = Spills(s.sink)
  /\ s.framing = "length" => s.due = s.left
  /\ s.framing = "close" => s.due = 0

\* A source has been read to its end.
Complete(s) ==
  /\ s.sink.total = s.whole /\ s.files = Spills(s.sink)
  /\ s.input = IF s.sink.spilled THEN "file" ELSE "memory"

\* The body's invariant.
BodyInv ==
  /\ object \in Body
  /\ object.due <= object.left
  /\ object.at \notin {"read", "failed"} => object.due = 0
  /\ object.sink.spilled <=> object.sink.total > RB!Threshold
  /\ object.at \in {"read", "layer"} => object.sink.total + object.left = object.whole
  /\ object.at = "read" => Reading(object)
  /\ object.at = "layer" => object.files = Below(object.input) + Spills(object.sink)
  /\ object.at \in {"decode", "done"} => Complete(object)
  /\ object.at = "dropped" => object.files = 0

\* What the bounds say of the numbers.
LEMMA Caps ==
  ASSUME RB!Bounds
  PROVE  max_bytes \in Nat /\ MaxLayers \in Nat /\ RB!Threshold \in Nat /\ RB!Threshold <= max_bytes
BY DEF RB!Bounds, RB!Threshold

\* A body of which nothing has been read.
LEMMA BodyStart == ASSUME RB!Bounds, RB!Init PROVE BodyInv
<1>1. PICK framing \in {"length", "chunked", "close"}, n \in 0..(max_bytes + 1),
           layers \in 0..MaxLayers :
        object = [at |-> IF framing = "length" /\ n > max_bytes THEN "failed" ELSE "read",
                  framing |-> framing, left |-> n, due |-> IF framing = "length" THEN n ELSE 0,
                  sink |-> RB!Empty, input |-> "none", layers |-> layers, files |-> 0, whole |-> n]
  BY DEF RB!Init
<1> DEFINE at == IF framing = "length" /\ n > max_bytes THEN "failed" ELSE "read"
           due == IF framing = "length" THEN n ELSE 0
<1>2. /\ at \in {"failed", "read"} /\ due \in 0..n /\ n \in Nat
      /\ (framing = "length" => due = n) /\ (framing = "close" => due = 0)
      /\ (at = "read" => due <= max_bytes)
  BY Caps
<1>3. RB!Empty \in Sink /\ RB!Empty.total = 0 /\ RB!Empty.spilled = FALSE
  BY Caps DEF RB!Empty, Sink
<1>4. /\ object.at = at /\ object.framing = framing /\ object.left = n /\ object.due = due
      /\ object.sink = RB!Empty /\ object.input = "none" /\ object.files = 0 /\ object.whole = n
      /\ object = [at |-> at, framing |-> framing, left |-> n, due |-> due, sink |-> RB!Empty,
                   input |-> "none", layers |-> layers, files |-> 0, whole |-> n]
  BY <1>1
<1> HIDE DEF at, due
<1>5. object \in Body
  BY <1>2, <1>3, <1>4, Caps DEF Body
<1> QED
  BY <1>2, <1>3, <1>4, <1>5, Caps DEF BodyInv, Reading, Spills

\* Bytes that still fit go into the sink, and into a file with the rest past the threshold.
LEMMA Moves ==
  ASSUME RB!Bounds, object \in Body, object.sink.spilled <=> object.sink.total > RB!Threshold,
         NEW n \in 1..object.left, object.sink.total + n <= max_bytes,
         ~object.sink.spilled => object.files < 2
  PROVE  LET m == RB!Moved(n) IN
         /\ m \in Body /\ m.at = object.at /\ m.framing = object.framing
         /\ m.left = object.left - n /\ m.due = object.due
         /\ m.sink.total = object.sink.total + n
         /\ m.sink.spilled <=> m.sink.total > RB!Threshold
         /\ m.input = object.input /\ m.layers = object.layers /\ m.whole = object.whole
         /\ m.files = object.files + Spills(m.sink) - Spills(object.sink)
<1> DEFINE sink == RB!Written(object.sink, n)
           files == IF sink.spilled /\ ~object.sink.spilled THEN object.files + 1 ELSE object.files
           left == object.left - n
<1>1. /\ object.sink \in Sink /\ object.sink.total \in 0..max_bytes
      /\ object.sink.spilled \in BOOLEAN /\ object.left \in 0..(max_bytes + 1)
      /\ object.files \in 0..2 /\ n \in Nat
  BY Caps DEF Body, Sink
<1>2. /\ sink \in Sink /\ sink.total = object.sink.total + n
      /\ (sink.spilled <=> sink.total > RB!Threshold)
      /\ (object.sink.spilled => sink.spilled)
  BY <1>1, Caps DEF RB!Written, Sink
<1>3. RB!Moved(n) = [object EXCEPT !.sink = sink, !.left = left, !.files = files]
  BY DEF RB!Moved, Body
<1> HIDE DEF sink
<1>4. /\ files \in 0..2 /\ files = object.files + Spills(sink) - Spills(object.sink)
      /\ left \in 0..(max_bytes + 1)
  BY <1>1, <1>2, Caps DEF Spills, Sink
<1> HIDE DEF files, left
<1>5. /\ RB!Moved(n) \in Body /\ RB!Moved(n).sink = sink /\ RB!Moved(n).left = left
      /\ RB!Moved(n).files = files
      /\ RB!Moved(n).at = object.at /\ RB!Moved(n).framing = object.framing
      /\ RB!Moved(n).due = object.due /\ RB!Moved(n).input = object.input
      /\ RB!Moved(n).layers = object.layers /\ RB!Moved(n).whole = object.whole
  BY <1>2, <1>3, <1>4 DEF Body
<1> QED
  BY <1>2, <1>4, <1>5 DEF left

\* A failure promises nothing more.
LEMMA BodyFails == ASSUME RB!Bounds, BodyInv, RB!Fail PROVE BodyInv'
<1>1. object \in Body /\ object' = [object EXCEPT !.at = "failed"]
  BY DEF BodyInv, RB!Fail
<1>2. /\ object' \in Body /\ object'.at = "failed" /\ object'.due = object.due
      /\ object'.left = object.left /\ object'.sink = object.sink
  BY <1>1 DEF Body
<1> QED
  BY <1>2 DEF BodyInv

\* Every step of reading and decoding keeps the invariant.
LEMMA BodyKept == ASSUME RB!Bounds, BodyInv, RB!Next PROVE BodyInv'
<1>0. /\ object \in Body /\ object.left \in 0..(max_bytes + 1) /\ object.due \in 0..(max_bytes + 1)
      /\ object.sink.total \in 0..max_bytes /\ object.sink.spilled \in BOOLEAN
      /\ object.files \in 0..2 /\ object.whole \in 0..(max_bytes + 1) /\ object.due <= object.left
      /\ (object.sink.spilled <=> object.sink.total > RB!Threshold)
      /\ object.layers \in 0..MaxLayers /\ object.sink \in Sink
  BY DEF BodyInv, Body, Sink
<1>a. max_bytes \in Nat /\ MaxLayers \in Nat /\ RB!Threshold \in Nat /\ RB!Threshold <= max_bytes
  BY Caps
<1>1. CASE RB!ReadChunkSize
  <2>1. PICK n \in 1..object.left :
          IF object.sink.total + n > max_bytes THEN RB!Fail ELSE object' = [object EXCEPT !.due = n]
    BY <1>1 DEF RB!ReadChunkSize
  <2>2. CASE object.sink.total + n > max_bytes
    BY <2>1, <2>2, BodyFails
  <2>3. CASE ~(object.sink.total + n > max_bytes)
    <3>1. object' = [object EXCEPT !.due = n] /\ n \in 0..(max_bytes + 1) /\ n <= object.left
      BY <1>0, <1>a, <2>1, <2>3
    <3>2. /\ object' \in Body /\ object'.due = n /\ object'.at = object.at
          /\ object'.framing = object.framing /\ object'.left = object.left
          /\ object'.sink = object.sink /\ object'.input = object.input
          /\ object'.files = object.files /\ object'.whole = object.whole
      BY <1>0, <3>1 DEF Body
    <3>3. object.at = "read" /\ object.framing = "chunked"
      BY <1>1 DEF RB!ReadChunkSize
    <3>4. object.sink.total + n <= max_bytes
      BY <1>0, <1>a, <2>3
    <3> QED
      BY <3>1, <3>2, <3>3, <3>4 DEF BodyInv, Reading
  <2> QED
    BY <2>2, <2>3
<1>2. CASE RB!ReadExact
  <2>1. PICK n \in 1..object.due : object' = [RB!Moved(n) EXCEPT !.due = @ - n]
    BY <1>2 DEF RB!ReadExact
  <2>2. object.at = "read" /\ object.framing # "close" /\ Reading(object)
    BY <1>2 DEF RB!ReadExact, BodyInv
  <2> DEFINE m == RB!Moved(n)
  <2>3. /\ n \in 1..object.left /\ object.sink.total + n <= max_bytes
        /\ (~object.sink.spilled => object.files < 2) /\ n \in Nat /\ n <= object.due
    BY <1>0, <1>a, <2>2 DEF Reading, Spills
  <2>4. /\ m \in Body /\ m.at = object.at /\ m.framing = object.framing
        /\ m.left = object.left - n /\ m.due = object.due
        /\ m.sink.total = object.sink.total + n
        /\ (m.sink.spilled <=> m.sink.total > RB!Threshold)
        /\ m.input = object.input /\ m.whole = object.whole
        /\ m.files = object.files + Spills(m.sink) - Spills(object.sink)
    BY <1>0, <2>3, Moves
  <2> HIDE DEF m
  <2>5. m.due - n \in 0..(max_bytes + 1)
    BY <1>0, <1>a, <2>3, <2>4
  <2>6. /\ object' \in Body /\ object'.due = m.due - n /\ object'.at = m.at
        /\ object'.framing = m.framing /\ object'.left = m.left /\ object'.sink = m.sink
        /\ object'.input = m.input /\ object'.files = m.files /\ object'.whole = m.whole
    BY <2>1, <2>4, <2>5 DEF Body, m
  <2>7. object.sink.total + object.left = object.whole
    BY <2>2 DEF BodyInv
  <2>8. Spills(m.sink) \in Nat /\ Spills(object.sink) \in Nat
    BY DEF Spills
  <2>9. Reading(object')
    BY <1>0, <1>a, <2>2, <2>3, <2>4, <2>6, <2>8 DEF Reading
  <2> QED
    BY <1>0, <1>a, <2>2, <2>3, <2>4, <2>6, <2>7, <2>9 DEF BodyInv
<1>3. CASE RB!ReadUntilClose
  <2>1. PICK n \in 1..object.left :
          IF object.sink.total + n > max_bytes THEN RB!Fail ELSE object' = RB!Moved(n)
    BY <1>3 DEF RB!ReadUntilClose
  <2>2. object.at = "read" /\ object.framing = "close" /\ Reading(object)
    BY <1>3 DEF RB!ReadUntilClose, BodyInv
  <2>3. CASE object.sink.total + n > max_bytes
    BY <2>1, <2>3, BodyFails
  <2>4. CASE ~(object.sink.total + n > max_bytes)
    <3>1. /\ object.sink.total + n <= max_bytes /\ (~object.sink.spilled => object.files < 2)
          /\ n \in Nat /\ object' = RB!Moved(n)
      BY <1>0, <1>a, <2>1, <2>2, <2>4 DEF Reading, Spills
    <3>2. /\ object' \in Body /\ object'.at = object.at /\ object'.framing = object.framing
          /\ object'.left = object.left - n /\ object'.due = object.due
          /\ object'.sink.total = object.sink.total + n
          /\ (object'.sink.spilled <=> object'.sink.total > RB!Threshold)
          /\ object'.input = object.input /\ object'.whole = object.whole
          /\ object'.files = object.files + Spills(object'.sink) - Spills(object.sink)
      BY <1>0, <3>1, Moves
    <3>3. object.sink.total + object.left = object.whole
      BY <2>2 DEF BodyInv
    <3>4. Spills(object'.sink) \in Nat /\ Spills(object.sink) \in Nat
      BY DEF Spills
    <3>5. Reading(object')
      BY <1>0, <1>a, <2>2, <3>1, <3>2, <3>4 DEF Reading
    <3>6. object.due = 0
      BY <2>2 DEF Reading
    <3> QED
      BY <1>0, <1>a, <2>2, <3>1, <3>2, <3>3, <3>5, <3>6 DEF BodyInv
  <2> QED
    BY <2>3, <2>4
<1>4. CASE RB!Cut
  BY <1>4, BodyFails DEF RB!Cut
<1>5. CASE RB!Finish
  <2> DEFINE input == IF object.sink.spilled THEN "file" ELSE "memory"
  <2>1. object' = [object EXCEPT !.at = "decode", !.input = input]
    BY <1>5 DEF RB!Finish
  <2>2. /\ object.at = "read" /\ object.left = 0 /\ object.due = 0
        /\ object.files = Spills(object.sink) /\ object.sink.total + object.left = object.whole
    BY <1>5 DEF RB!Finish, BodyInv, Reading
  <2>3. input \in {"memory", "file"}
    OBVIOUS
  <2>4. /\ object' \in Body /\ object'.due = object.due /\ object'.at = "decode"
        /\ object'.left = object.left /\ object'.sink = object.sink /\ object'.input = input
        /\ object'.files = object.files /\ object'.whole = object.whole
    <3> HIDE DEF input
    <3> QED
      BY <1>0, <2>1, <2>3 DEF Body
  <2>5. Complete(object')
    BY <1>0, <2>2, <2>4 DEF Complete
  <2> QED
    BY <1>0, <2>2, <2>4, <2>5 DEF BodyInv
<1>6. CASE RB!StartLayer
  <2>1. CASE RB!Fail
    BY <2>1, BodyFails
  <2>2. ASSUME NEW n \in 0..(max_bytes + 1),
               object' = [object EXCEPT !.at = "layer", !.sink = RB!Empty, !.left = n, !.whole = n,
                                        !.layers = @ - 1]
        PROVE  BodyInv'
    <3>1. /\ object.due = 0 /\ object.layers - 1 \in 0..MaxLayers
          /\ object.files = Spills(object.sink)
          /\ object.input = IF object.sink.spilled THEN "file" ELSE "memory"
      <4>1. object.at = "decode" /\ object.layers > 0
        BY <1>6 DEF RB!StartLayer
      <4>2. object.due = 0 /\ Complete(object)
        BY <4>1 DEF BodyInv
      <4>3. object.layers - 1 \in 0..MaxLayers
        BY <1>0, <1>a, <4>1
      <4> QED
        BY <4>2, <4>3 DEF Complete
    <3>2. RB!Empty \in Sink /\ RB!Empty.total = 0 /\ RB!Empty.spilled = FALSE
      BY <1>a DEF RB!Empty, Sink
    <3>3. /\ object' \in Body /\ object'.due = object.due /\ object'.at = "layer"
          /\ object'.left = n /\ object'.sink = RB!Empty /\ object'.input = object.input
          /\ object'.files = object.files /\ object'.whole = n
      BY <1>0, <2>2, <3>1, <3>2 DEF Body
    <3>4. object'.files = Below(object'.input) + Spills(object'.sink)
      BY <1>0, <3>1, <3>2, <3>3 DEF Below, Spills
    <3> QED
      BY <1>a, <3>1, <3>2, <3>3, <3>4 DEF BodyInv
  <2> QED
    BY <1>6, <2>1, <2>2 DEF RB!StartLayer
<1>7. CASE RB!Pipe
  <2>1. CASE RB!Fail
    BY <2>1, BodyFails
  <2>2. ASSUME NEW n \in 1..object.left, ~(object.sink.total + n > max_bytes),
               object' = RB!Moved(n)
        PROVE  BodyInv'
    <3>1. /\ object.at = "layer" /\ object.due = 0
          /\ object.files = Below(object.input) + Spills(object.sink)
          /\ object.sink.total + object.left = object.whole
      BY <1>7 DEF RB!Pipe, BodyInv
    <3>2. /\ object.sink.total + n <= max_bytes /\ (~object.sink.spilled => object.files < 2)
          /\ n \in Nat
      BY <1>0, <1>a, <2>2, <3>1 DEF Below, Spills
    <3>3. /\ object' \in Body /\ object'.at = object.at
          /\ object'.left = object.left - n /\ object'.due = object.due
          /\ object'.sink.total = object.sink.total + n
          /\ (object'.sink.spilled <=> object'.sink.total > RB!Threshold)
          /\ object'.input = object.input /\ object'.whole = object.whole
          /\ object'.files = object.files + Spills(object'.sink) - Spills(object.sink)
      BY <1>0, <2>2, <3>2, Moves
    <3>4. /\ Spills(object'.sink) \in Nat /\ Spills(object.sink) \in Nat
          /\ Below(object.input) \in Nat
      BY DEF Spills, Below
    <3> QED
      BY <1>0, <1>a, <3>1, <3>2, <3>3, <3>4 DEF BodyInv
  <2> QED
    BY <1>7, <2>1, <2>2 DEF RB!Pipe
<1>8. CASE RB!EndLayer
  <2> DEFINE input == IF object.sink.spilled THEN "file" ELSE "memory"
             files == IF object.input = "file" THEN object.files - 1 ELSE object.files
  <2>1. object' = [object EXCEPT !.at = "decode", !.files = files, !.input = input]
    BY <1>0, <1>8 DEF RB!EndLayer, Body
  <2>2. /\ object.at = "layer" /\ object.left = 0 /\ object.due = 0
        /\ object.files = Below(object.input) + Spills(object.sink)
        /\ object.sink.total + object.left = object.whole
    BY <1>8 DEF RB!EndLayer, BodyInv
  <2>3. input \in {"memory", "file"} /\ files = Spills(object.sink) /\ files \in 0..2
    BY <1>0, <2>2 DEF Below, Spills
  <2>4. /\ object' \in Body /\ object'.due = object.due /\ object'.at = "decode"
        /\ object'.left = object.left /\ object'.sink = object.sink /\ object'.input = input
        /\ object'.files = files /\ object'.whole = object.whole
    <3> HIDE DEF input, files
    <3> QED
      BY <1>0, <2>1, <2>3 DEF Body
  <2>5. Complete(object')
    BY <1>0, <2>2, <2>3, <2>4 DEF Complete
  <2> QED
    BY <1>0, <2>2, <2>4, <2>5 DEF BodyInv
<1>9. CASE RB!Deliver
  <2>1. object' = [object EXCEPT !.at = "done"] /\ object.at = "decode"
    BY <1>9 DEF RB!Deliver
  <2>2. /\ object' \in Body /\ object'.due = object.due /\ object'.at = "done"
        /\ object'.left = object.left /\ object'.sink = object.sink /\ object'.input = object.input
        /\ object'.files = object.files /\ object'.whole = object.whole
    BY <1>0, <2>1 DEF Body
  <2> QED
    BY <1>0, <2>1, <2>2 DEF BodyInv, Complete
<1>10. CASE RB!Drop
  <2> DEFINE files == IF object.input = "file" THEN object.files - 1 ELSE object.files
  <2>1. object' = [object EXCEPT !.at = "dropped", !.files = files] /\ object.at = "done"
    BY <1>0, <1>10 DEF RB!Drop, Body
  <2>2. files = 0 /\ files \in 0..2 /\ object.due = 0
    BY <1>0, <2>1 DEF BodyInv, Complete, Spills
  <2>3. /\ object' \in Body /\ object'.due = object.due /\ object'.at = "dropped"
        /\ object'.left = object.left /\ object'.sink = object.sink /\ object'.files = files
    <3> HIDE DEF files
    <3> QED
      BY <1>0, <2>1, <2>2 DEF Body
  <2> QED
    BY <1>0, <2>2, <2>3 DEF BodyInv
<1> QED
  BY <1>1, <1>2, <1>3, <1>4, <1>5, <1>6, <1>7, <1>8, <1>9, <1>10 DEF RB!Next

\* The invariant has what the run checks, and the types.
LEMMA BodyHolds == ASSUME RB!Bounds, BodyInv PROVE RB!BodyWhole /\ RB!TypeOK
<1>1. /\ object \in Body /\ object.sink.total \in 0..max_bytes /\ object.sink.spilled \in BOOLEAN
      /\ object.due \in 0..(max_bytes + 1) /\ object.left \in 0..(max_bytes + 1)
  BY DEF BodyInv, Body, Sink
<1>2. object.due \in 0..object.left
  BY <1>1, Caps DEF BodyInv
<1>3. RB!TypeOK
  BY <1>1, <1>2 DEF Body, RB!TypeOK
<1>4. RB!BodyWhole
  BY <1>1, Caps DEF BodyInv, Complete, Spills, RB!BodyWhole
<1> QED
  BY <1>3, <1>4

----------------------------------------------------------------------------
(* Session storage.  What is held is a sum over the keys, and the function that adds it
   up is defined by recursion: it exists, and changes with the item that changes. *)

\* it adds up f over every set of keys, taking out one member after the other.
Some(s) == CHOOSE x \in s : TRUE
Sums(f, it) ==
  it = [s \in SUBSET DOMAIN f |-> IF s = {} THEN 0 ELSE it[s \ {Some(s)}] + f[Some(s)]]

\* There is such an it: one for sets of n members extends to one of n + 1.
LEMMA SumExists ==
  ASSUME NEW K, IsFiniteSet(K), NEW f \in [K -> Nat]
  PROVE  \E it \in [SUBSET K -> Nat] : Sums(f, it)
<1> DEFINE Small(n) == {s \in SUBSET K : Cardinality(s) <= n}
           Step(it, s) == IF s = {} THEN 0 ELSE it[s \ {Some(s)}] + f[Some(s)]
           Up(n) == \E it \in [Small(n) -> Nat] : \A s \in Small(n) : it[s] = Step(it, s)
           bad == {n \in Nat : ~Up(n)}
<1>1. \A s \in SUBSET K :
        /\ Cardinality(s) \in Nat
        /\ Cardinality(s) <= Cardinality(K)
        /\ Cardinality(s) = 0 <=> s = {}
        /\ s # {} => /\ Some(s) \in s
                     /\ Cardinality(s \ {Some(s)}) = Cardinality(s) - 1
  <2> TAKE s \in SUBSET K
  <2>1. IsFiniteSet(s) /\ Cardinality(s) <= Cardinality(K)
    BY FS_Subset
  <2>2. s # {} => Some(s) \in s
    BY DEF Some
  <2>3. Cardinality(s) \in Nat /\ (Cardinality(s) = 0 <=> s = {})
    BY <2>1, FS_CardinalityType, FS_EmptySet
  <2>4. ASSUME s # {} PROVE Cardinality(s \ {Some(s)}) = Cardinality(s) - 1
    BY <2>1, <2>2, <2>4, FS_RemoveElement
  <2> QED
    BY <2>1, <2>2, <2>3, <2>4
<1>2. Up(0)
  <2>1. ASSUME NEW s \in Small(0) PROVE s = {}
    <3>1. s \in SUBSET K /\ Cardinality(s) <= 0
      OBVIOUS
    <3>2. Cardinality(s) \in Nat /\ (Cardinality(s) = 0 <=> s = {})
      BY <1>1, <3>1
    <3> QED
      BY <3>1, <3>2
  <2>2. [s \in Small(0) |-> 0] \in [Small(0) -> Nat]
    OBVIOUS
  <2> QED
    BY <2>1, <2>2
<1>3. ASSUME NEW n \in Nat, Up(n) PROVE Up(n + 1)
  <2>1. PICK it \in [Small(n) -> Nat] : \A s \in Small(n) : it[s] = Step(it, s)
    BY <1>3
  <2> DEFINE up == [s \in Small(n + 1) |-> Step(it, s)]
  <2>2. ASSUME NEW s \in Small(n + 1), s # {}
        PROVE  s \ {Some(s)} \in Small(n) /\ s \ {Some(s)} \in Small(n + 1)
    <3>1. s \ {Some(s)} \in SUBSET K /\ Cardinality(s) <= n + 1
      OBVIOUS
    <3> QED
      BY <1>1, <2>2, <3>1
  <2>3. \A s \in Small(n + 1) : Step(it, s) \in Nat
    BY <1>1, <2>2
  <2>4. up \in [Small(n + 1) -> Nat]
    BY <2>3
  <2>5. ASSUME NEW s \in Small(n + 1) PROVE up[s] = Step(up, s)
    <3>1. CASE s = {}
      BY <3>1
    <3>2. CASE s # {}
      <4> DEFINE t == s \ {Some(s)}
      <4>1. t \in Small(n) /\ t \in Small(n + 1)
        BY <2>2, <3>2
      <4>2. up[t] = it[t]
        BY <4>1, <2>1
      <4> QED
        BY <4>2, <3>2
    <3> QED
      BY <3>1, <3>2
  <2> QED
    BY <2>4, <2>5
<1>4. bad = {}
  <2> SUFFICES ASSUME bad # {} PROVE FALSE
    OBVIOUS
  <2> HIDE DEF Up
  <2>1. PICK m \in bad : \A k \in bad : m <= k
    BY LeastMember
  <2>2. m # 0 /\ m - 1 \in Nat /\ Up(m - 1)
    BY <2>1, <1>2
  <2>3. Up((m - 1) + 1)
    BY <2>2, <1>3
  <2> QED
    BY <2>1, <2>3
<1>5. Up(Cardinality(K)) /\ Small(Cardinality(K)) = SUBSET K
  <2>1. Cardinality(K) \in Nat
    BY <1>1
  <2> HIDE DEF Up
  <2>2. Up(Cardinality(K))
    BY <2>1, <1>4
  <2> QED
    BY <2>2, <1>1
<1>6. PICK it \in [SUBSET K -> Nat] : \A s \in SUBSET K : it[s] = Step(it, s)
  BY <1>5
<1>7. it = [s \in SUBSET K |-> Step(it, s)]
  BY <1>6
<1> QED
  BY <1>6, <1>7 DEF Sums

\* Two keyed sums that differ at one key differ by that much.
LEMMA SumChange ==
  ASSUME NEW K, IsFiniteSet(K), NEW f \in [K -> Nat], NEW k \in K, NEW v \in Nat,
         NEW g \in [K -> Nat], g[k] = v, \A x \in K : x # k => g[x] = f[x],
         NEW a, Sums(f, a), NEW b, Sums(g, b)
  PROVE  a[K] \in Nat /\ a[K] >= f[k] /\ b[K] = a[K] - f[k] + v
<1>1. g[k] = v /\ \A x \in K : x # k => g[x] = f[x]
  OBVIOUS
<1>sums. \A s \in SUBSET K :
        /\ a[s] = IF s = {} THEN 0 ELSE a[s \ {Some(s)}] + f[Some(s)]
        /\ b[s] = IF s = {} THEN 0 ELSE b[s \ {Some(s)}] + g[Some(s)]
  <2>1. \A s \in SUBSET K : a[s] = IF s = {} THEN 0 ELSE a[s \ {Some(s)}] + f[Some(s)]
    BY DEF Sums
  <2>2. \A s \in SUBSET K : b[s] = IF s = {} THEN 0 ELSE b[s \ {Some(s)}] + g[Some(s)]
    BY DEF Sums
  <2> QED
    BY <2>1, <2>2
<1> DEFINE Fine(s) == /\ a[s] \in Nat
                      /\ k \in s => a[s] >= f[k] /\ b[s] = a[s] - f[k] + v
                      /\ k \notin s => b[s] = a[s]
           bad == {n \in Nat : \E s \in SUBSET K : Cardinality(s) = n /\ ~Fine(s)}
<1>4. ASSUME bad # {} PROVE FALSE
  <2>1. PICK m \in bad : \A n \in bad : m <= n
    BY <1>4, LeastMember
  <2>2. PICK s \in SUBSET K : Cardinality(s) = m /\ ~Fine(s)
    BY <2>1
  <2>3. IsFiniteSet(s)
    BY FS_Subset
  <2>4. CASE s = {}
    <3>1. a[s] = 0 /\ b[s] = 0 /\ k \notin s
      BY <2>4, <1>sums
    <3> QED
      BY <2>2, <3>1
  <2>5. CASE s # {}
    <3> DEFINE x == Some(s)
               t == s \ {x}
    <3>1. x \in s /\ x \in K /\ t \in SUBSET K
      BY <2>5 DEF Some
    <3>2. a[s] = a[t] + f[x] /\ b[s] = b[t] + g[x]
      BY <2>5, <1>sums
    <3>3. Cardinality(t) = m - 1 /\ Cardinality(t) \in Nat
      BY <2>2, <2>3, <3>1, FS_RemoveElement, FS_CardinalityType
    <3>4. Fine(t)
      <4> HIDE DEF Fine, t
      <4> QED
        BY <2>1, <3>1, <3>3
    <3>5. Fine(s)
      <4>1. f[x] \in Nat /\ g[x] \in Nat /\ f[k] \in Nat
        BY <3>1, <1>1
      <4>2. CASE x = k
        <5>1. k \notin t /\ k \in s /\ g[x] = v
          BY <4>2, <3>1, <1>1
        <5> HIDE DEF t, x
        <5> QED
          BY <5>1, <3>2, <3>4, <4>1, <4>2
      <4>3. CASE x # k
        <5>1. (k \in t <=> k \in s) /\ g[x] = f[x]
          BY <4>3, <3>1, <1>1
        <5> HIDE DEF t, x
        <5> QED
          BY <5>1, <3>2, <3>4, <4>1
      <4> QED
        BY <4>2, <4>3
    <3> QED
      BY <3>5, <2>2
  <2> QED
    BY <2>4, <2>5
<1>5. Fine(K)
  <2>1. Cardinality(K) \in Nat
    BY FS_CardinalityType
  <2> HIDE DEF Fine
  <2> QED
    BY <1>4, <2>1
<1> QED
  BY <1>5

\* Nothing adds up to nothing.
LEMMA SumOfNothing ==
  ASSUME NEW K, IsFiniteSet(K), NEW f \in [K -> Nat], \A k \in K : f[k] = 0,
         NEW a, Sums(f, a)
  PROVE  a[K] = 0
<1>sums. \A s \in SUBSET K : a[s] = IF s = {} THEN 0 ELSE a[s \ {Some(s)}] + f[Some(s)]
  BY DEF Sums
<1> DEFINE bad == {n \in Nat : \E s \in SUBSET K : Cardinality(s) = n /\ a[s] # 0}
<1>2. ASSUME bad # {} PROVE FALSE
  <2>1. PICK m \in bad : \A n \in bad : m <= n
    BY <1>2, LeastMember
  <2>2. PICK s \in SUBSET K : Cardinality(s) = m /\ a[s] # 0
    BY <2>1
  <2>3. IsFiniteSet(s)
    BY FS_Subset
  <2>4. s # {}
    BY <2>2, <1>sums
  <2> DEFINE x == Some(s)
             t == s \ {x}
  <2>5. x \in s /\ x \in K /\ t \in SUBSET K
    BY <2>4 DEF Some
  <2>6. a[s] = a[t] + f[x]
    BY <2>4, <1>sums
  <2>7. Cardinality(t) = m - 1 /\ Cardinality(t) \in Nat
    BY <2>2, <2>3, <2>5, FS_RemoveElement, FS_CardinalityType
  <2>8. a[t] = 0
    <3> HIDE DEF t
    <3> QED
      BY <2>1, <2>5, <2>7
  <2> QED
    BY <2>2, <2>5, <2>6, <2>8
<1>3. Cardinality(K) \in Nat
  BY FS_CardinalityType
<1> QED
  BY <1>2, <1>3

\* The bytes of each item, and what they add up to.
BytesOf(session) == [k \in ItemKey |-> IF session[k] = SS!None THEN 0 ELSE size[session[k]]]
SessionBytes(session) ==
  SS!FoldSet(LAMBDA k, n : n + (IF session[k] = SS!None THEN 0 ELSE size[session[k]]), 0, ItemKey)

\* What sessionStorage may hold.
Sessions == [ItemKey -> Item \cup {SS!None}]

\* Its bytes are such a sum.
LEMMA BytesAddUp ==
  ASSUME SS!Bounds, NEW session \in Sessions
  PROVE  /\ BytesOf(session) \in [ItemKey -> Nat] /\ IsFiniteSet(ItemKey)
         /\ \E it : Sums(BytesOf(session), it) /\ SessionBytes(session) = it[ItemKey]
<1> DEFINE f == BytesOf(session)
           Of(k) == IF session[k] = SS!None THEN 0 ELSE size[session[k]]
           Step(it) == [s \in SUBSET ItemKey |-> IF s = {} THEN 0
                                                   ELSE it[s \ {Some(s)}] + Of(Some(s))]
           it == CHOOSE g : g = Step(g)
<1>1. IsFiniteSet(ItemKey)
  BY DEF SS!Bounds, SS!IsFiniteSet, IsFiniteSet
<1>2. \A k \in ItemKey : Of(k) \in Nat
  BY DEF SS!Bounds, Sessions
<1>3. f \in [ItemKey -> Nat] /\ \A k \in ItemKey : f[k] = Of(k)
  BY <1>2 DEF BytesOf
<1>4. SessionBytes(session) = it[ItemKey]
  BY DEF SessionBytes, SS!FoldSet, SS!MapThenFoldSet, Some
<1> HIDE DEF f, Of
<1>5. ASSUME NEW g PROVE g = Step(g) <=> Sums(f, g)
  <2>1. \A s \in SUBSET ItemKey : s # {} => f[Some(s)] = Of(Some(s))
    BY <1>3 DEF Some
  <2>2. Step(g) = [s \in SUBSET DOMAIN f |-> IF s = {} THEN 0 ELSE g[s \ {Some(s)}] + f[Some(s)]]
    BY <1>3, <2>1
  <2> QED
    BY <2>2 DEF Sums
<1>6. \E g : g = Step(g)
  <2> HIDE DEF Step
  <2>1. PICK g \in [SUBSET ItemKey -> Nat] : Sums(f, g)
    BY <1>1, <1>3, SumExists
  <2> QED
    BY <1>5, <2>1
<1>7. it = Step(it)
  <2> HIDE DEF Step
  <2> QED
    BY <1>6
<1> HIDE DEF it, Step
<1>8. Sums(f, it)
  BY <1>5, <1>7
<1> QED
  BY <1>1, <1>3, <1>4, <1>8 DEF f

\* Setting an item changes the bytes by what it and the one it replaces take.
LEMMA BytesChange ==
  ASSUME SS!Bounds, NEW session \in Sessions, NEW k \in ItemKey, NEW v \in Item \cup {SS!None}
  PROVE  LET other == [session EXCEPT ![k] = v]  b == BytesOf(other)[k] IN
         /\ other \in Sessions /\ SessionBytes(session) \in Nat
         /\ SessionBytes(session) >= BytesOf(session)[k] /\ b \in Nat
         /\ SessionBytes(other) = SessionBytes(session) - BytesOf(session)[k] + b
<1> DEFINE other == [session EXCEPT ![k] = v]
           f == BytesOf(session)
           g == BytesOf(other)
<1>1. other \in Sessions /\ other[k] = v /\ \A x \in ItemKey : x # k => other[x] = session[x]
  BY DEF Sessions
<1>2. \A x \in ItemKey : x # k => g[x] = f[x]
  <2> HIDE DEF other
  <2> QED
    BY <1>1 DEF BytesOf
<1> HIDE DEF other, f, g
<1>3. /\ f \in [ItemKey -> Nat] /\ IsFiniteSet(ItemKey)
      /\ \E it : Sums(f, it) /\ SessionBytes(session) = it[ItemKey]
  BY BytesAddUp DEF f
<1>4. g \in [ItemKey -> Nat] /\ \E it : Sums(g, it) /\ SessionBytes(other) = it[ItemKey]
  BY <1>1, BytesAddUp DEF g
<1>5. PICK a : Sums(f, a) /\ SessionBytes(session) = a[ItemKey]
  BY <1>3
<1>6. PICK b : Sums(g, b) /\ SessionBytes(other) = b[ItemKey]
  BY <1>4
<1>7. g[k] \in Nat
  BY <1>4
<1>8. a[ItemKey] \in Nat /\ a[ItemKey] >= f[k] /\ b[ItemKey] = a[ItemKey] - f[k] + g[k]
  BY <1>2, <1>3, <1>4, <1>5, <1>6, <1>7, SumChange
<1> QED
  BY <1>1, <1>5, <1>6, <1>7, <1>8 DEF f, g, other

\* No items, no bytes.
LEMMA NoBytes ==
  ASSUME SS!Bounds
  PROVE  LET none == [k \in ItemKey |-> SS!None] IN none \in Sessions /\ SessionBytes(none) = 0
<1> DEFINE none == [k \in ItemKey |-> SS!None]
           f == BytesOf(none)
<1>1. none \in Sessions /\ \A k \in ItemKey : f[k] = 0
  BY DEF BytesOf, Sessions
<1> HIDE DEF none, f
<1>2. /\ f \in [ItemKey -> Nat] /\ IsFiniteSet(ItemKey)
      /\ \E it : Sums(f, it) /\ SessionBytes(none) = it[ItemKey]
  BY <1>1, BytesAddUp DEF f
<1>3. PICK a : Sums(f, a) /\ SessionBytes(none) = a[ItemKey]
  BY <1>2
<1>4. a[ItemKey] = 0
  BY <1>1, <1>2, <1>3, SumOfNothing
<1> QED
  BY <1>1, <1>3, <1>4 DEF none

\* The state of session storage: no call on files is in progress.
SessionStore == [files : SS!Files, tmp : SS!Files, op : {<<>>}, before : SS!Files,
                 after : SS!Files, session : Sessions, crashes : {0}]

\* What is held is within the cap.
SessionInv ==
  object \in SessionStore /\ SessionBytes(object.session) <= SESSION_STORAGE_BYTE_CAP

\* It starts empty.
LEMMA SessionStart == ASSUME SS!Bounds, SS!Init PROVE SessionInv
<1>1. SS!NoFiles \in SS!Files
  BY DEF SS!NoFiles, SS!Files
<1>2. [k \in ItemKey |-> SS!None] \in Sessions /\ SessionBytes([k \in ItemKey |-> SS!None]) = 0
  BY NoBytes
<1>3. SESSION_STORAGE_BYTE_CAP \in Nat
  BY DEF SS!Bounds
<1> HIDE DEF SS!NoFiles
<1>4. object \in SessionStore /\ object.session = [k \in ItemKey |-> SS!None]
  BY <1>1, <1>2 DEF SS!Init, SessionStore
<1> QED
  BY <1>2, <1>3, <1>4 DEF SessionInv

\* Every call keeps the invariant.
LEMMA SessionKept == ASSUME SS!Bounds, SessionInv, SS!SessionStep PROVE SessionInv'
<1>0. /\ object \in SessionStore /\ object.session \in Sessions
      /\ SESSION_STORAGE_BYTE_CAP \in Nat
      /\ SessionBytes(object.session) <= SESSION_STORAGE_BYTE_CAP
  BY DEF SessionInv, SessionStore, SS!Bounds
<1>1. ASSUME NEW t \in Sessions, object' = [object EXCEPT !.session = t],
             SessionBytes(t) <= SESSION_STORAGE_BYTE_CAP
      PROVE  SessionInv'
  <2>1. object' \in SessionStore /\ object'.session = t
    BY <1>0, <1>1 DEF SessionStore
  <2> QED
    BY <1>1, <2>1 DEF SessionInv
<1>2. CASE SS!SessionClear
  <2>1. object' = [object EXCEPT !.session = [k \in ItemKey |-> SS!None]]
    BY <1>2 DEF SS!SessionClear
  <2>2. [k \in ItemKey |-> SS!None] \in Sessions /\ SessionBytes([k \in ItemKey |-> SS!None]) = 0
    BY NoBytes
  <2>3. SessionBytes([k \in ItemKey |-> SS!None]) <= SESSION_STORAGE_BYTE_CAP
    BY <1>0, <2>2
  <2> QED
    BY <1>1, <2>1, <2>2, <2>3
<1>3. ASSUME NEW k \in ItemKey, SS!SessionRemove(k) PROVE SessionInv'
  <2> DEFINE t == [object.session EXCEPT ![k] = SS!None]
             b == BytesOf(t)[k]
  <2>1. object' = [object EXCEPT !.session = t]
    BY <1>0, <1>3 DEF SS!SessionRemove, SessionStore
  <2>2. /\ t \in Sessions /\ SessionBytes(object.session) \in Nat /\ b \in Nat
        /\ SessionBytes(object.session) >= BytesOf(object.session)[k]
        /\ SessionBytes(t) = SessionBytes(object.session) - BytesOf(object.session)[k] + b
    BY <1>0, BytesChange
  <2>3. b = 0
    BY <1>0 DEF BytesOf, Sessions
  <2>4. BytesOf(object.session)[k] \in Nat
    BY <1>0, BytesAddUp
  <2> HIDE DEF t, b
  <2>5. SessionBytes(t) <= SESSION_STORAGE_BYTE_CAP
    BY <1>0, <2>2, <2>3, <2>4
  <2> QED
    BY <1>1, <2>1, <2>2, <2>5
<1>4. ASSUME NEW k \in ItemKey, NEW v \in Item, SS!SessionSet(k, v) PROVE SessionInv'
  <2> DEFINE t == [object.session EXCEPT ![k] = v]
             b == BytesOf(t)[k]
  <2>1. object' = [object EXCEPT !.session = t]
    BY <1>0, <1>4 DEF SS!SessionSet, SessionStore
  <2>2. /\ t \in Sessions /\ SessionBytes(object.session) \in Nat /\ b \in Nat
        /\ SessionBytes(t) = SessionBytes(object.session) - BytesOf(object.session)[k] + b
    BY <1>0, BytesChange
  <2>3. b = size[v] /\ BytesOf(object.session)[k] = SS!bytes(k)
    BY <1>0 DEF BytesOf, Sessions, SS!bytes, SS!Bounds
  <2>4. SessionBytes(object.session) = SS!session_total_bytes
    BY DEF SessionBytes, SS!session_total_bytes, SS!bytes
  <2> HIDE DEF t, b
  <2>5. (SS!session_total_bytes - SS!bytes(k)) + size[v] <= SESSION_STORAGE_BYTE_CAP
    BY <1>4 DEF SS!SessionSet, SS!projected
  <2>6. SessionBytes(t) <= SESSION_STORAGE_BYTE_CAP
    BY <2>2, <2>3, <2>4, <2>5
  <2> QED
    BY <1>1, <2>1, <2>2, <2>6
<1> QED
  BY <1>2, <1>3, <1>4 DEF SS!SessionStep

\* The invariant has what the run checks, and the types.
LEMMA SessionHolds == ASSUME SessionInv PROVE SS!UnderCap /\ SS!TypeOK
<1>1. SessionBytes(object.session) = SS!session_total_bytes
  BY DEF SessionBytes, SS!session_total_bytes, SS!bytes
<1>2. SS!UnderCap
  BY <1>1 DEF SessionInv, SS!UnderCap
<1>3. SS!TypeOK
  BY DEF SessionInv, SessionStore, Sessions, SS!TypeOK
<1> QED
  BY <1>2, <1>3

----------------------------------------------------------------------------
(* The parts together: the steps of one leave the others' kinds alone. *)

\* What holds of these parts.
NetInv ==
  /\ kind = "transport" => LadderInv
  /\ kind = "client" => ClientInv
  /\ kind = "jar" => JarInv
  /\ kind = "body" => BodyInv
  /\ kind = "session" => SessionInv

\* It holds in every state.
LEMMA NetInvariant == Spec => []NetInv
<1>1. Init => NetInv
  BY LadderStart, ClientStart, JarStart, BodyStart, SessionStart, BoundsAssumption DEF Init, NetInv
<1>2. NetInv /\ [Next]_vars => NetInv'
  <2> SUFFICES ASSUME NetInv, [Next]_vars PROVE NetInv'
    OBVIOUS
  <2>1. CASE TransportNext
    BY <2>1, LadderKept, BoundsAssumption DEF TransportNext, NetInv
  <2>2. CASE ClientNext
    BY <2>2, ClientKept, BoundsAssumption DEF ClientNext, NetInv
  <2>3. CASE JarNext
    BY <2>3, JarKept, BoundsAssumption DEF JarNext, NetInv
  <2>4. CASE BodyNext
    BY <2>4, BodyKept, BoundsAssumption DEF BodyNext, NetInv
  <2>5. CASE SessionNext
    BY <2>5, SessionKept, BoundsAssumption DEF SessionNext, NetInv
  <2>6. ASSUME kind' = kind, kind \notin {"transport", "client", "jar", "body", "session"}
        PROVE  NetInv'
    BY <2>6 DEF NetInv
  <2>7. CASE StorageNext \/ FilesNext \/ CachesNext \/ FetchesNext \/ RegistrationsNext
    BY <2>6, <2>7 DEF StorageNext, FilesNext, CachesNext, FetchesNext, RegistrationsNext
  <2>8. CASE UNCHANGED vars
    BY <2>8 DEF vars, NetInv, LadderInv, Descent, Passed, EndsLast, ClientInv, CL!ReadersAllowed,
                JarInv, CJ!Persistent, BodyInv, SessionInv
  <2> QED
    BY <2>1, <2>2, <2>3, <2>4, <2>5, <2>7, <2>8 DEF Next
<1> QED
  BY <1>1, <1>2, PTL DEF Spec

\* A request goes down the protocols one by one, and is written again only where the
\* code means it to be (net/http.rs, h_pool.rs).
THEOREM LadderTheorem == Spec => []LadderDescends
<1>1. NetInv => LadderDescends
  BY LadderHolds DEF NetInv, LadderDescends
<1> QED
  BY <1>1, NetInvariant, PTL

\* Every hop of a request keeps the policies, a script is handed no body another
\* origin keeps from it, and a cookie header holds what the request may carry
\* (net/mod.rs, policy, cookies.rs).
THEOREM PolicyTheorem == Spec => []PolicyHolds
<1>1. NetInv => PolicyHolds
  BY ClientHolds, JarHolds, BoundsAssumption DEF NetInv, PolicyHolds
<1> QED
  BY <1>1, NetInvariant, PTL

==============================================================================
