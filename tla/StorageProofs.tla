---------------------------- MODULE StorageProofs ----------------------------
(***************************************************************************)
(* What holds of what is kept - the origin's storage, its private files,   *)
(* caches and service workers - whatever the constants, and with           *)
(* NetStackProofs, of every part of the layer.                             *)
(***************************************************************************)
EXTENDS NetStackProofs

----------------------------------------------------------------------------
(* Origin storage.  Between two file operations a file has its old value or its new one:
   those that the rest of the call does not touch have the new one. *)

\* The places of files, and the operations on them.
Slots == OS!Area \X ItemKey
Ops == [do : {"write", "rename", "unlink", "sweep"}, on : Slots, value : Value \cup {OS!None}]

\* The state of what is kept with an origin, whole.
Store == [files : OS!Files, tmp : OS!Files, op : Seq(Ops), before : OS!Files, after : OS!Files,
          session : [ItemKey -> Value \cup {OS!None}], crashes : 0..MaxCrashes]

\* The rest of a call has an operation on f.
Touched(op, f) == \E i \in DOMAIN op : op[i].on = f

\* A removal leaves nothing, and a file is renamed right after it was written beside.
Ordered(op, tmp) ==
  \A i \in DOMAIN op :
    /\ op[i].do \in {"unlink", "sweep"} => op[i].value = OS!None
    /\ op[i].do = "write" =>
         /\ i = 1 /\ 2 \in DOMAIN op
         /\ op[2].do = "rename" /\ op[2].on = op[1].on /\ op[2].value = op[1].value
    /\ op[i].do = "rename" => \/ i = 1 /\ tmp[op[1].on] = op[1].value
                              \/ i = 2 /\ op[1].do = "write"

\* The origin storage's invariant.
StoreInv ==
  /\ object \in Store /\ Ordered(object.op, object.tmp)
  /\ object.op = <<>> => object.before = object.after
  /\ \A f \in Slots : /\ object.files[f] \in {object.before[f], object.after[f]}
                      /\ ~Touched(object.op, f) => object.files[f] = object.after[f]
  /\ \A i \in DOMAIN object.op : object.op[i].value = object.after[object.op[i].on]

\* The origin starts with nothing.
LEMMA StoreStart == ASSUME OS!Bounds, OS!Init PROVE StoreInv
<1>1. OS!NoFiles \in OS!Files
  BY DEF OS!NoFiles, OS!Files
<1>2. [k \in ItemKey |-> OS!None] \in [ItemKey -> Value \cup {OS!None}]
  OBVIOUS
<1>3. <<>> \in Seq(Ops) /\ DOMAIN <<>> = {} /\ 0 \in 0..MaxCrashes
  BY DEF OS!Bounds
<1> DEFINE nil == <<>>
<1> HIDE DEF OS!NoFiles, nil
<1>4. /\ object.files = OS!NoFiles /\ object.before = OS!NoFiles /\ object.after = OS!NoFiles
      /\ object.op = nil /\ object \in Store
  BY <1>1, <1>2, <1>3 DEF OS!Init, Store, nil
<1> QED
  BY <1>3, <1>4 DEF StoreInv, Ordered, nil

\* A call that begins touches what it changes.
LEMMA CallBegins ==
  ASSUME StoreInv, NEW op \in Seq(Ops), NEW after \in OS!Files, OS!Call(op, after),
         Ordered(op, object.tmp), \A i \in DOMAIN op : op[i].value = after[op[i].on],
         \A f \in Slots : ~Touched(op, f) => after[f] = object.files[f]
  PROVE  StoreInv'
<1>1. /\ object.op = <<>> /\ object' = [object EXCEPT !.op = op, !.after = after]
      /\ object \in Store
  BY DEF OS!Call, StoreInv
<1>2. /\ object' \in Store /\ object'.op = op /\ object'.after = after /\ object'.tmp = object.tmp
      /\ object'.files = object.files /\ object'.before = object.before
  BY <1>1 DEF Store
<1>3. \A f \in Slots : ~Touched(object.op, f)
  BY <1>1 DEF Touched
<1>4. \A f \in Slots : object.files[f] = object.before[f]
  BY <1>1, <1>3 DEF StoreInv
<1>5. ASSUME op = <<>> PROVE object.before = after
  <2>1. \A f \in Slots : ~Touched(op, f)
    BY <1>5 DEF Touched
  <2>2. \A f \in Slots : object.before[f] = after[f]
    BY <1>4, <2>1
  <2>3. object.before \in OS!Files
    BY <1>1 DEF Store
  <2> QED
    BY <2>2, <2>3 DEF OS!Files, Slots
<1> QED
  BY <1>2, <1>4, <1>5 DEF StoreInv

\* A value is written beside, and renamed.
LEMMA SetBegins ==
  ASSUME StoreInv, NEW a \in OS!Area, NEW k \in ItemKey, NEW v \in Value, OS!Set(a, k, v)
  PROVE  StoreInv'
<1> DEFINE f == <<a, k>>
           op == OS!Writes(f, v)
           after == [object.files EXCEPT ![f] = v]
<1>1. f \in Slots
  BY DEF Slots
<1>2. op = <<[do |-> "write", on |-> f, value |-> v], [do |-> "rename", on |-> f, value |-> v]>>
  BY DEF OS!Writes
<1>3. OS!Call(op, after)
  BY DEF OS!Set
<1>4. object.files \in OS!Files
  BY DEF StoreInv, Store
<1>5. after \in OS!Files /\ after[f] = v /\ \A g \in Slots : g # f => after[g] = object.files[g]
  BY <1>1, <1>4 DEF OS!Files, Slots
<1> HIDE DEF f, op, after
<1>6. /\ op \in Seq(Ops) /\ DOMAIN op = {1, 2} /\ op[1].on = f /\ op[2].on = f
      /\ op[1].value = v /\ op[2].value = v /\ op[1].do = "write" /\ op[2].do = "rename"
  <2>1. /\ [do |-> "write", on |-> f, value |-> v] \in Ops
        /\ [do |-> "rename", on |-> f, value |-> v] \in Ops
    BY <1>1 DEF Ops
  <2> QED
    BY <1>2, <2>1
<1>7. Ordered(op, object.tmp)
  BY <1>6 DEF Ordered
<1>8. \A i \in DOMAIN op : op[i].value = after[op[i].on]
  BY <1>5, <1>6
<1>9. \A g \in Slots : ~Touched(op, g) => after[g] = object.files[g]
  BY <1>5, <1>6 DEF Touched
<1> QED
  BY <1>3, <1>5, <1>6, <1>7, <1>8, <1>9, CallBegins

\* A removal is one operation.
LEMMA UnlinkBegins ==
  ASSUME StoreInv, NEW a \in OS!Area, NEW k \in ItemKey, OS!Unlink(a, k)
  PROVE  StoreInv'
<1> DEFINE f == <<a, k>>
           s == [do |-> "unlink", on |-> f, value |-> OS!None]
           op == <<s>>
           after == [object.files EXCEPT ![f] = OS!None]
<1>1. f \in Slots /\ s \in Ops
  BY DEF Slots, Ops
<1>3. OS!Call(op, after)
  BY DEF OS!Unlink
<1>4. object.files \in OS!Files
  BY DEF StoreInv, Store
<1>5. /\ after \in OS!Files /\ after[f] = OS!None
      /\ \A g \in Slots : g # f => after[g] = object.files[g]
  BY <1>1, <1>4 DEF OS!Files, Slots
<1>6. s.on = f /\ s.value = OS!None /\ s.do = "unlink"
  OBVIOUS
<1> HIDE DEF f, s, after
<1>7. op \in Seq(Ops) /\ DOMAIN op = {1} /\ op[1] = s
  BY <1>1
<1> HIDE DEF op
<1>8. Ordered(op, object.tmp)
  BY <1>6, <1>7 DEF Ordered
<1>9. \A i \in DOMAIN op : op[i].value = after[op[i].on]
  BY <1>5, <1>6, <1>7
<1>10. \A g \in Slots : ~Touched(op, g) => after[g] = object.files[g]
  BY <1>5, <1>6, <1>7 DEF Touched
<1> QED
  BY <1>3, <1>5, <1>7, <1>8, <1>9, <1>10, CallBegins

\* An order of the members of a finite set has them all.
LEMMA OrderHasAll ==
  ASSUME NEW S, IsFiniteSet(S), NEW order \in OS!SetToSeqs(S)
  PROVE  order \in Seq(S) /\ \A x \in S : \E i \in DOMAIN order : order[i] = x
<1> DEFINE n == Cardinality(S)
<1>1. OS!Cardinality(S) = n
  BY DEF OS!Cardinality, Cardinality
<1>2. n \in Nat
  BY FS_CardinalityType
<1>3. order \in [1..n -> S] /\ \A i, j \in 1..n : i # j => order[i] # order[j]
  BY <1>1 DEF OS!SetToSeqs
<1> HIDE DEF n
<1>4. order \in Injection(1..n, S)
  BY <1>3 DEF Injection, IsInjective
<1>5. IsFiniteSet(1..n) /\ Cardinality(1..n) = n
  BY <1>2, FS_Interval
<1>6. order \in Surjection(1..n, S)
  <2>1. Cardinality(1..n) = Cardinality(S)
    BY <1>5 DEF n
  <2> QED
    BY <1>4, <2>1, FS_Injection
<1>7. \A x \in S : \E i \in 1..n : order[i] = x
  BY <1>6 DEF Surjection
<1> QED
  BY <1>2, <1>3, <1>7

\* A directory is emptied file by file.
LEMMA SweepBegins ==
  ASSUME OS!Bounds, StoreInv, NEW areas \in SUBSET OS!Area, OS!RemoveAll(areas)
  PROVE  StoreInv'
<1> DEFINE S == areas \X ItemKey
           after == [f \in OS!Area \X ItemKey |-> IF f[1] \in areas THEN OS!None
                                                    ELSE object.files[f]]
<1>1. IsFiniteSet(S)
  <2>1. IsFiniteSet(DatabaseDir) /\ IsFiniteSet(ItemKey)
    BY DEF OS!Bounds, OS!IsFiniteSet, IsFiniteSet
  <2>2. IsFiniteSet(OS!Area)
    BY <2>1, FS_AddElement DEF OS!Area
  <2>3. IsFiniteSet(areas)
    BY <2>2, FS_Subset
  <2> QED
    BY <2>1, <2>3, FS_Product
<1>2. PICK order \in OS!SetToSeqs(S) :
        OS!Call([i \in DOMAIN order |-> [do |-> "sweep", on |-> order[i], value |-> OS!None]],
                after)
  BY DEF OS!RemoveAll
<1>3. order \in Seq(S) /\ \A x \in S : \E i \in DOMAIN order : order[i] = x
  <2> HIDE DEF S
  <2> QED
    BY <1>1, OrderHasAll
<1> DEFINE op == [i \in DOMAIN order |-> [do |-> "sweep", on |-> order[i], value |-> OS!None]]
<1>4. S \subseteq Slots
  BY DEF Slots
<1>5. object.files \in OS!Files
  BY DEF StoreInv, Store
<1>6. /\ after \in OS!Files
      /\ \A f \in S : after[f] = OS!None
      /\ \A f \in Slots : f \notin S => after[f] = object.files[f]
  BY <1>5 DEF OS!Files, Slots
<1> HIDE DEF S, after
<1>7. /\ op \in Seq(Ops) /\ DOMAIN op = DOMAIN order
      /\ \A i \in DOMAIN order : op[i].do = "sweep" /\ op[i].on = order[i] /\ op[i].value = OS!None
  <2>1. \A i \in DOMAIN order : order[i] \in Slots
    BY <1>3, <1>4
  <2>2. \A i \in DOMAIN order : op[i] \in Ops
    BY <2>1 DEF Ops
  <2>3. DOMAIN order = 1..Len(order) /\ Len(order) \in Nat
    BY <1>3
  <2>4. op \in [1..Len(order) -> Ops]
    BY <2>2, <2>3
  <2> QED
    BY <2>3, <2>4
<1>8. OS!Call(op, after)
  BY <1>2
<1> HIDE DEF op
<1>9. Ordered(op, object.tmp)
  BY <1>7 DEF Ordered
<1>10. \A i \in DOMAIN op : op[i].value = after[op[i].on]
  BY <1>3, <1>6, <1>7
<1>11. \A g \in Slots : ~Touched(op, g) => after[g] = object.files[g]
  BY <1>3, <1>6, <1>7 DEF Touched
<1> QED
  BY <1>6, <1>7, <1>8, <1>9, <1>10, <1>11, CallBegins

\* A file operation brings its file to what the call leaves, or prepares that.
LEMMA StepFiles == ASSUME StoreInv, OS!FileStep PROVE StoreInv'
<1> DEFINE op == object.op
           m == Len(op)
           t == Tail(op)
           s == op[1]
           f == s.on
           x == CASE s.do = "write" -> object.files[f]
                  [] s.do = "rename" -> object.tmp[f] [] OTHER -> OS!None
           y == CASE s.do = "write" -> s.value
                  [] s.do = "unlink" -> object.tmp[f] [] OTHER -> OS!None
           files == [object.files EXCEPT ![f] = x]
           tmp == [object.tmp EXCEPT ![f] = y]
           before == IF m = 1 THEN object.after ELSE object.before
<1>1. object \in Store /\ op \in Seq(Ops) /\ op # <<>>
  BY DEF StoreInv, Store, OS!FileStep
<1>2. /\ m \in Nat \ {0} /\ DOMAIN op = 1..m /\ Head(op) = s /\ s \in Ops
      /\ t \in Seq(Ops) /\ DOMAIN t = 1..(m - 1) /\ \A i \in 1..(m - 1) : t[i] = op[i + 1]
  BY <1>1
<1>3. object' = [object EXCEPT !.op = t, !.before = before, !.tmp = tmp, !.files = files]
  BY <1>1, <1>2 DEF OS!FileStep, Store
<1>4. /\ f \in Slots /\ s.value \in Value \cup {OS!None}
      /\ s.do \in {"write", "rename", "unlink", "sweep"}
  BY <1>2 DEF Ops
<1>5. /\ object.files \in OS!Files /\ object.tmp \in OS!Files /\ object.before \in OS!Files
      /\ object.after \in OS!Files
  BY <1>1 DEF Store
<1>6. x \in Value \cup {OS!None} /\ y \in Value \cup {OS!None}
  BY <1>4, <1>5 DEF OS!Files, Slots
<1>7. /\ s.do = "write" => x = object.files[f] /\ y = s.value
      /\ s.do = "rename" => x = object.tmp[f]
      /\ s.do \in {"unlink", "sweep"} => x = OS!None
  BY <1>4
<1>8. Ordered(op, object.tmp) /\ \A i \in DOMAIN op : op[i].value = object.after[op[i].on]
  BY DEF StoreInv
<1>9. /\ \A g \in Slots : /\ object.files[g] \in {object.before[g], object.after[g]}
                          /\ ~Touched(op, g) => object.files[g] = object.after[g]
  BY DEF StoreInv
<1> HIDE DEF x, y, op, m, t, s, f
<1>10. /\ files \in OS!Files /\ files[f] = x /\ \A g \in Slots : g # f => files[g] = object.files[g]
       /\ tmp \in OS!Files /\ tmp[f] = y
       /\ before \in OS!Files /\ (m = 1 => before = object.after)
       /\ (m # 1 => before = object.before)
  BY <1>4, <1>5, <1>6 DEF OS!Files, Slots
<1> HIDE DEF files, tmp, before
<1>11. /\ object' \in Store /\ object'.op = t /\ object'.before = before /\ object'.tmp = tmp
       /\ object'.files = files /\ object'.after = object.after
  BY <1>1, <1>2, <1>3, <1>10 DEF Store
<1>12. 1 \in DOMAIN op /\ op[1] = s /\ s.on = f
  BY <1>2 DEF s, f
<1>13. ASSUME NEW i \in DOMAIN t
       PROVE  /\ i + 1 \in DOMAIN op /\ i + 1 # 1 /\ t[i] = op[i + 1] /\ i \in Nat
              /\ t[i].do # "write" /\ (t[i].do = "rename" => i = 1 /\ s.do = "write")
  <2>1. i \in Nat /\ i + 1 \in DOMAIN op /\ i + 1 # 1 /\ t[i] = op[i + 1]
    BY <1>2
  <2>2. op[i + 1].do # "write" /\ (op[i + 1].do = "rename" => i + 1 = 2 /\ op[1].do = "write")
    BY <1>8, <2>1 DEF Ordered
  <2> QED
    BY <1>12, <2>1, <2>2
<1>14. ASSUME s.do = "write"
       PROVE  /\ 1 \in DOMAIN t /\ t[1].do = "rename" /\ t[1].on = f /\ t[1].value = s.value
              /\ m # 1
  <2>1. 2 \in DOMAIN op /\ op[2].do = "rename" /\ op[2].on = f /\ op[2].value = s.value
    BY <1>8, <1>12, <1>14 DEF Ordered
  <2>2. 1 \in 1..(m - 1) /\ m # 1
    BY <1>2, <2>1
  <2> QED
    BY <1>2, <2>1, <2>2
<1>15. Ordered(t, tmp)
  <2> SUFFICES ASSUME NEW i \in DOMAIN t
               PROVE  /\ t[i].do \in {"unlink", "sweep"} => t[i].value = OS!None
                      /\ t[i].do # "write"
                      /\ t[i].do = "rename" => i = 1 /\ tmp[t[1].on] = t[1].value
    BY DEF Ordered
  <2>1. t[i].do \in {"unlink", "sweep"} => t[i].value = OS!None
    BY <1>8, <1>13 DEF Ordered
  <2>2. ASSUME t[i].do = "rename" PROVE i = 1 /\ tmp[t[1].on] = t[1].value
    BY <1>7, <1>10, <1>13, <1>14, <2>2
  <2> QED
    BY <1>13, <2>1, <2>2
<1>16. \A i \in DOMAIN t : t[i].value = object.after[t[i].on]
  BY <1>8, <1>13
<1>17. s.do # "write" => files[f] = object.after[f]
  <2>1. s.value = object.after[f]
    BY <1>8, <1>12
  <2>2. s.do = "rename" => object.tmp[f] = s.value
    BY <1>8, <1>12 DEF Ordered
  <2>3. s.do \in {"unlink", "sweep"} => s.value = OS!None
    BY <1>8, <1>12 DEF Ordered
  <2> QED
    BY <1>4, <1>7, <1>10, <2>1, <2>2, <2>3
<1>18. \A g \in Slots : Touched(op, g) => g = f \/ Touched(t, g)
  <2> SUFFICES ASSUME NEW g \in Slots, NEW i \in DOMAIN op, op[i].on = g, g # f PROVE Touched(t, g)
    BY DEF Touched
  <2>1. i # 1
    BY <1>12
  <2>2. i - 1 \in 1..(m - 1) /\ (i - 1) + 1 = i
    BY <1>2, <2>1
  <2> QED
    BY <1>2, <2>2 DEF Touched
<1>19. \A g \in Slots : ~Touched(t, g) => files[g] = object.after[g]
  <2> TAKE g \in Slots
  <2> HAVE ~Touched(t, g)
  <2>1. CASE g = f
    <3>1. s.do # "write"
      BY <1>14, <2>1 DEF Touched
    <3> QED
      BY <1>17, <2>1, <3>1
  <2>2. CASE g # f
    BY <1>9, <1>10, <1>18, <2>2
  <2> QED
    BY <2>1, <2>2
<1>20. ASSUME m = 1 PROVE t = <<>> /\ before = object.after /\ \A g \in Slots : ~Touched(t, g)
  <2>1. DOMAIN t = {}
    BY <1>2, <1>20
  <2>2. t = <<>>
    BY <1>2, <2>1
  <2> QED
    BY <1>10, <1>20, <2>1, <2>2 DEF Touched
<1>21. \A g \in Slots : files[g] \in {before[g], object.after[g]}
  <2> TAKE g \in Slots
  <2>1. CASE m = 1
    BY <1>19, <1>20, <2>1
  <2>2. CASE m # 1
    <3>1. before = object.before
      BY <1>10, <2>2
    <3>2. CASE g = f
      <4>1. CASE s.do = "write"
        BY <1>7, <1>9, <1>10, <3>1, <3>2, <4>1
      <4>2. CASE s.do # "write"
        BY <1>17, <3>2, <4>2
      <4> QED
        BY <4>1, <4>2
    <3>3. CASE g # f
      BY <1>9, <1>10, <3>1, <3>3
    <3> QED
      BY <3>2, <3>3
  <2> QED
    BY <2>1, <2>2
<1>22. t = <<>> => before = object.after
  <2>1. t = <<>> => m = 1
    BY <1>2
  <2> QED
    BY <1>20, <2>1
<1> QED
  BY <1>11, <1>15, <1>16, <1>19, <1>21, <1>22 DEF StoreInv

\* A call that ends before it is done leaves some of its files changed, and none
\* half written.
LEMMA EndsEarly ==
  ASSUME StoreInv, NEW s, s \in Store, s.op = <<>>, s.files = object.files,
         s.before = object.files, s.after = object.files, object' = s
  PROVE  StoreInv'
<1>1. DOMAIN s.op = {}
  OBVIOUS
<1> QED
  BY <1>1 DEF StoreInv, Ordered

\* Every step keeps the invariant.
LEMMA StoreKept == ASSUME OS!Bounds, StoreInv, OS!Next PROVE StoreInv'
<1>0. object \in Store /\ object.files \in OS!Files /\ MaxCrashes \in Nat
  BY DEF StoreInv, Store, OS!Bounds
<1>1. OS!Local \in OS!Area /\ DatabaseDir \subseteq OS!Area /\ {OS!Local} \in SUBSET OS!Area
  BY DEF OS!Area
<1>2. \A n \in Database : database_dir[n] # Root => database_dir[n] \in DatabaseDir
  BY DEF OS!Bounds
<1>3. CASE OS!LocalSet
  BY <1>1, <1>3, SetBegins DEF OS!LocalSet
<1>4. CASE OS!LocalRemove
  BY <1>1, <1>4, UnlinkBegins DEF OS!LocalRemove
<1>5. CASE OS!LocalClear
  BY <1>1, <1>5, SweepBegins DEF OS!LocalClear
<1>6. CASE OS!StorePut
  BY <1>1, <1>2, <1>6, SetBegins DEF OS!StorePut
<1>7. CASE OS!StoreDelete
  BY <1>1, <1>2, <1>7, UnlinkBegins DEF OS!StoreDelete
<1>8. CASE OS!StoreClear
  <2>1. PICK n \in Database : database_dir[n] # Root /\ OS!RemoveAll({database_dir[n]})
    BY <1>8 DEF OS!StoreClear
  <2>2. {database_dir[n]} \in SUBSET OS!Area
    BY <1>1, <1>2, <2>1
  <2> QED
    BY <2>1, <2>2, SweepBegins
<1>9. CASE OS!DeleteDatabase
  <2>1. PICK n \in Database : OS!RemoveAll(OS!Under(n))
    BY <1>9 DEF OS!DeleteDatabase
  <2>2. OS!Under(n) \in SUBSET OS!Area
    BY <1>1, <1>2 DEF OS!Under
  <2> QED
    BY <2>1, <2>2, SweepBegins
<1>10. CASE OS!FileStep
  BY <1>10, StepFiles
<1> DEFINE nil == <<>>
<1>11. nil \in Seq(Ops)
  OBVIOUS
<1>12. CASE OS!WriteFails
  <2>1. object' = [object EXCEPT !.op = nil, !.before = object.files, !.after = object.files]
    BY <1>12 DEF OS!WriteFails, OS!Ended
  <2> HIDE DEF nil
  <2>2. /\ object' \in Store /\ object'.op = nil /\ object'.files = object.files
        /\ object'.before = object.files /\ object'.after = object.files
    BY <1>0, <1>11, <2>1 DEF Store
  <2> QED
    BY <2>2, EndsEarly DEF nil
<1>13. CASE OS!Crash
  <2> DEFINE none == [k \in ItemKey |-> OS!None]
  <2>0. none \in [ItemKey -> Value \cup {OS!None}]
    OBVIOUS
  <2> HIDE DEF none
  <2>1. /\ object.crashes < MaxCrashes
        /\ object' = [[object EXCEPT !.op = nil, !.before = object.files, !.after = object.files]
                        EXCEPT !.crashes = @ + 1, !.session = none]
    BY <1>13 DEF OS!Crash, OS!Ended, none
  <2> HIDE DEF nil
  <2>2. object.crashes \in 0..MaxCrashes
    BY <1>0 DEF Store
  <2>3. object.crashes + 1 \in 0..MaxCrashes
    BY <1>0, <2>1, <2>2
  <2>4. object' = [object EXCEPT !.op = nil, !.before = object.files, !.after = object.files,
                                 !.crashes = object.crashes + 1, !.session = none]
    BY <1>0, <2>1 DEF Store
  <2>5. /\ object' \in Store /\ object'.op = nil /\ object'.files = object.files
        /\ object'.before = object.files /\ object'.after = object.files
    BY <1>0, <1>11, <2>0, <2>3, <2>4 DEF Store
  <2> QED
    BY <2>5, EndsEarly DEF nil
<1>14. CASE OS!SessionStep
  <2>1. PICK t : object' = [object EXCEPT !.session = t] /\ t \in [ItemKey -> Value \cup {OS!None}]
    <3>1. CASE OS!SessionClear
      <4>1. [k \in ItemKey |-> OS!None] \in [ItemKey -> Value \cup {OS!None}]
        OBVIOUS
      <4> QED
        BY <3>1, <4>1 DEF OS!SessionClear
    <3>2. ASSUME NEW k \in ItemKey, NEW v \in Value \cup {OS!None},
                 object' = [object EXCEPT !.session[k] = v]
          PROVE  \E t : /\ object' = [object EXCEPT !.session = t]
                      /\ t \in [ItemKey -> Value \cup {OS!None}]
      <4>1. object' = [object EXCEPT !.session = [object.session EXCEPT ![k] = v]]
        BY <1>0, <3>2 DEF Store
      <4>2. [object.session EXCEPT ![k] = v] \in [ItemKey -> Value \cup {OS!None}]
        BY <1>0 DEF Store
      <4> QED
        BY <4>1, <4>2
    <3> QED
      BY <1>14, <3>1, <3>2 DEF OS!SessionStep, OS!SessionRemove, OS!SessionSet
  <2>2. /\ object' \in Store /\ object'.op = object.op /\ object'.files = object.files
        /\ object'.before = object.before /\ object'.after = object.after
        /\ object'.tmp = object.tmp
    BY <1>0, <2>1 DEF Store
  <2> QED
    BY <2>2 DEF StoreInv
<1> QED
  BY <1>3, <1>4, <1>5, <1>6, <1>7, <1>8, <1>9, <1>10, <1>12, <1>13, <1>14 DEF OS!Next

\* The invariant has what the run checks, and the types.
LEMMA StoreHolds == ASSUME StoreInv PROVE OS!ValuesWhole /\ OS!TypeOK
<1>1. object \in Store /\ object.files \in OS!Files /\ object.after \in OS!Files
  BY DEF StoreInv, Store
<1>2. OS!ValuesWhole
  <2>1. ASSUME object.op = <<>> PROVE object.files = object.after
    <3>1. \A f \in Slots : ~Touched(object.op, f)
      BY <2>1 DEF Touched
    <3>2. \A f \in Slots : object.files[f] = object.after[f]
      BY <3>1 DEF StoreInv
    <3> QED
      BY <1>1, <3>2 DEF OS!Files, Slots
  <2>2. \A f \in OS!Area \X ItemKey : object.files[f] \in {object.before[f], object.after[f]}
    BY DEF StoreInv, Slots
  <2> QED
    BY <2>1, <2>2 DEF OS!ValuesWhole
<1>3. OS!TypeOK
  BY <1>1 DEF Store, OS!TypeOK
<1> QED
  BY <1>2, <1>3

----------------------------------------------------------------------------
(* Private files.  What an open stream writes is not under any name, nor is it what
   another one writes, so that it can take its name when it is closed. *)

\* Who has a file open, and the state of the files, whole.
OpenFile == [target : FileName, inode : Nat, sync : BOOLEAN, open : BOOLEAN]
FileSystem == [dir : BOOLEAN, names : [FileName -> Nat], temps : [PF!Writer -> Nat],
               content : Seq(Seq(PF!Writer)), writers : Seq(OpenFile), sealed : SUBSET Nat]

\* A stream that is not closed.
Streaming(fs, w) == fs.writers[w].open /\ ~fs.writers[w].sync

\* Every inode exists, and an open stream has one to itself.
Owned(fs) ==
  /\ \A f \in FileName : fs.names[f] \in 0..Len(fs.content)
  /\ fs.sealed \subseteq 1..Len(fs.content)
  /\ \A w \in DOMAIN fs.writers :
       /\ fs.writers[w].inode \in 1..Len(fs.content)
       /\ Streaming(fs, w) =>
            /\ fs.writers[w].inode \notin fs.sealed
            /\ \A v \in DOMAIN fs.writers :
                 v # w /\ Streaming(fs, v) => fs.writers[v].inode # fs.writers[w].inode

\* A temporary file is that of an open stream.
TempsOwned(fs) ==
  \A w \in PF!Writer : fs.temps[w] # 0 =>
    w \in DOMAIN fs.writers /\ Streaming(fs, w) /\ fs.temps[w] = fs.writers[w].inode

\* What a name stands for is complete, and no other's.
Named(fs) ==
  \A f \in FileName : fs.names[f] # 0 =>
    fs.names[f] \in fs.sealed /\ \A g \in FileName \ {f} : fs.names[f] # fs.names[g]

\* The private files' invariant.
FilesInv ==
  /\ object \in FileSystem /\ Len(object.writers) <= MaxWriters
  /\ Owned(object) /\ TempsOwned(object) /\ Named(object)

\* There are no files at first.
LEMMA FilesStart == ASSUME PF!Bounds, PF!Init PROVE FilesInv
<1>1. /\ [f \in FileName |-> PF!Nowhere] \in [FileName -> Nat]
      /\ [w \in PF!Writer |-> PF!Nowhere] \in [PF!Writer -> Nat]
  BY DEF PF!Nowhere
<1> DEFINE nil == <<>>
<1>2. nil \in Seq(Seq(PF!Writer)) /\ nil \in Seq(OpenFile) /\ Len(nil) = 0 /\ DOMAIN nil = {}
  OBVIOUS
<1>3. object = [dir |-> TRUE, names |-> [f \in FileName |-> PF!Nowhere],
                temps |-> [w \in PF!Writer |-> PF!Nowhere], content |-> nil, writers |-> nil,
                sealed |-> {}]
  BY DEF PF!Init
<1> HIDE DEF nil
<1>4. object \in FileSystem
  BY <1>1, <1>2, <1>3 DEF FileSystem
<1>5. /\ \A f \in FileName : object.names[f] = 0
      /\ \A w \in PF!Writer : object.temps[w] = 0
      /\ object.content = nil /\ object.writers = nil /\ object.sealed = {}
  BY <1>3 DEF PF!Nowhere
<1>6. Len(object.writers) <= MaxWriters
  BY <1>2, <1>5 DEF PF!Bounds
<1>7. Owned(object) /\ TempsOwned(object) /\ Named(object)
  BY <1>2, <1>5 DEF Owned, TempsOwned, Named
<1> QED
  BY <1>4, <1>6, <1>7 DEF FilesInv

\* Where only names and temporary files go away.
LEMMA NamesGo ==
  ASSUME FilesInv, NEW s \in FileSystem, object' = s, s.writers = object.writers,
         s.sealed = object.sealed, Len(s.content) = Len(object.content),
         \A f \in FileName : s.names[f] \in {0, object.names[f]},
         \A w \in PF!Writer : s.temps[w] \in {0, object.temps[w]}
  PROVE  FilesInv'
<1>1. Owned(s)
  <2>1. \A f \in FileName : s.names[f] \in 0..Len(s.content)
    <3>1. Len(object.content) \in Nat
      BY DEF FilesInv, FileSystem
    <3> QED
      BY <3>1 DEF FilesInv, Owned
  <2> QED
    BY <2>1 DEF FilesInv, Owned, Streaming
<1>2. TempsOwned(s)
  BY DEF FilesInv, TempsOwned, Streaming
<1>3. Named(s)
  BY DEF FilesInv, Named
<1> QED
  BY <1>1, <1>2, <1>3 DEF FilesInv

\* A writer that is opened, on an inode that no open stream has.
LEMMA WriterOpens ==
  ASSUME PF!Bounds, FilesInv, Len(object.writers) < MaxWriters, NEW s \in FileSystem, object' = s,
         NEW f \in FileName, NEW inode \in 1..Len(s.content), NEW sync \in BOOLEAN,
         s.writers = PF!Opened(f, inode, sync), s.sealed \subseteq 1..Len(s.content),
         object.sealed \subseteq s.sealed,
         \A i \in s.sealed \ object.sealed : i = Len(object.content) + 1,
         Len(s.content) \in {Len(object.content), Len(object.content) + 1},
         ~sync => inode = Len(object.content) + 1 /\ inode \notin s.sealed,
         \A g \in FileName : s.names[g] \in 0..Len(s.content),
         \A w \in PF!Writer : s.temps[w] = IF w = Len(object.writers) + 1 /\ ~sync THEN inode
                                             ELSE object.temps[w],
         Named(s)
  PROVE  FilesInv'
<1> DEFINE m == Len(object.writers)
           rec == [target |-> f, inode |-> inode, sync |-> sync, open |-> TRUE]
<1>1. m \in Nat /\ m < MaxWriters /\ MaxWriters \in Nat /\ DOMAIN object.writers = 1..m
      /\ object.writers \in Seq(OpenFile) /\ Len(object.content) \in Nat /\ Len(s.content) \in Nat
  BY DEF FilesInv, FileSystem, PF!Bounds
<1>2. rec \in OpenFile
  BY <1>1 DEF OpenFile
<1>3. s.writers = Append(object.writers, rec)
  BY DEF PF!Opened
<1>4. rec.inode = inode /\ rec.sync = sync /\ rec.open
  OBVIOUS
<1> HIDE DEF rec
<1>5. /\ DOMAIN s.writers = 1..(m + 1) /\ Len(s.writers) = m + 1 /\ s.writers[m + 1] = rec
      /\ \A w \in 1..m : s.writers[w] = object.writers[w]
  BY <1>1, <1>2, <1>3
<1> HIDE DEF m
<1>6. \A w \in 1..m :
        /\ object.writers[w].inode \in 1..Len(object.content)
        /\ Streaming(object, w) =>
             /\ object.writers[w].inode \notin object.sealed
             /\ \A v \in 1..m :
                  v # w /\ Streaming(object, v) => object.writers[v].inode # object.writers[w].inode
  BY <1>1 DEF FilesInv, Owned
<1>7. \A w \in 1..m : Streaming(s, w) <=> Streaming(object, w)
  BY <1>5 DEF Streaming
<1>8. Streaming(s, m + 1) <=> ~sync
  BY <1>4, <1>5 DEF Streaming
<1>9. \A w \in DOMAIN s.writers : w \in 1..m \/ w = m + 1
  BY <1>1, <1>5
<1>10. Owned(s)
  <2>1. ASSUME NEW w \in 1..m
        PROVE  /\ s.writers[w].inode \in 1..Len(s.content)
               /\ s.writers[w].inode # Len(object.content) + 1
               /\ Streaming(s, w) => s.writers[w].inode \notin s.sealed
    <3>1. /\ s.writers[w].inode = object.writers[w].inode
          /\ s.writers[w].inode \in 1..Len(object.content)
      BY <1>5, <1>6
    <3>2. s.writers[w].inode \in 1..Len(s.content) /\ s.writers[w].inode # Len(object.content) + 1
      BY <1>1, <3>1
    <3> QED
      BY <1>6, <1>7, <3>1, <3>2
  <2>2. ASSUME NEW w \in DOMAIN s.writers, Streaming(s, w), NEW v \in DOMAIN s.writers, v # w,
               Streaming(s, v)
        PROVE  s.writers[v].inode # s.writers[w].inode
    <3>1. CASE w \in 1..m /\ v \in 1..m
      BY <1>5, <1>6, <1>7, <2>2, <3>1
    <3>2. CASE w = m + 1 /\ v \in 1..m
      BY <1>4, <1>5, <1>8, <2>1, <2>2, <3>2
    <3>3. CASE w \in 1..m /\ v = m + 1
      BY <1>4, <1>5, <1>8, <2>1, <2>2, <3>3
    <3> QED
      BY <1>9, <2>2, <3>1, <3>2, <3>3
  <2>3. ASSUME NEW w \in DOMAIN s.writers
        PROVE  /\ s.writers[w].inode \in 1..Len(s.content)
               /\ Streaming(s, w) => s.writers[w].inode \notin s.sealed
    <3>1. CASE w \in 1..m
      BY <2>1, <3>1
    <3>2. CASE w = m + 1
      BY <1>4, <1>5, <1>8, <3>2
    <3> QED
      BY <1>9, <3>1, <3>2
  <2> QED
    BY <2>2, <2>3 DEF Owned
<1>11. TempsOwned(s)
  <2> SUFFICES ASSUME NEW w \in PF!Writer, s.temps[w] # 0
               PROVE  w \in DOMAIN s.writers /\ Streaming(s, w) /\ s.temps[w] = s.writers[w].inode
    BY DEF TempsOwned
  <2>1. CASE w = m + 1 /\ ~sync
    <3>1. w \in DOMAIN s.writers
      BY <1>1, <1>5, <2>1
    <3> QED
      BY <1>4, <1>5, <1>8, <2>1, <3>1 DEF m
  <2>2. CASE ~(w = m + 1 /\ ~sync)
    <3>1. s.temps[w] = object.temps[w]
      BY <2>2 DEF m
    <3>2. w \in 1..m /\ Streaming(object, w) /\ object.temps[w] = object.writers[w].inode
      BY <1>1, <3>1 DEF FilesInv, TempsOwned
    <3>3. w \in DOMAIN s.writers
      BY <1>1, <1>5, <3>2
    <3> QED
      BY <1>5, <1>7, <3>1, <3>2, <3>3
  <2> QED
    BY <2>1, <2>2
<1>12. Len(s.writers) <= MaxWriters
  BY <1>1, <1>5
<1> QED
  BY <1>10, <1>11, <1>12 DEF FilesInv

\* A name that is given to a new inode.
LEMMA NewNamed ==
  ASSUME FilesInv, NEW s, NEW f \in FileName, NEW new, new = Len(object.content) + 1,
         s.names = [object.names EXCEPT ![f] = new], s.sealed = object.sealed \cup {new}
  PROVE  Named(s) /\ new \in Nat /\ new # 0
<1>1. Len(object.content) \in Nat /\ object.names \in [FileName -> Nat]
  BY DEF FilesInv, FileSystem
<1>2. \A g \in FileName : object.names[g] \in 0..Len(object.content)
  BY DEF FilesInv, Owned
<1>3. s.names[f] = new /\ \A g \in FileName : g # f => s.names[g] = object.names[g]
  BY <1>1
<1>4. \A g \in FileName : g # f => s.names[g] # new
  BY <1>1, <1>2, <1>3
<1>5. Named(object)
  BY DEF FilesInv
<1>6. ASSUME NEW g \in FileName, s.names[g] # 0
      PROVE  s.names[g] \in s.sealed /\ \A h \in FileName \ {g} : s.names[g] # s.names[h]
  BY <1>3, <1>4, <1>5, <1>6 DEF Named
<1> QED
  BY <1>1, <1>6 DEF Named

\* A writer that is closed, its file complete then or given up.
LEMMA WriterCloses ==
  ASSUME FilesInv, NEW w \in DOMAIN object.writers, NEW s \in FileSystem, object' = s,
         s.writers = [object.writers EXCEPT ![w].open = FALSE],
         s.content = object.content, s.temps[w] = 0,
         \A v \in PF!Writer : v # w => s.temps[v] = object.temps[v],
         \/ s.sealed = object.sealed
         \/ s.sealed = object.sealed \cup {object.writers[w].inode} /\ Streaming(object, w),
         \A f \in FileName : s.names[f] \in 0..Len(object.content),
         Named(s)
  PROVE  FilesInv'
<1>1. object.writers \in Seq(OpenFile) /\ Len(object.writers) \in Nat
  BY DEF FilesInv, FileSystem
<1>2. /\ DOMAIN s.writers = DOMAIN object.writers /\ Len(s.writers) = Len(object.writers)
      /\ \A v \in DOMAIN object.writers :
           /\ s.writers[v].inode = object.writers[v].inode
           /\ v # w => s.writers[v] = object.writers[v]
      /\ ~s.writers[w].open
  <2>1. object.writers[w] \in OpenFile
    BY <1>1
  <2>2. s.writers \in Seq(OpenFile)
    BY DEF FileSystem
  <2>3. DOMAIN s.writers = DOMAIN object.writers
    OBVIOUS
  <2>4. Len(s.writers) = Len(object.writers)
    BY <1>1, <2>2, <2>3
  <2>5. s.writers[w] = [object.writers[w] EXCEPT !.open = FALSE]
    BY <1>1
  <2>6. s.writers[w].inode = object.writers[w].inode /\ ~s.writers[w].open
    BY <2>1, <2>5 DEF OpenFile
  <2>7. \A v \in DOMAIN object.writers : v # w => s.writers[v] = object.writers[v]
    BY <1>1
  <2> QED
    BY <2>3, <2>4, <2>6, <2>7
<1>3. \A v \in DOMAIN object.writers : Streaming(s, v) <=> v # w /\ Streaming(object, v)
  BY <1>2 DEF Streaming
<1>4. /\ object.sealed \subseteq 1..Len(object.content)
      /\ \A v \in DOMAIN object.writers :
           /\ object.writers[v].inode \in 1..Len(object.content)
           /\ Streaming(object, v) =>
                /\ object.writers[v].inode \notin object.sealed
                /\ \A u \in DOMAIN object.writers :
                     u # v /\ Streaming(object, u) =>
                          object.writers[u].inode # object.writers[v].inode
  BY DEF FilesInv, Owned
<1>5. Owned(s)
  <2>1. s.sealed \subseteq 1..Len(s.content)
    BY <1>4
  <2>2. ASSUME NEW v \in DOMAIN s.writers
        PROVE  /\ s.writers[v].inode \in 1..Len(s.content)
               /\ Streaming(s, v) =>
                    /\ s.writers[v].inode \notin s.sealed
                    /\ \A u \in DOMAIN s.writers :
                         u # v /\ Streaming(s, u) => s.writers[u].inode # s.writers[v].inode
    BY <1>2, <1>3, <1>4
  <2> QED
    BY <2>1, <2>2 DEF Owned
<1>6. TempsOwned(s)
  <2> SUFFICES ASSUME NEW v \in PF!Writer, s.temps[v] # 0
               PROVE  v \in DOMAIN s.writers /\ Streaming(s, v) /\ s.temps[v] = s.writers[v].inode
    BY DEF TempsOwned
  <2>1. v # w /\ s.temps[v] = object.temps[v]
    OBVIOUS
  <2>2. /\ v \in DOMAIN object.writers /\ Streaming(object, v)
        /\ object.temps[v] = object.writers[v].inode
    BY <2>1 DEF FilesInv, TempsOwned
  <2> QED
    BY <1>2, <1>3, <2>1, <2>2
<1>7. Len(s.writers) <= MaxWriters
  BY <1>2 DEF FilesInv
<1> QED
  BY <1>5, <1>6, <1>7 DEF FilesInv

\* Every step keeps the invariant.
LEMMA FilesKept == ASSUME PF!Bounds, FilesInv, PF!Next PROVE FilesInv'
<1> DEFINE new == Len(object.content) + 1
           nil == <<>>
           m == Len(object.writers)
<1>0. /\ object \in FileSystem /\ object.names \in [FileName -> Nat]
      /\ object.temps \in [PF!Writer -> Nat] /\ object.content \in Seq(Seq(PF!Writer))
      /\ object.writers \in Seq(OpenFile) /\ object.sealed \subseteq Nat
      /\ Len(object.content) \in Nat /\ m \in Nat /\ m <= MaxWriters /\ MaxWriters \in Nat
      /\ DOMAIN object.writers = 1..m
  BY DEF FilesInv, FileSystem, PF!Bounds
<1>1. /\ nil \in Seq(PF!Writer) /\ new \in Nat /\ new # 0 /\ PF!NewInode = new /\ PF!Nowhere = 0
      /\ DOMAIN object.writers \subseteq PF!Writer
  BY <1>0 DEF PF!NewInode, PF!Nowhere, PF!Writer
<1>2. ASSUME NEW x \in Seq(PF!Writer)
      PROVE  /\ Append(object.content, x) \in Seq(Seq(PF!Writer))
             /\ Len(Append(object.content, x)) = new
  BY <1>0
<1>3. \A f \in FileName : object.names[f] \in 0..Len(object.content)
  BY DEF FilesInv, Owned
<1>4. object.sealed \subseteq 1..Len(object.content) /\ Named(object)
  BY DEF FilesInv, Owned
<1> HIDE DEF new, nil, m
<1>5. CASE PF!GetFile
  <2>1. PICK f \in FileName :
          object' = [object EXCEPT !.names[f] = new, !.content = Append(@, nil),
                     !.sealed = @ \cup {new}]
    BY <1>1, <1>5 DEF PF!GetFile, nil
  <2> DEFINE names == [object.names EXCEPT ![f] = new]
             content == Append(object.content, nil)
             sealed == object.sealed \cup {new}
  <2>2. object' = [object EXCEPT !.names = names, !.content = content, !.sealed = sealed]
    BY <1>0, <2>1 DEF FileSystem
  <2>3. /\ names \in [FileName -> Nat] /\ sealed \subseteq 1..new /\ sealed \subseteq Nat
        /\ \A g \in FileName : names[g] \in 0..new
    BY <1>0, <1>1, <1>3, <1>4 DEF new
  <2>4. content \in Seq(Seq(PF!Writer)) /\ Len(content) = new
    BY <1>1, <1>2
  <2> HIDE DEF content
  <2>5. /\ object' \in FileSystem /\ object'.names = names /\ object'.content = content
        /\ object'.sealed = sealed /\ object'.temps = object.temps
        /\ object'.writers = object.writers
    <3> HIDE DEF names, sealed
    <3> QED
      BY <1>0, <2>2, <2>3, <2>4 DEF FileSystem
  <2>6. Named(object')
    BY <2>5, NewNamed DEF new
  <2>7. /\ Owned(object)
        /\ \A w \in DOMAIN object.writers :
             object.writers[w].inode \in 1..new /\ object.writers[w].inode # new
    <3>1. Owned(object)
      BY DEF FilesInv
    <3> QED
      BY <1>0, <3>1 DEF Owned, new
  <2>8. Owned(object')
    <3> HIDE DEF names
    <3> QED
      BY <2>3, <2>4, <2>5, <2>7 DEF Owned, Streaming
  <2>9. TempsOwned(object')
    BY <2>5 DEF FilesInv, TempsOwned, Streaming
  <2> QED
    BY <1>0, <2>5, <2>6, <2>8, <2>9 DEF FilesInv, m
<1>6. CASE PF!GetDirectory
  <2>1. object' = [object EXCEPT !.dir = TRUE]
    BY <1>6 DEF PF!GetDirectory
  <2>2. /\ object' \in FileSystem /\ object'.names = object.names
        /\ object'.content = object.content
        /\ object'.sealed = object.sealed /\ object'.temps = object.temps
        /\ object'.writers = object.writers
    BY <1>0, <2>1 DEF FileSystem
  <2> QED
    BY <2>2, NamesGo
<1>7. CASE PF!RemoveFile
  <2>1. PICK f \in FileName : object' = [object EXCEPT !.names[f] = 0]
    BY <1>1, <1>7 DEF PF!RemoveFile
  <2> DEFINE names == [object.names EXCEPT ![f] = 0]
  <2>2. names \in [FileName -> Nat] /\ \A g \in FileName : names[g] \in {0, object.names[g]}
    BY <1>0
  <2>3. object' = [object EXCEPT !.names = names]
    BY <1>0, <2>1 DEF FileSystem
  <2> HIDE DEF names
  <2>4. /\ object' \in FileSystem /\ object'.names = names /\ object'.content = object.content
        /\ object'.sealed = object.sealed /\ object'.temps = object.temps
        /\ object'.writers = object.writers
    BY <1>0, <2>2, <2>3 DEF FileSystem
  <2> QED
    BY <2>2, <2>4, NamesGo
<1>8. CASE PF!RemoveTemp
  <2>1. PICK w \in PF!Writer : object' = [object EXCEPT !.temps[w] = 0]
    BY <1>1, <1>8 DEF PF!RemoveTemp
  <2> DEFINE temps == [object.temps EXCEPT ![w] = 0]
  <2>2. temps \in [PF!Writer -> Nat] /\ \A v \in PF!Writer : temps[v] \in {0, object.temps[v]}
    BY <1>0
  <2>3. object' = [object EXCEPT !.temps = temps]
    BY <1>0, <2>1 DEF FileSystem
  <2> HIDE DEF temps
  <2>4. /\ object' \in FileSystem /\ object'.names = object.names
        /\ object'.content = object.content
        /\ object'.sealed = object.sealed /\ object'.temps = temps
        /\ object'.writers = object.writers
    BY <1>0, <2>2, <2>3 DEF FileSystem
  <2> QED
    BY <2>2, <2>4, NamesGo
<1>9. CASE PF!RemoveDirectory
  <2> DEFINE names == [f \in FileName |-> 0]
             temps == [w \in PF!Writer |-> 0]
  <2>1. object' = [object EXCEPT !.dir = FALSE, !.names = names, !.temps = temps]
    BY <1>1, <1>9 DEF PF!RemoveDirectory
  <2>2. names \in [FileName -> Nat] /\ \A f \in FileName : names[f] \in {0, object.names[f]}
    OBVIOUS
  <2>3. temps \in [PF!Writer -> Nat] /\ \A v \in PF!Writer : temps[v] \in {0, object.temps[v]}
    OBVIOUS
  <2> HIDE DEF names, temps
  <2>4. /\ object' \in FileSystem /\ object'.names = names /\ object'.content = object.content
        /\ object'.sealed = object.sealed /\ object'.temps = temps
        /\ object'.writers = object.writers
    BY <1>0, <2>1, <2>2, <2>3 DEF FileSystem
  <2> QED
    BY <2>2, <2>3, <2>4, NamesGo
<1> DEFINE Rec(f, inode, sync) == [target |-> f, inode |-> inode, sync |-> sync, open |-> TRUE]
<1>10. ASSUME NEW f \in FileName, NEW inode \in Nat, NEW sync \in BOOLEAN
       PROVE  PF!Opened(f, inode, sync) \in Seq(OpenFile)
  <2>1. Rec(f, inode, sync) \in OpenFile
    BY DEF OpenFile
  <2>2. PF!Opened(f, inode, sync) = Append(object.writers, Rec(f, inode, sync))
    BY DEF PF!Opened
  <2> HIDE DEF Rec
  <2> QED
    BY <1>0, <2>1, <2>2
<1>11. CASE PF!CreateWritable
  <2>1. PICK f \in FileName, keepExistingData \in BOOLEAN :
          LET start == IF keepExistingData /\ object.names[f] # 0
                         THEN object.content[object.names[f]] ELSE nil
          IN object' = [object EXCEPT !.temps[Len(object.writers) + 1] = new,
                                      !.content = Append(@, start),
                                      !.writers = PF!Opened(f, new, FALSE)]
    BY <1>1, <1>11 DEF PF!CreateWritable, nil
  <2>2. Len(object.writers) < MaxWriters
    BY <1>11 DEF PF!CreateWritable
  <2> DEFINE start == IF keepExistingData /\ object.names[f] # 0
                        THEN object.content[object.names[f]] ELSE nil
             content == Append(object.content, start)
             writers == PF!Opened(f, new, FALSE)
             temps == [object.temps EXCEPT ![Len(object.writers) + 1] = new]
  <2>3. start \in Seq(PF!Writer)
    BY <1>0, <1>1, <1>3
  <2>4. content \in Seq(Seq(PF!Writer)) /\ Len(content) = new
    <3> HIDE DEF start
    <3> QED
      BY <1>2, <2>3
  <2>5. writers \in Seq(OpenFile)
    BY <1>1, <1>10
  <2>6. /\ temps \in [PF!Writer -> Nat]
        /\ \A w \in PF!Writer : temps[w] = IF w = Len(object.writers) + 1 THEN new
                                             ELSE object.temps[w]
    BY <1>0, <1>1
  <2>7. object' = [object EXCEPT !.temps = temps, !.content = content, !.writers = writers]
    BY <1>0, <2>1 DEF FileSystem
  <2> HIDE DEF content, writers, temps
  <2>8. /\ object' \in FileSystem /\ object'.names = object.names /\ object'.content = content
        /\ object'.sealed = object.sealed /\ object'.temps = temps /\ object'.writers = writers
    BY <1>0, <2>4, <2>5, <2>6, <2>7 DEF FileSystem
  <2>9. /\ object.sealed \subseteq 1..new /\ new \notin object.sealed /\ new \in 1..new
        /\ \A g \in FileName : object.names[g] \in 0..new
    BY <1>0, <1>3, <1>4 DEF new
  <2>10. Named(object')
    BY <1>4, <2>8 DEF Named
  <2> QED
    BY <2>2, <2>4, <2>6, <2>8, <2>9, <2>10, WriterOpens DEF new, writers
<1>12. CASE PF!CreateSyncAccessHandle
  <2>1. PICK f \in FileName :
          object' = IF object.names[f] # 0
                      THEN [object EXCEPT !.writers = PF!Opened(f, object.names[f], TRUE)]
                      ELSE [object EXCEPT !.writers = PF!Opened(f, new, TRUE), !.names[f] = new,
                                          !.content = Append(@, nil), !.sealed = @ \cup {new}]
    BY <1>1, <1>12 DEF PF!CreateSyncAccessHandle, nil
  <2>2. Len(object.writers) < MaxWriters
    BY <1>12 DEF PF!CreateSyncAccessHandle
  <2>3. CASE object.names[f] # 0
    <3> DEFINE writers == PF!Opened(f, object.names[f], TRUE)
    <3>1. object' = [object EXCEPT !.writers = writers] /\ writers \in Seq(OpenFile)
      BY <1>0, <1>10, <2>1, <2>3
    <3> HIDE DEF writers
    <3>2. /\ object' \in FileSystem /\ object'.names = object.names
          /\ object'.content = object.content
          /\ object'.sealed = object.sealed /\ object'.temps = object.temps
          /\ object'.writers = writers
      BY <1>0, <3>1 DEF FileSystem
    <3>3. object.names[f] \in 1..Len(object.content)
      BY <1>0, <1>3, <2>3
    <3>4. Named(object')
      BY <1>4, <3>2 DEF Named
    <3> QED
      BY <1>3, <1>4, <2>2, <3>2, <3>3, <3>4, WriterOpens DEF writers
  <2>4. CASE object.names[f] = 0
    <3> DEFINE writers == PF!Opened(f, new, TRUE)
               names == [object.names EXCEPT ![f] = new]
               content == Append(object.content, nil)
               sealed == object.sealed \cup {new}
    <3>1. object' = [object EXCEPT !.writers = writers, !.names = names, !.content = content,
                                   !.sealed = sealed]
      BY <1>0, <2>1, <2>4 DEF FileSystem
    <3>2. writers \in Seq(OpenFile) /\ content \in Seq(Seq(PF!Writer)) /\ Len(content) = new
      BY <1>1, <1>2, <1>10
    <3>3. /\ names \in [FileName -> Nat] /\ sealed \subseteq 1..new /\ sealed \subseteq Nat
          /\ object.sealed \subseteq sealed /\ (\A i \in sealed \ object.sealed : i = new)
          /\ new \in 1..new /\ \A g \in FileName : names[g] \in 0..new
      BY <1>0, <1>1, <1>3, <1>4 DEF new
    <3> HIDE DEF writers, content
    <3>4. /\ object' \in FileSystem /\ object'.names = names /\ object'.content = content
          /\ object'.sealed = sealed /\ object'.temps = object.temps /\ object'.writers = writers
      <4> HIDE DEF names, sealed
      <4> QED
        BY <1>0, <3>1, <3>2, <3>3 DEF FileSystem
    <3>5. Named(object')
      BY <3>4, NewNamed DEF new
    <3> HIDE DEF names, sealed
    <3> QED
      BY <2>2, <3>2, <3>3, <3>4, <3>5, WriterOpens DEF new, writers
  <2> QED
    BY <2>3, <2>4
<1>13. ASSUME NEW w \in DOMAIN object.writers, NEW x \in Seq(PF!Writer),
              object' = [object EXCEPT !.content[object.writers[w].inode] = x]
       PROVE  FilesInv'
  <2> DEFINE i == object.writers[w].inode
             content == [object.content EXCEPT ![i] = x]
  <2>1. i \in 1..Len(object.content)
    BY DEF FilesInv, Owned
  <2>2. content \in Seq(Seq(PF!Writer)) /\ Len(content) = Len(object.content)
    <3> HIDE DEF i
    <3> QED
      BY <1>0, <2>1
  <2>3. object' = [object EXCEPT !.content = content]
    BY <1>0, <1>13 DEF FileSystem
  <2> HIDE DEF content
  <2>4. /\ object' \in FileSystem /\ object'.names = object.names /\ object'.content = content
        /\ object'.sealed = object.sealed /\ object'.temps = object.temps
        /\ object'.writers = object.writers
    BY <1>0, <2>2, <2>3 DEF FileSystem
  <2> QED
    BY <2>2, <2>4, NamesGo
<1>14. CASE PF!Write
  <2>1. PICK w \in DOMAIN object.writers :
          object' = [object EXCEPT !.content[object.writers[w].inode] = Append(@, w)]
    BY <1>14 DEF PF!Write
  <2> DEFINE i == object.writers[w].inode
  <2>2. i \in 1..Len(object.content) /\ w \in PF!Writer
    BY <1>1 DEF FilesInv, Owned
  <2>3. Append(object.content[i], w) \in Seq(PF!Writer)
    <3> HIDE DEF i
    <3> QED
      BY <1>0, <2>2
  <2>4. object' = [object EXCEPT !.content[i] = Append(object.content[i], w)]
    BY <1>0, <2>1 DEF FileSystem
  <2> QED
    BY <1>13, <2>3, <2>4
<1>15. CASE PF!Truncate
  BY <1>1, <1>13, <1>15 DEF PF!Truncate, nil
<1>16. ASSUME NEW w \in DOMAIN object.writers
       PROVE  /\ w \in PF!Writer /\ object.writers[w] \in OpenFile
              /\ [object.writers EXCEPT ![w].open = FALSE] \in Seq(OpenFile)
  <2>1. object.writers[w] \in OpenFile /\ w \in PF!Writer
    BY <1>0, <1>1
  <2>2. [object.writers[w] EXCEPT !.open = FALSE] \in OpenFile
    BY <2>1 DEF OpenFile
  <2>3. [object.writers EXCEPT ![w].open = FALSE]
          = [object.writers EXCEPT ![w] = [object.writers[w] EXCEPT !.open = FALSE]]
    BY <1>0
  <2> QED
    BY <1>0, <2>1, <2>2, <2>3
<1>17. CASE PF!CloseSync
  <2>1. PICK w \in DOMAIN object.writers :
          object.writers[w].sync /\ object' = [object EXCEPT !.writers[w].open = FALSE]
    BY <1>17 DEF PF!CloseSync
  <2> DEFINE writers == [object.writers EXCEPT ![w].open = FALSE]
  <2>2. object' = [object EXCEPT !.writers = writers] /\ writers \in Seq(OpenFile)
    BY <1>0, <1>16, <2>1 DEF FileSystem
  <2> HIDE DEF writers
  <2>3. /\ object' \in FileSystem /\ object'.names = object.names
        /\ object'.content = object.content
        /\ object'.sealed = object.sealed /\ object'.temps = object.temps
        /\ object'.writers = writers
    BY <1>0, <2>2 DEF FileSystem
  <2>4. object.temps[w] = 0
    BY <1>16, <2>1 DEF FilesInv, TempsOwned, Streaming
  <2>5. Named(object')
    BY <1>4, <2>3 DEF Named
  <2> QED
    BY <1>3, <2>3, <2>4, <2>5, WriterCloses DEF writers
<1>18. CASE PF!CloseWritable
  <2>1. PICK w \in DOMAIN object.writers :
          /\ PF!Open(w) /\ ~object.writers[w].sync
          /\ object' = [object EXCEPT
               !.writers[w].open = FALSE,
               !.names[object.writers[w].target] = IF object.temps[w] = 0 THEN @
                                                     ELSE object.temps[w],
               !.temps[w] = 0, !.sealed = @ \cup {object.writers[w].inode}]
    BY <1>1, <1>18 DEF PF!CloseWritable
  <2> DEFINE writers == [object.writers EXCEPT ![w].open = FALSE]
             f == object.writers[w].target
             i == object.writers[w].inode
             new_name == IF object.temps[w] = 0 THEN object.names[f] ELSE object.temps[w]
             names == [object.names EXCEPT ![f] = new_name]
             temps == [object.temps EXCEPT ![w] = 0]
             sealed == object.sealed \cup {i}
  <2>2. /\ w \in PF!Writer /\ f \in FileName /\ i \in Nat /\ Streaming(object, w)
        /\ writers \in Seq(OpenFile)
    BY <1>16, <2>1 DEF OpenFile, Streaming, PF!Open
  <2>3. i \in 1..Len(object.content) /\ i \notin object.sealed /\ i # 0
    BY <1>0, <2>2 DEF FilesInv, Owned
  <2>4. object.temps[w] = 0 \/ object.temps[w] = i
    BY <2>2 DEF FilesInv, TempsOwned
  <2>5. object' = [object EXCEPT !.writers = writers, !.names = names, !.temps = temps,
                   !.sealed = sealed]
    BY <1>0, <2>1 DEF FileSystem
  <2> HIDE DEF f, i
  <2>6. new_name \in {object.names[f], i} /\ new_name \in 0..Len(object.content)
    BY <1>0, <1>3, <2>2, <2>3, <2>4
  <2> HIDE DEF new_name
  <2>7. /\ names \in [FileName -> Nat] /\ names[f] = new_name
        /\ \A g \in FileName : g # f => names[g] = object.names[g]
        /\ temps \in [PF!Writer -> Nat] /\ temps[w] = 0
        /\ \A v \in PF!Writer : v # w => temps[v] = object.temps[v]
    BY <1>0, <2>2, <2>6
  <2> HIDE DEF writers, names, temps
  <2>8. /\ object' \in FileSystem /\ object'.names = names /\ object'.content = object.content
        /\ object'.sealed = sealed /\ object'.temps = temps /\ object'.writers = writers
    BY <1>0, <2>2, <2>5, <2>7 DEF FileSystem
  <2>9. \A g \in FileName : names[g] \in 0..Len(object.content)
    BY <1>3, <2>6, <2>7
  <2>10. Named(object')
    <3>1. ASSUME NEW g \in FileName, names[g] # 0
          PROVE  names[g] \in sealed /\ \A h \in FileName \ {g} : names[g] # names[h]
      <4>1. CASE new_name = object.names[f]
        <5>1. \A h \in FileName : names[h] = object.names[h]
          BY <2>7, <4>1
        <5> QED
          BY <1>4, <3>1, <5>1 DEF Named
      <4>2. CASE new_name = i
        <5>1. \A h \in FileName : h # f => names[h] # i
          BY <1>4, <2>3, <2>7 DEF Named
        <5>2. CASE g = f
          BY <2>7, <4>2, <5>1, <5>2
        <5>3. CASE g # f
          <6>1. names[g] = object.names[g] /\ names[g] \in object.sealed
            BY <1>4, <2>7, <3>1, <5>3 DEF Named
          <6>2. ASSUME NEW h \in FileName \ {g} PROVE names[g] # names[h]
            BY <1>4, <2>7, <3>1, <4>2, <5>1, <5>3, <6>1 DEF Named
          <6> QED
            BY <6>1, <6>2
        <5> QED
          BY <5>2, <5>3
      <4> QED
        BY <2>6, <4>1, <4>2
    <3> HIDE DEF sealed
    <3> QED
      BY <2>8, <3>1 DEF Named
  <2> QED
    BY <2>2, <2>7, <2>8, <2>9, <2>10, WriterCloses DEF writers, i
<1>19. CASE PF!AbortWritable
  <2>1. PICK w \in DOMAIN object.writers :
          object' = [object EXCEPT !.writers[w].open = FALSE, !.temps[w] = 0]
    BY <1>1, <1>19 DEF PF!AbortWritable
  <2> DEFINE writers == [object.writers EXCEPT ![w].open = FALSE]
             temps == [object.temps EXCEPT ![w] = 0]
  <2>2. object' = [object EXCEPT !.writers = writers, !.temps = temps] /\ writers \in Seq(OpenFile)
    BY <1>0, <1>16, <2>1 DEF FileSystem
  <2>3. /\ temps \in [PF!Writer -> Nat] /\ temps[w] = 0
        /\ \A v \in PF!Writer : v # w => temps[v] = object.temps[v]
    BY <1>0, <1>16
  <2> HIDE DEF writers, temps
  <2>4. /\ object' \in FileSystem /\ object'.names = object.names
        /\ object'.content = object.content
        /\ object'.sealed = object.sealed /\ object'.temps = temps /\ object'.writers = writers
    BY <1>0, <2>2, <2>3 DEF FileSystem
  <2>5. Named(object')
    BY <1>4, <2>4 DEF Named
  <2> QED
    BY <1>3, <2>3, <2>4, <2>5, WriterCloses DEF writers
<1> QED
  BY <1>5, <1>6, <1>7, <1>8, <1>9, <1>11, <1>12, <1>14, <1>15, <1>17, <1>18, <1>19 DEF PF!Next

\* The invariant has what the run checks, and the types.
LEMMA FilesHold == ASSUME FilesInv PROVE PF!FilesWhole /\ PF!TypeOK
<1>0. /\ object \in FileSystem /\ Owned(object) /\ TempsOwned(object) /\ Named(object)
      /\ PF!Nowhere = 0
  BY DEF FilesInv, PF!Nowhere
<1>1. PF!FilesWhole
  <2>1. ASSUME NEW f \in FileName, NEW w \in DOMAIN object.writers, PF!Open(w),
                 ~object.writers[w].sync
        PROVE  object.writers[w].inode # object.names[f]
    <3>1. Streaming(object, w)
      BY <2>1 DEF Streaming, PF!Open
    <3>2. /\ object.writers[w].inode \notin object.sealed
          /\ object.writers[w].inode \in 1..Len(object.content)
      BY <1>0, <3>1 DEF Owned
    <3>3. object.writers[w].inode # 0
      BY <1>0, <3>2 DEF FileSystem
    <3> QED
      BY <1>0, <3>2, <3>3 DEF Named
  <2>2. \A w \in PF!Writer : object.temps[w] # 0 => PF!Open(w)
    BY <1>0 DEF TempsOwned, Streaming, PF!Open
  <2> QED
    BY <1>0, <2>1, <2>2 DEF Named, PF!FilesWhole
<1>2. PF!TypeOK
  <2>1. object.temps \in [PF!Writer -> PF!Nowhere..Len(object.content)]
    <3>1. \A w \in PF!Writer : object.temps[w] \in 0..Len(object.content)
      BY <1>0 DEF Owned, TempsOwned, FileSystem
    <3> QED
      BY <1>0, <3>1 DEF FileSystem
  <2>2. object.names \in [FileName -> PF!Nowhere..Len(object.content)]
    BY <1>0 DEF Owned, FileSystem
  <2> QED
    BY <1>0, <2>1, <2>2 DEF FileSystem, Owned, PF!TypeOK
<1> QED
  BY <1>1, <1>2

----------------------------------------------------------------------------
(* Caches.  A page that heard of every write to its origin's files has them all. *)

\* A page, and the state of all caches.
PageRecord == [origin : Origin \cup {CS!None}, caches : [CacheName -> CS!Cache \cup {CS!Closed}]]
Caches == [page : [Tab -> PageRecord], loaded : Origin \cup {CS!None},
           disk : [Origin -> CS!Files], since : [Tab -> SUBSET (Tab \cup {CS!None})]]

\* Each file of the page's origin is in one of its caches of that directory.
Holds(page, files) ==
  \A d \in CacheDir, u \in Url :
    files[<<d, u>>] # CS!None =>
      \E n \in CacheName : cache_dir[n] = d /\ page.caches[n][u] = files[<<d, u>>]

\* A page that only itself has written past since it read the files holds them.
Ready(s, p) ==
  s.since[p] \subseteq {p} /\ s.page[p].origin # CS!None
    => Holds(s.page[p], s.disk[s.page[p].origin])

\* The caches' invariant.
CachesInv == object \in Caches /\ \A p \in Tab : Ready(object, p)

\* Page p sets its cache of name n to c and the files of its origin to files.
CacheSet(t, s, p, n, c, files, since) ==
  t = [s EXCEPT !.page[p].caches[n] = c, !.disk[s.page[p].origin] = files, !.since = since]

\* It keeps up with its own writes, and those who do not hear of them do not count as ready.
KeepsUp(s, p, n, c, files, since) ==
  /\ \A q \in Tab : s.since[q] \subseteq since[q]
  /\ \A q \in Tab : q # p /\ s.page[q].origin = s.page[p].origin =>
       files = s.disk[s.page[p].origin] \/ p \in since[q] \/ CS!None \in since[q]
  /\ since[p] \subseteq {p} =>
       \A d \in CacheDir, u \in Url : files[<<d, u>>] # CS!None =>
         \/ cache_dir[n] = d /\ c[u] = files[<<d, u>>]
         \/ /\ files[<<d, u>>] = s.disk[s.page[p].origin][<<d, u>>]
            /\ \/ d # cache_dir[n]
               \/ c[u] = s.page[p].caches[n][u] \/ s.page[p].caches[n][u] = "closed"

\* No page at first.
LEMMA CachesStart == ASSUME CS!Bounds, CS!Init PROVE CachesInv
<1>1. CS!NoFiles \in CS!Files
  BY DEF CS!NoFiles, CS!Files
<1>2. CS!NoPage \in PageRecord
  BY DEF CS!NoPage, PageRecord
<1>3. object = [page |-> [p \in Tab |-> CS!NoPage], loaded |-> CS!None,
                disk |-> [o \in Origin |-> CS!NoFiles], since |-> [p \in Tab |-> {CS!None}]]
  BY DEF CS!Init
<1>4. object \in Caches /\ \A p \in Tab : object.since[p] = {CS!None}
  <2> HIDE DEF CS!NoFiles, CS!NoPage, CS!None
  <2> QED
    BY <1>1, <1>2, <1>3 DEF Caches
<1>5. \A p \in Tab : CS!None # p
  BY DEF CS!Bounds
<1> QED
  BY <1>4, <1>5 DEF CachesInv, Ready

\* Such a write, field by field.
LEMMA CacheUpdated ==
  ASSUME NEW s \in Caches, NEW p \in Tab, NEW o \in Origin, o = s.page[p].origin,
         NEW n \in CacheName,
         NEW c \in CS!Cache \cup {CS!Closed}, NEW files \in CS!Files,
         NEW since \in [Tab -> SUBSET (Tab \cup {CS!None})],
         NEW t, CacheSet(t, s, p, n, c, files, since)
  PROVE  /\ t \in Caches /\ t.since = since /\ t.disk = [s.disk EXCEPT ![o] = files]
         /\ \A q \in Tab : t.page[q].origin = s.page[q].origin /\ (q # p => t.page[q] = s.page[q])
         /\ \A m \in CacheName : t.page[p].caches[m] = IF m = n THEN c ELSE s.page[p].caches[m]
<1> DEFINE caches == [s.page[p].caches EXCEPT ![n] = c]
           new == [s.page[p] EXCEPT !.caches = caches]
           page == [s.page EXCEPT ![p] = new]
           disk == [s.disk EXCEPT ![o] = files]
<1>1. t = [s EXCEPT !.page = page, !.disk = disk, !.since = since]
  BY DEF Caches, PageRecord, CacheSet
<1>2. /\ caches \in [CacheName -> CS!Cache \cup {CS!Closed}]
      /\ \A m \in CacheName : caches[m] = IF m = n THEN c ELSE s.page[p].caches[m]
  BY DEF Caches, PageRecord
<1>3. new \in PageRecord /\ new.caches = caches /\ new.origin = s.page[p].origin
  <2> HIDE DEF caches
  <2> QED
    BY <1>2 DEF Caches, PageRecord
<1>4. /\ page \in [Tab -> PageRecord] /\ page[p] = new
      /\ \A q \in Tab : q # p => page[q] = s.page[q]
  <2> HIDE DEF new
  <2> QED
    BY <1>3 DEF Caches
<1>5. disk \in [Origin -> CS!Files]
  BY DEF Caches
<1> HIDE DEF new, page, disk, caches
<1>6. t \in Caches /\ t.since = since /\ t.disk = disk /\ t.page = page
  BY <1>1, <1>4, <1>5 DEF Caches
<1> QED
  BY <1>2, <1>3, <1>4, <1>6 DEF disk

\* After such a write the pages are as ready as before.
LEMMA PageActs ==
  ASSUME CS!Bounds, NEW s \in Caches, \A q \in Tab : Ready(s, q),
         NEW p \in Tab, s.page[p].origin \in Origin, NEW n \in CacheName,
         NEW c \in CS!Cache \cup {CS!Closed}, NEW files \in CS!Files,
         NEW since \in [Tab -> SUBSET (Tab \cup {CS!None})],
         NEW t, CacheSet(t, s, p, n, c, files, since), KeepsUp(s, p, n, c, files, since)
  PROVE  t \in Caches /\ \A q \in Tab : Ready(t, q)
<1> DEFINE o == s.page[p].origin
<1>5. o \in Origin /\ o = s.page[p].origin
  OBVIOUS
<1> HIDE DEF o
<1>6. /\ t \in Caches /\ t.since = since /\ t.disk = [s.disk EXCEPT ![o] = files]
      /\ \A q \in Tab : t.page[q].origin = s.page[q].origin /\ (q # p => t.page[q] = s.page[q])
      /\ \A m \in CacheName : t.page[p].caches[m] = IF m = n THEN c ELSE s.page[p].caches[m]
  BY <1>5, CacheUpdated
<1>7. /\ \A q \in Tab : s.since[q] \subseteq t.since[q]
      /\ \A q \in Tab : q # p /\ s.page[q].origin = o =>
           files = s.disk[o] \/ p \in t.since[q] \/ CS!None \in t.since[q]
      /\ t.since[p] \subseteq {p} =>
           \A d \in CacheDir, u \in Url : files[<<d, u>>] # CS!None =>
             \/ cache_dir[n] = d /\ c[u] = files[<<d, u>>]
             \/ /\ files[<<d, u>>] = s.disk[o][<<d, u>>]
                /\ \/ d # cache_dir[n]
                   \/ c[u] = s.page[p].caches[n][u] \/ s.page[p].caches[n][u] = "closed"
  BY <1>6 DEF KeepsUp, o
<1>0. CS!None \notin Tab /\ "closed" \notin Response
  BY DEF CS!Bounds
<1>1. s.disk \in [Origin -> CS!Files]
  BY DEF Caches
<1>2. t.disk[o] = files /\ \A x \in Origin : x # o => t.disk[x] = s.disk[x]
  BY <1>1, <1>5, <1>6
<1>3. ASSUME NEW q \in Tab, q # p PROVE Ready(t, q)
  <2> SUFFICES ASSUME t.since[q] \subseteq {q}, t.page[q].origin # CS!None
               PROVE  Holds(t.page[q], t.disk[t.page[q].origin])
    BY DEF Ready
  <2>1. t.page[q] = s.page[q] /\ s.page[q].origin # CS!None /\ s.since[q] \subseteq {q}
    BY <1>3, <1>6, <1>7
  <2>2. Holds(s.page[q], s.disk[s.page[q].origin]) /\ s.page[q].origin \in Origin
    BY <2>1 DEF Ready, Caches, PageRecord
  <2>3. p \notin t.since[q] /\ CS!None \notin t.since[q]
    BY <1>0, <1>3
  <2>4. CASE s.page[q].origin = o
    <3>1. files = s.disk[o]
      BY <1>3, <1>7, <2>1, <2>3, <2>4
    <3> QED
      BY <1>2, <2>1, <2>2, <2>4, <3>1
  <2>5. CASE s.page[q].origin # o
    BY <1>2, <2>1, <2>2, <2>5
  <2> QED
    BY <2>4, <2>5
<1>4. Ready(t, p)
  <2>0. t.page[p].origin = o /\ t.disk[t.page[p].origin] = files
    BY <1>2, <1>5, <1>6
  <2> SUFFICES ASSUME t.since[p] \subseteq {p}, t.page[p].origin # CS!None
               PROVE  Holds(t.page[p], files)
    BY <2>0 DEF Ready
  <2>1. Holds(s.page[p], s.disk[o])
    <3>1. s.since[p] \subseteq {p} /\ s.page[p].origin # CS!None /\ s.page[p].origin = o
      BY <1>5, <1>6, <1>7, <2>0
    <3> QED
      BY <3>1 DEF Ready
  <2>2. /\ t.page[p].caches[n] = c
        /\ \A m \in CacheName : m # n => t.page[p].caches[m] = s.page[p].caches[m]
    BY <1>6
  <2>3. ASSUME NEW d \in CacheDir, NEW u \in Url, files[<<d, u>>] # CS!None
        PROVE  \E m \in CacheName : cache_dir[m] = d /\ t.page[p].caches[m][u] = files[<<d, u>>]
    <3> DEFINE f == files[<<d, u>>]
               g == s.disk[o][<<d, u>>]
    <3>1. f \in Response /\ f # CS!None
      BY <2>3 DEF CS!Files
    <3>2. CASE cache_dir[n] = d /\ c[u] = f
      BY <2>2, <3>2
    <3>3. CASE /\ f = g
               /\ \/ d # cache_dir[n]
                  \/ c[u] = s.page[p].caches[n][u] \/ s.page[p].caches[n][u] = "closed"
      <4>1. g # CS!None
        BY <3>1, <3>3
      <4>2. PICK m \in CacheName : cache_dir[m] = d /\ s.page[p].caches[m][u] = g
        BY <2>1, <4>1 DEF Holds
      <4> HIDE DEF f, g
      <4>3. CASE m # n
        BY <2>2, <3>3, <4>2, <4>3 DEF f
      <4>4. CASE m = n
        <5>1. s.page[p].caches[n][u] # "closed"
          BY <1>0, <3>1, <3>3, <4>2, <4>4
        <5>2. c[u] = f
          BY <3>3, <4>2, <4>4, <5>1
        <5> QED
          BY <2>2, <4>2, <4>4, <5>2 DEF f
      <4> QED
        BY <4>3, <4>4
    <3> QED
      BY <1>7, <2>3, <3>2, <3>3
  <2> QED
    BY <2>3 DEF Holds
<1> QED
  BY <1>3, <1>4, <1>6

\* A page that reads what the disk holds has it, and has it in every cache of a
\* directory's name.
LEMMA LoadReads ==
  ASSUME CS!Bounds, CachesInv, NEW p \in Tab, CS!Live(p)
  PROVE  LET s == CS!Loaded(p) IN
         /\ s \in Caches /\ \A q \in Tab : Ready(s, q)
         /\ s.page[p].origin = object.page[p].origin /\ object.page[p].origin \in Origin
<1> DEFINE o == object.page[p].origin
           s == CS!Loaded(p)
           old == object.page[p].caches
           read == [n \in CacheName |->
                      IF n \in CacheDir /\ CS!OnDisk(o, n)
                        THEN [u \in Url |-> object.disk[o][<<n, u>>]] ELSE old[n]]
           page == [object.page EXCEPT ![p].caches = read]
           since == [object.since EXCEPT ![p] = {}]
<1>0. object \in Caches /\ object.page[p] \in PageRecord /\ \A q \in Tab : Ready(object, q)
  BY DEF CachesInv, Caches
<1>1. o \in Origin
  BY <1>0 DEF CS!Live, CS!Origin_, PageRecord
<1>2. CASE object.loaded = o
  <2>1. s = object
    BY <1>2 DEF CS!Loaded, CS!Origin_
  <2> QED
    BY <1>0, <1>1, <2>1
<1>3. CASE object.loaded # o
  <2>1. s = [object EXCEPT !.loaded = o, !.since = since, !.page = page]
    BY <1>0, <1>3 DEF CS!Loaded, CS!Origin_, CS!caches, Caches
  <2>2. object.disk[o] \in CS!Files /\ old \in [CacheName -> CS!Cache \cup {CS!Closed}]
    BY <1>0, <1>1 DEF Caches, PageRecord
  <2>3. read \in [CacheName -> CS!Cache \cup {CS!Closed}]
    <3>1. ASSUME NEW n \in CacheName, n \in CacheDir
          PROVE  [u \in Url |-> object.disk[o][<<n, u>>]] \in CS!Cache
      BY <2>2, <3>1 DEF CS!Files, CS!Cache
    <3> QED
      BY <2>2, <3>1
  <2>4. \A d \in CacheDir, u \in Url :
          object.disk[o][<<d, u>>] # CS!None =>
               d \in CacheName /\ cache_dir[d] = d /\ read[d][u] = object.disk[o][<<d, u>>]
    BY DEF CS!Bounds, CS!OnDisk
  <2> HIDE DEF read, o
  <2>5. /\ page \in [Tab -> PageRecord] /\ page[p].origin = o /\ page[p].caches = read
        /\ \A q \in Tab : q # p => page[q] = object.page[q]
    <3>1. /\ page[p] = [object.page[p] EXCEPT !.caches = read]
          /\ \A q \in Tab : q # p => page[q] = object.page[q]
      BY <1>0 DEF Caches
    <3>2. page[p] \in PageRecord /\ page[p].origin = o /\ page[p].caches = read
      BY <1>0, <2>3, <3>1 DEF PageRecord, o
    <3>3. page = [q \in Tab |-> page[q]]
      BY <1>0 DEF Caches
    <3> QED
      BY <1>0, <3>1, <3>2, <3>3 DEF Caches
  <2>6. /\ since \in [Tab -> SUBSET (Tab \cup {CS!None})]
        /\ \A q \in Tab : q # p => since[q] = object.since[q]
    BY <1>0 DEF Caches
  <2> HIDE DEF page, since
  <2>7. /\ s \in Caches /\ s.page = page /\ s.since = since /\ s.disk = object.disk
    <3> HIDE DEF s
    <3> QED
      BY <1>0, <1>1, <2>1, <2>5, <2>6 DEF Caches
  <2> HIDE DEF s
  <2>8. Ready(s, p)
    BY <2>4, <2>5, <2>7 DEF Ready, Holds
  <2>9. ASSUME NEW q \in Tab, q # p PROVE Ready(s, q)
    BY <1>0, <2>5, <2>6, <2>7, <2>9 DEF Ready
  <2> QED
    BY <1>1, <2>5, <2>7, <2>8, <2>9 DEF o, s
<1> QED
  BY <1>2, <1>3

\* Told keeps what was known, and adds by for the pages of the origin.
LEMMA Telling ==
  ASSUME NEW s \in Caches, NEW o \in Origin, NEW by \in Tab \cup {CS!None}
  PROVE  /\ CS!Told(s, o, by) \in [Tab -> SUBSET (Tab \cup {CS!None})]
         /\ \A q \in Tab :
              /\ s.since[q] \subseteq CS!Told(s, o, by)[q]
              /\ s.page[q].origin = o => by \in CS!Told(s, o, by)[q]
<1> HIDE DEF CS!None
<1> QED
  BY DEF CS!Told, Caches

\* Every call keeps the invariant.
LEMMA CachesKept == ASSUME CS!Bounds, CachesInv, CS!Next PROVE CachesInv'
<1>0. object \in Caches /\ \A q \in Tab : Ready(object, q)
  BY DEF CachesInv
<1>1. CS!None \notin Tab /\ CS!NoPage \in PageRecord /\ CS!NoPage.origin = CS!None
  BY DEF CS!Bounds, CS!NoPage, PageRecord
<1>2. CASE CS!Restart
  <2> DEFINE page == [p \in Tab |-> CS!NoPage]
             since == [p \in Tab |-> {CS!None}]
  <2>1. object' = [object EXCEPT !.page = page, !.loaded = CS!None, !.since = since]
    BY <1>2 DEF CS!Restart
  <2>2. /\ page \in [Tab -> PageRecord] /\ since \in [Tab -> SUBSET (Tab \cup {CS!None})]
        /\ \A p \in Tab : page[p].origin = CS!None
    <3> HIDE DEF CS!NoPage, CS!None
    <3> QED
      BY <1>1
  <2> HIDE DEF page, since
  <2>3. object' \in Caches /\ object'.page = page
    BY <1>0, <2>1, <2>2 DEF Caches
  <2> QED
    BY <2>2, <2>3 DEF CachesInv, Ready
<1>3. ASSUME NEW p \in Tab, NEW o \in Origin, CS!Navigate(p, o) PROVE CachesInv'
  <2> DEFINE new == [origin |-> o, caches |-> [n \in CacheName |-> CS!Closed]]
             page == [object.page EXCEPT ![p] = new]
             since == [object.since EXCEPT ![p] = {CS!None}]
  <2>1. object' = [object EXCEPT !.page = page, !.since = since]
    BY <1>0, <1>3 DEF CS!Navigate, Caches
  <2>2. new \in PageRecord
    BY DEF PageRecord
  <2>3. /\ page \in [Tab -> PageRecord] /\ since \in [Tab -> SUBSET (Tab \cup {CS!None})]
        /\ since[p] = {CS!None}
        /\ \A q \in Tab : q # p => page[q] = object.page[q] /\ since[q] = object.since[q]
    <3> HIDE DEF new, CS!None
    <3> QED
      BY <1>0, <2>2 DEF Caches
  <2> HIDE DEF page, since
  <2>4. /\ object' \in Caches /\ object'.page = page /\ object'.since = since
        /\ object'.disk = object.disk
    BY <1>0, <2>1, <2>3 DEF Caches
  <2>5. ASSUME NEW q \in Tab PROVE Ready(object', q)
    <3>1. CASE q = p
      BY <1>1, <2>3, <2>4, <3>1 DEF Ready
    <3>2. CASE q # p
      BY <1>0, <2>3, <2>4, <3>2 DEF Ready
    <3> QED
      BY <3>1, <3>2
  <2> QED
    BY <2>4, <2>5 DEF CachesInv
<1>4. ASSUME NEW p \in Tab, CS!Query(p) PROVE CachesInv'
  <2>1. CS!Live(p) /\ object' = CS!Loaded(p)
    BY <1>4 DEF CS!Query
  <2>2. CS!Loaded(p) \in Caches /\ \A q \in Tab : Ready(CS!Loaded(p), q)
    BY <2>1, LoadReads
  <2> QED
    BY <2>1, <2>2 DEF CachesInv
<1>5. CS!Empty \in CS!Cache /\ \A u \in Url : CS!Closed[u] = "closed"
  BY DEF CS!Empty, CS!Cache, CS!Closed
<1>6. ASSUME NEW s \in Caches, NEW p \in Tab, NEW n \in CacheName
      PROVE  s.page[p].caches[n] \in CS!Cache \cup {CS!Closed}
  BY DEF Caches, PageRecord
<1>7. ASSUME NEW p \in Tab, NEW n \in CacheName, CS!Open(p, n) PROVE CachesInv'
  <2> DEFINE s == CS!Loaded(p)
             o == s.page[p].origin
             old == s.page[p].caches[n]
             c == IF old = CS!Closed THEN CS!Empty ELSE old
             files == s.disk[o]
             since == s.since
  <2>1. /\ CS!Live(p)
        /\ object' = [s EXCEPT !.page[p].caches[n] = IF @ = CS!Closed THEN CS!Empty ELSE @]
    BY <1>7 DEF CS!Open
  <2>2. s \in Caches /\ (\A q \in Tab : Ready(s, q)) /\ s.page[p].origin \in Origin
    BY <2>1, LoadReads
  <2> HIDE DEF s
  <2>3. c \in CS!Cache \cup {CS!Closed} /\ files \in CS!Files
        /\ since \in [Tab -> SUBSET (Tab \cup {CS!None})]
    BY <1>5, <1>6, <2>2 DEF Caches
  <2>4. CacheSet(object', s, p, n, c, files, since)
    BY <2>1, <2>2 DEF Caches, PageRecord, CacheSet
  <2>5. \A u \in Url : c[u] = old[u] \/ old[u] = "closed"
    BY <1>5
  <2> HIDE DEF c
  <2>6. KeepsUp(s, p, n, c, files, since)
    BY <2>5 DEF KeepsUp
  <2> HIDE DEF files, since
  <2>7. object' \in Caches /\ \A q \in Tab : Ready(object', q)
    BY <2>2, <2>3, <2>4, <2>6, PageActs
  <2> QED
    BY <2>7 DEF CachesInv
<1>8. ASSUME NEW p \in Tab, NEW n \in CacheName, NEW u \in Url, NEW r \in Response,
             NEW written \in BOOLEAN, CS!Put(p, n, u, r, written)
      PROVE  CachesInv'
  <2> DEFINE o == object.page[p].origin
             old == object.page[p].caches[n]
             was == IF old = CS!Closed THEN CS!Empty ELSE old
             c == [was EXCEPT ![u] = r]
             f == <<cache_dir[n], u>>
             files == [object.disk[o] EXCEPT ![f] = IF written THEN r ELSE @]
             by == IF written THEN p ELSE CS!None
             since == CS!Told(object, o, by)
  <2>1. /\ o # CS!None
        /\ object' = [object EXCEPT
             !.page[p].caches[n] = [IF @ = CS!Closed THEN CS!Empty ELSE @ EXCEPT ![u] = r],
             !.disk[o][f] = IF written THEN r ELSE @, !.since = since]
    BY <1>8 DEF CS!Put, CS!Live, CS!Origin_
  <2>2. o \in Origin
    BY <1>0, <2>1 DEF Caches, PageRecord
  <2>3. object.disk[o] \in CS!Files /\ f \in CacheDir \X Url /\ cache_dir[n] \in CacheDir
    BY <1>0, <2>2 DEF Caches, CS!Bounds
  <2>4. CacheSet(object', object, p, n, c, files, since)
    <3> HIDE DEF f, since
    <3> QED
      BY <1>0, <2>1, <2>2, <2>3 DEF Caches, PageRecord, CacheSet
  <2> HIDE DEF o
  <2>5. was \in CS!Cache \/ was = CS!Closed
    BY <1>0, <1>5, <1>6
  <2>6. /\ c \in CS!Cache /\ c[u] = r
        /\ \A v \in Url : v # u => c[v] = old[v] \/ old[v] = "closed"
    <3>1. was \in CS!Cache
      BY <1>5, <2>5
    <3>2. \A v \in Url : was[v] = old[v] \/ old[v] = "closed"
      BY <1>5
    <3> HIDE DEF was
    <3> QED
      BY <3>1, <3>2 DEF CS!Cache
  <2>7. /\ files \in CS!Files /\ files[f] = (IF written THEN r ELSE object.disk[o][f])
        /\ \A g \in CacheDir \X Url : g # f => files[g] = object.disk[o][g]
    <3> HIDE DEF f
    <3> QED
      BY <2>3 DEF CS!Files
  <2>8. by \in Tab \cup {CS!None}
    OBVIOUS
  <2> HIDE DEF c, files, by
  <2>9. /\ since \in [Tab -> SUBSET (Tab \cup {CS!None})]
        /\ \A q \in Tab : /\ object.since[q] \subseteq since[q]
                          /\ (object.page[q].origin = o => by \in since[q])
    BY <1>0, <2>2, <2>8, Telling
  <2> HIDE DEF since
  <2>11. ASSUME since[p] \subseteq {p}, NEW d \in CacheDir, NEW v \in Url, files[<<d, v>>] # CS!None
         PROVE  \/ cache_dir[n] = d /\ c[v] = files[<<d, v>>]
                \/ /\ files[<<d, v>>] = object.disk[o][<<d, v>>]
                   /\ \/ d # cache_dir[n]
                      \/ c[v] = object.page[p].caches[n][v]
                      \/ object.page[p].caches[n][v] = "closed"
    <3>1. written
      BY <1>1, <2>9, <2>11 DEF by, o
    <3>2. CASE <<d, v>> = f
      BY <2>6, <2>7, <3>1, <3>2
    <3>3. CASE <<d, v>> # f
      <4>1. files[<<d, v>>] = object.disk[o][<<d, v>>] /\ (d # cache_dir[n] \/ v # u)
        BY <2>7, <3>3
      <4> QED
        BY <2>6, <4>1
    <3> QED
      BY <3>2, <3>3
  <2>12. \A q \in Tab : q # p /\ object.page[q].origin = o => p \in since[q] \/ CS!None \in since[q]
    BY <2>9 DEF by
  <2>13. KeepsUp(object, p, n, c, files, since)
    BY <2>9, <2>11, <2>12 DEF KeepsUp, o
  <2>14. object' \in Caches /\ \A q \in Tab : Ready(object', q)
    BY <1>0, <2>2, <2>4, <2>6, <2>7, <2>9, <2>13, PageActs DEF o
  <2> QED
    BY <2>14 DEF CachesInv
<1>9. ASSUME NEW p \in Tab, NEW n \in CacheName, NEW u \in Url, CS!Delete(p, n, u)
      PROVE  CachesInv'
  <2> DEFINE o == object.page[p].origin
             old == object.page[p].caches[n]
             c == IF old = CS!Closed THEN old ELSE [old EXCEPT ![u] = CS!None]
             f == <<cache_dir[n], u>>
             files == [object.disk[o] EXCEPT ![f] = CS!None]
             since == CS!Told(object, o, p)
  <2>1. /\ o # CS!None
        /\ object' = [object EXCEPT
             !.page[p].caches[n] = IF @ = CS!Closed THEN @ ELSE [@ EXCEPT ![u] = CS!None],
             !.disk[o][f] = CS!None, !.since = since]
    BY <1>9 DEF CS!Delete, CS!Live, CS!Origin_
  <2>2. o \in Origin
    BY <1>0, <2>1 DEF Caches, PageRecord
  <2>3. object.disk[o] \in CS!Files /\ f \in CacheDir \X Url /\ cache_dir[n] \in CacheDir
    BY <1>0, <2>2 DEF Caches, CS!Bounds
  <2>4. CacheSet(object', object, p, n, c, files, since)
    <3> HIDE DEF f, since
    <3> QED
      BY <1>0, <2>1, <2>2, <2>3 DEF Caches, PageRecord, CacheSet
  <2> HIDE DEF o
  <2>5. /\ c \in CS!Cache \cup {CS!Closed}
        /\ \A v \in Url : v # u => c[v] = old[v] \/ old[v] = "closed"
    <3>1. old \in CS!Cache \/ old = CS!Closed
      BY <1>0, <1>6
    <3> HIDE DEF old, CS!None, CS!Closed
    <3> QED
      BY <3>1 DEF CS!Cache
  <2>6. /\ files \in CS!Files /\ files[f] = CS!None
        /\ \A g \in CacheDir \X Url : g # f => files[g] = object.disk[o][g]
    <3> HIDE DEF f, CS!None
    <3> QED
      BY <2>3 DEF CS!Files
  <2> HIDE DEF c, files
  <2>7. /\ since \in [Tab -> SUBSET (Tab \cup {CS!None})]
        /\ \A q \in Tab : /\ object.since[q] \subseteq since[q]
                          /\ (object.page[q].origin = o => p \in since[q])
    BY <1>0, <2>2, Telling
  <2> HIDE DEF since
  <2>8. ASSUME NEW d \in CacheDir, NEW v \in Url, files[<<d, v>>] # CS!None
        PROVE  /\ files[<<d, v>>] = object.disk[o][<<d, v>>]
               /\ \/ d # cache_dir[n]
                  \/ c[v] = object.page[p].caches[n][v] \/ object.page[p].caches[n][v] = "closed"
    BY <2>5, <2>6, <2>8
  <2>9. KeepsUp(object, p, n, c, files, since)
    BY <2>7, <2>8 DEF KeepsUp, o
  <2>10. object' \in Caches /\ \A q \in Tab : Ready(object', q)
    BY <1>0, <2>2, <2>4, <2>5, <2>6, <2>7, <2>9, PageActs DEF o
  <2> QED
    BY <2>10 DEF CachesInv
<1>10. ASSUME NEW p \in Tab, NEW n \in CacheName, CS!DeleteCache(p, n) PROVE CachesInv'
  <2> DEFINE s == CS!Loaded(p)
             o == s.page[p].origin
             c == CS!Closed
             files == CS!EmptiedDir(s, o, cache_dir[n])
             since == CS!Told(s, o, p)
  <2>1. /\ CS!Live(p)
        /\ object' = [s EXCEPT !.page[p].caches[n] = CS!Closed,
                               !.disk[object.page[p].origin] =
                                 CS!EmptiedDir(s, object.page[p].origin, cache_dir[n]),
                               !.since = CS!Told(s, object.page[p].origin, p)]
    BY <1>10 DEF CS!DeleteCache, CS!Origin_
  <2>2. /\ s \in Caches /\ (\A q \in Tab : Ready(s, q)) /\ s.page[p].origin \in Origin
        /\ s.page[p].origin = object.page[p].origin
    BY <2>1, LoadReads
  <2> HIDE DEF s
  <2>3. CacheSet(object', s, p, n, c, files, since)
    <3> HIDE DEF files, since, CS!Closed
    <3> QED
      BY <2>1, <2>2 DEF Caches, PageRecord, CacheSet, files, since
  <2> HIDE DEF o
  <2>4. s.disk[o] \in CS!Files
    BY <2>2 DEF Caches, o
  <2>5. /\ files \in CS!Files
        /\ \A d \in CacheDir, u \in Url :
             files[<<d, u>>] = IF d = cache_dir[n] THEN CS!None ELSE s.disk[o][<<d, u>>]
    <3>1. \A f \in CacheDir \X Url : s.disk[o][f] \in Response \cup {CS!None}
      BY <2>4 DEF CS!Files
    <3> HIDE DEF CS!None
    <3> QED
      BY <3>1 DEF CS!EmptiedDir, CS!Files
  <2> HIDE DEF files
  <2>6. /\ since \in [Tab -> SUBSET (Tab \cup {CS!None})]
        /\ \A q \in Tab : s.since[q] \subseteq since[q] /\ (s.page[q].origin = o => p \in since[q])
    BY <2>2, Telling DEF o
  <2> HIDE DEF since
  <2>7. KeepsUp(s, p, n, c, files, since)
    BY <2>5, <2>6 DEF KeepsUp, o
  <2>8. c \in CS!Cache \cup {CS!Closed}
    OBVIOUS
  <2> HIDE DEF c
  <2>9. object' \in Caches /\ \A q \in Tab : Ready(object', q)
    BY <2>2, <2>3, <2>5, <2>6, <2>7, <2>8, PageActs
  <2> QED
    BY <2>9 DEF CachesInv
<1> QED
  BY <1>2, <1>3, <1>4, <1>7, <1>8, <1>9, <1>10 DEF CS!Next

\* The invariant has what the run checks, and the types.
LEMMA CachesHold == ASSUME CachesInv PROVE CS!PageHasFiles /\ CS!TypeOK
<1>1. object \in Caches /\ \A p \in Tab : Ready(object, p)
  BY DEF CachesInv
<1>2. CS!TypeOK
  BY <1>1 DEF Caches, PageRecord, CS!TypeOK
<1>3. CS!PageHasFiles
  BY <1>1 DEF Ready, Holds, CS!PageHasFiles, CS!Live, CS!Origin_, CS!caches
<1> QED
  BY <1>2, <1>3

----------------------------------------------------------------------------
(* Registrations.  A host's file, and what was put there last. *)

\* The file and the state of a thread's workers, without fetches.
FileOf == Seq(SR!Registration)
InstallKeys == {<<>>, <<Hostless>>} \cup {<<h, Hostless>> : h \in WorkerHost}
Thread ==
  [top : WorkerHost, loaded : InstallKeys, handlers : FileOf, slot : {<<>>}, promised : {{}},
   stack : {<<>>}, disk : [WorkerHost -> FileOf],
   writing : Seq([reg : SR!Registration, regs : FileOf]),
   due : [WorkerHost \X Script -> SUBSET Source], last : {<<>>}, fetches : {0}, crashes : Nat]

\* The file has one entry for each script that something is due for, and that.
Records(regs, h, due) ==
  /\ \A i \in DOMAIN regs : due[<<h, regs[i].script>>] = {regs[i].source}
  /\ \A i, j \in DOMAIN regs : regs[i].script = regs[j].script => i = j
  /\ \A script \in Script :
       due[<<h, script>>] # {} => \E i \in DOMAIN regs : regs[i].script = script

\* One of the handlers is of this script, and of this source of it.
Active(handlers, script, source) ==
  \E i \in DOMAIN handlers : handlers[i].script = script /\ handlers[i].source = source

\* A file being written is that of the page on top, with what was registered.
WritingInv(s) ==
  s.writing # <<>> =>
    /\ Len(s.writing) = 1 /\ s.writing[1].regs = SR!Recorded(s.disk[s.top], s.writing[1].reg)
    /\ Active(s.handlers, s.writing[1].reg.script, s.writing[1].reg.source)

\* Once the file of pages without a host is read, all that is due in it has a handler.
ReplayedInv(s) ==
  s.loaded = <<Hostless>> =>
    \A script \in Script : \A source \in s.due[<<Hostless, script>>] : Active(s.handlers, script, source)

\* The registrations' invariant.
RegistrationsInv ==
  /\ object \in Thread /\ Len(object.handlers) <= 3 /\ WritingInv(object) /\ ReplayedInv(object)
  /\ \A h \in WorkerHost : Records(object.disk[h], h, object.due)

\* No file has an entry at first.
LEMMA RegistrationsStart == ASSUME SR!Bounds, SR!Init PROVE RegistrationsInv
<1> DEFINE nil == <<>>
           disk == [h \in WorkerHost |-> nil]
           due == [f \in WorkerHost \X Script |-> {}]
<1>1. object = [top |-> Hostless, loaded |-> nil, handlers |-> nil, slot |-> nil, promised |-> {},
                stack |-> nil, disk |-> disk, writing |-> nil, due |-> due, last |-> nil,
                fetches |-> 0, crashes |-> 0]
  BY DEF SR!Init
<1>2. /\ Hostless \in WorkerHost /\ nil \in InstallKeys /\ nil \in FileOf /\ nil \in {<<>>}
      /\ nil \in Seq([reg : SR!Registration, regs : FileOf])
      /\ Len(nil) = 0 /\ DOMAIN nil = {} /\ nil = <<>>
  BY DEF SR!Bounds, InstallKeys, FileOf
<1>3. disk \in [WorkerHost -> FileOf] /\ due \in [WorkerHost \X Script -> SUBSET Source]
  BY <1>2
<1>4. \A h \in WorkerHost : disk[h] = nil /\ \A script \in Script : due[<<h, script>>] = {}
  OBVIOUS
<1> HIDE DEF disk, due, nil
<1>5. object \in Thread
  BY <1>1, <1>2, <1>3 DEF Thread
<1>6. /\ object.disk = disk /\ object.due = due /\ object.writing = nil /\ object.handlers = nil
      /\ object.loaded = nil
  BY <1>1
<1>7. \A h \in WorkerHost : Records(object.disk[h], h, object.due)
  BY <1>2, <1>4, <1>6 DEF Records
<1>8. ReplayedInv(object)
  BY <1>2, <1>4, <1>6 DEF ReplayedInv
<1> QED
  BY <1>2, <1>5, <1>6, <1>7, <1>8 DEF RegistrationsInv, WritingInv

\* A function of pairs that changes at one of them.
LEMMA PairChanges ==
  ASSUME NEW A, NEW B, NEW C, NEW f \in [A \X B -> C], NEW a \in A, NEW b \in B, NEW c,
         NEW g, g = [f EXCEPT ![<<a, b>>] = c]
  PROVE  \A x \in A, y \in B : g[<<x, y>>] = IF x = a /\ y = b THEN c ELSE f[<<x, y>>]
<1> TAKE x \in A, y \in B
<1>1. <<x, y>> \in A \X B /\ (<<x, y>> = <<a, b>> <=> x = a /\ y = b)
  OBVIOUS
<1> QED
  BY <1>1

\* What a file holds.
LEMMA FileEntries ==
  ASSUME NEW regs \in FileOf
  PROVE  \A i \in DOMAIN regs : regs[i] \in SR!Registration /\ regs[i].script \in Script
<1>1. \A i \in DOMAIN regs : regs[i] \in SR!Registration
  BY DEF FileOf
<1>2. \A reg \in SR!Registration : reg.script \in Script
  BY DEF SR!Registration
<1> QED
  BY <1>1, <1>2

\* The entries of other scripts stay, this one comes last.
LEMMA RecordedKeeps ==
  ASSUME NEW regs \in FileOf, NEW reg \in SR!Registration, NEW h \in WorkerHost,
         NEW due \in [WorkerHost \X Script -> SUBSET Source], Records(regs, h, due)
  PROVE  /\ SR!Recorded(regs, reg) \in FileOf
         /\ Records(SR!Recorded(regs, reg), h, [due EXCEPT ![<<h, reg.script>>] = {reg.source}])
<1> DEFINE S == {r \in SR!Registration : r.script # reg.script}
           f == Filtered(regs, S)
           g == SR!Recorded(regs, reg)
           due2 == [due EXCEPT ![<<h, reg.script>>] = {reg.source}]
           m == Len(f)
<1>1. g = Append(f, reg)
  BY DEF SR!Recorded, SR!Others, Filtered
<1>2. /\ f \in FileOf
      /\ \A i \in DOMAIN f : f[i] \in S /\ \E j \in DOMAIN regs : f[i] = regs[j]
      /\ \A i, j \in DOMAIN f : i # j =>
           \E a, b \in DOMAIN regs : a # b /\ f[i] = regs[a] /\ f[j] = regs[b]
      /\ \A j \in DOMAIN regs : regs[j] \in S => \E i \in DOMAIN f : f[i] = regs[j]
  <2>1. regs \in Seq(SR!Registration)
    BY DEF FileOf
  <2> HIDE DEF S
  <2>2. \A i \in DOMAIN f : f[i] \in S /\ \E j \in DOMAIN regs : f[i] = regs[j]
    BY <2>1, FilteredItems
  <2>3. \A i, j \in DOMAIN f : i # j =>
           \E a, b \in DOMAIN regs : a # b /\ f[i] = regs[a] /\ f[j] = regs[b]
    BY <2>1, FilteredItems
  <2>4. \A j \in DOMAIN regs : regs[j] \in S => \E i \in DOMAIN f : f[i] = regs[j]
    BY <2>1, FilteredItems
  <2>5. f \in Seq(SR!Registration)
    BY <2>1, FilteredItems
  <2> QED
    BY <2>2, <2>3, <2>4, <2>5 DEF FileOf
<1>3. reg.script \in Script /\ reg.source \in Source
  BY DEF SR!Registration
<1>4. /\ due2[<<h, reg.script>>] = {reg.source}
      /\ \A script \in Script : script # reg.script => due2[<<h, script>>] = due[<<h, script>>]
  <2> DEFINE k == reg.script
             new == {reg.source}
  <2>1. k \in Script /\ due2 = [due EXCEPT ![<<h, k>>] = new]
    BY <1>3
  <2> HIDE DEF due2, k, new
  <2>2. \A x \in WorkerHost, y \in Script :
          due2[<<x, y>>] = IF x = h /\ y = k THEN new ELSE due[<<x, y>>]
    BY <2>1, PairChanges
  <2> HIDE DEF f, g, S
  <2>3. /\ due2[<<h, k>>] = new
        /\ \A script \in Script : script # k => due2[<<h, script>>] = due[<<h, script>>]
    BY <2>1, <2>2
  <2> QED
    BY <2>3 DEF k, new
<1>5. \A i \in DOMAIN regs : regs[i] \in SR!Registration /\ regs[i].script \in Script
  BY FileEntries
<1> HIDE DEF f, g, due2
<1>6. /\ g \in FileOf /\ m \in Nat /\ DOMAIN f = 1..m /\ DOMAIN g = 1..(m + 1)
      /\ g[m + 1] = reg /\ \A i \in 1..m : g[i] = f[i]
  BY <1>1, <1>2 DEF FileOf
<1> HIDE DEF m
<1>7. \A i \in 1..(m + 1) : i \in 1..m \/ i = m + 1
  BY <1>6
<1>8. \A i \in 1..m : f[i].script # reg.script /\ f[i].script \in Script /\ f[i] \in SR!Registration
  BY <1>2, <1>6 DEF SR!Registration
<1>9. ASSUME NEW i \in DOMAIN g PROVE due2[<<h, g[i].script>>] = {g[i].source}
  <2>1. CASE i \in 1..m
    <3>1. PICK j \in DOMAIN regs : f[i] = regs[j]
      BY <1>2, <1>6, <2>1
    <3>2. due[<<h, f[i].script>>] = {f[i].source}
      BY <3>1 DEF Records
    <3> QED
      BY <1>4, <1>6, <1>8, <2>1, <3>2
  <2>2. CASE i = m + 1
    BY <1>4, <1>6, <2>2
  <2> QED
    BY <1>6, <1>7, <2>1, <2>2
<1>10. ASSUME NEW i \in DOMAIN g, NEW j \in DOMAIN g, g[i].script = g[j].script PROVE i = j
  <2>1. CASE i \in 1..m /\ j \in 1..m
    <3> SUFFICES ASSUME i # j PROVE FALSE
      OBVIOUS
    <3>1. PICK a, b \in DOMAIN regs : a # b /\ f[i] = regs[a] /\ f[j] = regs[b]
      BY <1>2, <1>6, <2>1
    <3> QED
      BY <1>6, <1>10, <2>1, <3>1 DEF Records
  <2> QED
    BY <1>6, <1>7, <1>8, <1>10, <2>1
<1>11. ASSUME NEW script \in Script, due2[<<h, script>>] # {}
       PROVE  \E i \in DOMAIN g : g[i].script = script
  <2>1. CASE script = reg.script
    <3>1. m + 1 \in DOMAIN g
      BY <1>6
    <3> QED
      BY <1>6, <2>1, <3>1
  <2>2. CASE script # reg.script
    <3>1. PICK j \in DOMAIN regs : regs[j].script = script
      BY <1>4, <1>11, <2>2 DEF Records
    <3>2. PICK i \in DOMAIN f : f[i] = regs[j]
      BY <1>2, <1>5, <2>2, <3>1
    <3>3. i \in DOMAIN g /\ g[i] = f[i]
      BY <1>6, <3>2
    <3> QED
      BY <3>1, <3>2, <3>3
  <2> QED
    BY <2>1, <2>2
<1>12. Records(g, h, due2)
  BY <1>9, <1>10, <1>11 DEF Records
<1> QED
  BY <1>6, <1>12 DEF g, due2

\* What a file being written becomes, with what it stands for.
LEMMA FileRenamed ==
  ASSUME RegistrationsInv, SR!RenameFile PROVE RegistrationsInv'
<1> DEFINE h == object.top
           w == object.writing[1]
           nil == <<>>
           disk == [object.disk EXCEPT ![h] = w.regs]
           due == [object.due EXCEPT ![<<h, w.reg.script>>] = {w.reg.source}]
<1>1. object \in Thread /\ object.writing # nil
  BY DEF RegistrationsInv, SR!RenameFile
<1>2. /\ h \in WorkerHost /\ w.reg \in SR!Registration /\ w.regs \in FileOf
      /\ w.regs = SR!Recorded(object.disk[h], w.reg)
  <2>1. Len(object.writing) = 1 /\ w.regs = SR!Recorded(object.disk[h], w.reg)
    BY <1>1 DEF RegistrationsInv, WritingInv
  <2>2. w \in [reg : SR!Registration, regs : FileOf]
    <3> DEFINE R == [reg : SR!Registration, regs : FileOf]
    <3>1. object.writing \in Seq(R)
      BY <1>1 DEF Thread
    <3> HIDE DEF R
    <3>2. object.writing[1] \in R
      BY <2>1, <3>1
    <3> QED
      BY <3>2 DEF R
  <2> QED
    BY <1>1, <2>1, <2>2 DEF Thread
<1>3. object' = [object EXCEPT !.disk = disk, !.writing = nil, !.due = due]
  BY <1>1 DEF SR!RenameFile, Thread
<1>4. w.reg.script \in Script /\ w.reg.source \in Source
  BY <1>2 DEF SR!Registration
<1>5. /\ Records(w.regs, h, due)
      /\ \A g \in WorkerHost : g # h => Records(object.disk[g], g, due)
  <2>1. Records(object.disk[h], h, object.due) /\ object.disk[h] \in FileOf
        /\ object.due \in [WorkerHost \X Script -> SUBSET Source]
    BY <1>1, <1>2 DEF RegistrationsInv, Thread
  <2> DEFINE reg == w.reg
  <2>2. reg \in SR!Registration
    BY <1>2
  <2> HIDE DEF reg
  <2>3. Records(SR!Recorded(object.disk[h], reg), h,
                [object.due EXCEPT ![<<h, reg.script>>] = {reg.source}])
    BY <1>2, <2>1, <2>2, RecordedKeeps
  <2>4. Records(w.regs, h, due)
    BY <1>2, <2>3 DEF reg
  <2>5. ASSUME NEW g \in WorkerHost, g # h PROVE Records(object.disk[g], g, due)
    <3>1. Records(object.disk[g], g, object.due) /\ object.disk[g] \in FileOf
      BY <1>1 DEF RegistrationsInv, Thread
    <3>2. \A script \in Script : due[<<g, script>>] = object.due[<<g, script>>]
      <4> DEFINE k == w.reg.script
                 new == {w.reg.source}
      <4>1. k \in Script /\ due = [object.due EXCEPT ![<<h, k>>] = new]
        BY <1>4
      <4> HIDE DEF due, k, new
      <4>2. \A x \in WorkerHost, y \in Script :
              due[<<x, y>>] = IF x = h /\ y = k THEN new ELSE object.due[<<x, y>>]
        BY <1>2, <2>1, <4>1, PairChanges
      <4> QED
        BY <2>5, <4>2
    <3>3. \A i \in DOMAIN object.disk[g] : object.disk[g][i].script \in Script
      BY <3>1, FileEntries
    <3> HIDE DEF due
    <3> QED
      BY <3>1, <3>2, <3>3 DEF Records
  <2> QED
    BY <2>4, <2>5
<1>6. /\ disk \in [WorkerHost -> FileOf] /\ disk[h] = w.regs
      /\ \A g \in WorkerHost : g # h => disk[g] = object.disk[g]
  BY <1>1, <1>2 DEF Thread
<1>7. due \in [WorkerHost \X Script -> SUBSET Source]
  BY <1>1, <1>2, <1>4 DEF Thread
<1>8. nil \in Seq([reg : SR!Registration, regs : FileOf]) /\ nil = <<>>
  OBVIOUS
<1> HIDE DEF disk, due, nil
<1>9. /\ object' \in Thread /\ object'.disk = disk /\ object'.due = due /\ object'.writing = nil
      /\ object'.handlers = object.handlers /\ object'.loaded = object.loaded
  BY <1>1, <1>3, <1>6, <1>7, <1>8 DEF Thread
<1>10. \A g \in WorkerHost : Records(object'.disk[g], g, object'.due)
  <2> TAKE g \in WorkerHost
  <2>1. CASE g = h
    BY <1>5, <1>6, <1>9, <2>1
  <2>2. CASE g # h
    BY <1>5, <1>6, <1>9, <2>2
  <2> QED
    BY <2>1, <2>2
<1>11. ReplayedInv(object')
  <2> SUFFICES ASSUME object.loaded = <<Hostless>>, NEW script \in Script,
                      NEW source \in due[<<Hostless, script>>]
               PROVE  Active(object.handlers, script, source)
    BY <1>9 DEF ReplayedInv
  <2> DEFINE k == w.reg.script
             new == {w.reg.source}
  <2>1. /\ k \in Script /\ due = [object.due EXCEPT ![<<h, k>>] = new]
        /\ object.due \in [WorkerHost \X Script -> SUBSET Source]
    BY <1>1, <1>4 DEF due, Thread
  <2>2. Active(object.handlers, k, w.reg.source)
    BY <1>1 DEF RegistrationsInv, WritingInv, nil
  <2>3. Hostless \in WorkerHost
    BY BoundsAssumption DEF SR!Bounds
  <2> HIDE DEF k, new
  <2>4. \A x \in WorkerHost, y \in Script :
          due[<<x, y>>] = IF x = h /\ y = k THEN new ELSE object.due[<<x, y>>]
    BY <1>2, <2>1, PairChanges
  <2>5. CASE h = Hostless /\ script = k
    BY <2>2, <2>3, <2>4, <2>5 DEF new
  <2>6. CASE ~(h = Hostless /\ script = k)
    <3>1. source \in object.due[<<Hostless, script>>]
      BY <2>3, <2>4, <2>6
    <3> QED
      BY <3>1 DEF RegistrationsInv, ReplayedInv
  <2> QED
    BY <2>5, <2>6
<1> QED
  BY <1>8, <1>9, <1>10, <1>11 DEF RegistrationsInv, WritingInv

\* Handlers that are added to, before others or after them, stay.
LEMMA ActiveStays ==
  ASSUME NEW first \in FileOf, NEW second \in FileOf, NEW script, NEW source,
         Active(first, script, source) \/ Active(second, script, source)
  PROVE  Active(first \o second, script, source)
<1> DEFINE both == first \o second
<1>1. /\ \A i \in DOMAIN first : i \in DOMAIN both /\ both[i] = first[i]
      /\ \A i \in DOMAIN second :
           Len(first) + i \in DOMAIN both /\ both[Len(first) + i] = second[i]
  BY DEF FileOf
<1> HIDE DEF both
<1>2. CASE Active(first, script, source)
  BY <1>1, <1>2 DEF Active, both
<1>3. CASE Active(second, script, source)
  BY <1>1, <1>3 DEF Active, both
<1> QED
  BY <1>2, <1>3

\* A handler that is added is one of them, and the others stay.
LEMMA ActiveAdded ==
  ASSUME NEW handlers \in FileOf, NEW reg \in SR!Registration
  PROVE  /\ Active(Append(handlers, reg), reg.script, reg.source)
         /\ \A script, source :
              Active(handlers, script, source) => Active(Append(handlers, reg), script, source)
<1> DEFINE more == Append(handlers, reg)
           m == Len(handlers)
<1>1. /\ m + 1 \in DOMAIN more /\ more[m + 1] = reg
      /\ \A i \in DOMAIN handlers : i \in DOMAIN more /\ more[i] = handlers[i]
  BY DEF FileOf
<1> HIDE DEF more, m
<1>2. Active(more, reg.script, reg.source)
  BY <1>1 DEF Active
<1>3. \A script, source : Active(handlers, script, source) => Active(more, script, source)
  BY <1>1 DEF Active
<1> QED
  BY <1>2, <1>3 DEF more

\* Every call keeps the invariant.
LEMMA RegistrationsKept == ASSUME SR!Bounds, RegistrationsInv, SR!Next PROVE RegistrationsInv'
<1> DEFINE nil == <<>>
<1>1. /\ object \in Thread /\ Len(object.handlers) <= 3 /\ WritingInv(object) /\ ReplayedInv(object)
      /\ \A h \in WorkerHost : Records(object.disk[h], h, object.due)
  BY DEF RegistrationsInv
<1>2. /\ object.stack = nil /\ object.promised = {} /\ object.fetches = 0 /\ object.slot = nil
      /\ object.top \in WorkerHost /\ object.handlers \in FileOf /\ object.crashes \in Nat
      /\ object.disk \in [WorkerHost -> FileOf] /\ object.loaded \in InstallKeys
  BY <1>1 DEF Thread
<1>3. /\ Hostless \in WorkerHost /\ nil \in InstallKeys /\ nil \in FileOf /\ nil \in {<<>>}
      /\ nil \in Seq([reg : SR!Registration, regs : FileOf]) /\ Len(nil) = 0
  BY DEF SR!Bounds, InstallKeys, FileOf
<1>4. ASSUME NEW s \in Thread, object' = s, s.disk = object.disk, s.due = object.due,
             Len(s.handlers) <= 3, WritingInv(s), ReplayedInv(s)
      PROVE  RegistrationsInv'
  BY <1>1, <1>4 DEF RegistrationsInv
<1>5. ASSUME NEW h \in WorkerHost, SR!Enter(h) PROVE RegistrationsInv'
  <2>1. object.writing = nil /\ object' = [object EXCEPT !.top = h]
    BY <1>5 DEF SR!Enter, SR!Idle
  <2> HIDE DEF nil
  <2>2. /\ object' \in Thread /\ object'.disk = object.disk /\ object'.due = object.due
        /\ object'.handlers = object.handlers /\ object'.writing = nil
        /\ object'.loaded = object.loaded
    BY <1>1, <2>1 DEF Thread
  <2> QED
    BY <1>1, <1>4, <2>2 DEF WritingInv, ReplayedInv, nil
<1>6. CASE SR!Load
  <2> DEFINE key == SR!InstallKey
             regs == IF key = <<Hostless>> THEN object.disk[Hostless] ELSE <<>>
             handlers == object.handlers \o regs
  <2>1. /\ object.writing = nil
        /\ object.loaded # key => Len(object.handlers) + Len(regs) <= 3
        /\ object' = IF object.loaded = key THEN object
                     ELSE [object EXCEPT !.loaded = key, !.handlers = handlers]
    BY <1>1, <1>6 DEF SR!Load, SR!Idle, Thread
  <2>2. key \in InstallKeys
    BY <1>2 DEF SR!InstallKey, InstallKeys
  <2>3. regs \in FileOf
    BY <1>2, <1>3
  <2> HIDE DEF regs, key
  <2>4. handlers \in FileOf /\ Len(handlers) = Len(object.handlers) + Len(regs)
    BY <1>2, <2>3 DEF FileOf
  <2> HIDE DEF handlers, nil
  <2>5. CASE object.loaded = key
    BY <1>1, <1>4, <2>1, <2>5
  <2>6. CASE object.loaded # key
    <3>1. object' = [object EXCEPT !.loaded = key, !.handlers = handlers]
      BY <2>1, <2>6
    <3>2. /\ object' \in Thread /\ object'.disk = object.disk /\ object'.due = object.due
          /\ object'.handlers = handlers /\ object'.writing = nil /\ object'.loaded = key
      BY <1>1, <2>1, <2>2, <2>4, <3>1 DEF Thread
    <3>3. ReplayedInv(object')
      <4> SUFFICES ASSUME key = <<Hostless>>, NEW script \in Script,
                          NEW source \in object.due[<<Hostless, script>>]
                   PROVE  Active(handlers, script, source)
        BY <3>2 DEF ReplayedInv
      <4>1. regs = object.disk[Hostless]
        BY DEF regs
      <4>2. Records(regs, Hostless, object.due)
        BY <1>1, <1>3, <4>1
      <4>3. PICK i \in DOMAIN regs : regs[i].script = script
        BY <4>2 DEF Records
      <4>4. regs[i].source = source
        BY <4>2, <4>3 DEF Records
      <4>5. Active(regs, script, source)
        BY <4>3, <4>4 DEF Active
      <4> QED
        BY <1>2, <2>3, <4>5, ActiveStays DEF handlers
    <3> QED
      BY <1>4, <2>1, <2>4, <2>6, <3>2, <3>3 DEF WritingInv, nil
  <2> QED
    BY <2>5, <2>6
<1>7. ASSUME NEW script \in Script, NEW source \in Source, SR!Register(script, source)
      PROVE  RegistrationsInv'
  <2> DEFINE reg == [script |-> script, source |-> source]
             handlers == Append(object.handlers, reg)
             regs == SR!Recorded(object.disk[object.top], reg)
             w == [reg |-> reg, regs |-> regs]
             writing == <<w>>
  <2>1. /\ Len(object.handlers) < 3
        /\ object' = [object EXCEPT !.handlers = Append(@, reg),
                                    !.writing = <<[reg |-> reg, regs |-> regs]>>]
    BY <1>7 DEF SR!Register
  <2>2. reg \in SR!Registration
    BY DEF SR!Registration
  <2> HIDE DEF reg
  <2>3. regs \in FileOf
    <3>1. /\ Records(object.disk[object.top], object.top, object.due)
          /\ object.disk[object.top] \in FileOf
          /\ object.due \in [WorkerHost \X Script -> SUBSET Source]
      BY <1>1, <1>2 DEF Thread
    <3> QED
      BY <1>2, <2>2, <3>1, RecordedKeeps
  <2> HIDE DEF regs
  <2>4. handlers \in FileOf /\ Len(handlers) = Len(object.handlers) + 1
    BY <1>2, <2>2 DEF FileOf
  <2>5. w \in [reg : SR!Registration, regs : FileOf] /\ w.reg = reg /\ w.regs = regs
    BY <2>2, <2>3
  <2>6. object' = [object EXCEPT !.handlers = handlers, !.writing = writing]
    BY <1>1, <2>1 DEF Thread
  <2> HIDE DEF w
  <2>7. /\ writing \in Seq([reg : SR!Registration, regs : FileOf]) /\ Len(writing) = 1
        /\ writing[1] = w
    BY <2>5
  <2> HIDE DEF handlers, writing
  <2>8. /\ object' \in Thread /\ object'.disk = object.disk /\ object'.due = object.due
        /\ object'.handlers = handlers /\ object'.writing = writing /\ object'.top = object.top
        /\ object'.loaded = object.loaded
    BY <1>1, <2>4, <2>6, <2>7 DEF Thread
  <2>9. /\ Active(handlers, reg.script, reg.source)
        /\ \A k, said : Active(object.handlers, k, said) => Active(handlers, k, said)
    BY <1>2, <2>2, ActiveAdded DEF handlers
  <2>11. WritingInv(object')
    BY <2>5, <2>7, <2>8, <2>9 DEF WritingInv, regs
  <2>12. ReplayedInv(object')
    <3> SUFFICES ASSUME object.loaded = <<Hostless>>, NEW k \in Script,
                        NEW said \in object.due[<<Hostless, k>>]
                 PROVE  Active(handlers, k, said)
      BY <2>8 DEF ReplayedInv
    <3>1. Active(object.handlers, k, said)
      BY <1>1 DEF ReplayedInv
    <3> QED
      BY <2>9, <3>1
  <2>10. Len(object'.handlers) <= 3
    <3>1. Len(object.handlers) \in Nat
      BY <1>2 DEF FileOf
    <3> QED
      BY <2>1, <2>4, <2>8, <3>1
  <2> QED
    BY <1>4, <2>8, <2>10, <2>11, <2>12
<1>8. CASE SR!RenameFile
  BY <1>8, FileRenamed
<1>9. CASE SR!WriteFails
  <2>1. object' = [object EXCEPT !.writing = nil]
    BY <1>9 DEF SR!WriteFails
  <2> HIDE DEF nil
  <2>2. /\ object' \in Thread /\ object'.disk = object.disk /\ object'.due = object.due
        /\ object'.handlers = object.handlers /\ object'.writing = nil
        /\ object'.loaded = object.loaded
    BY <1>1, <1>3, <2>1 DEF Thread
  <2> QED
    BY <1>1, <1>4, <2>2 DEF WritingInv, ReplayedInv, nil
<1>10. CASE SR!Crash
  <2> DEFINE none == {}
             crashes == object.crashes + 1
             due == object.due
             disk == object.disk
             fetches == object.fetches
  <2>1. object' = [top |-> Hostless, loaded |-> nil, handlers |-> nil, slot |-> nil,
                   promised |-> none, stack |-> nil, disk |-> disk, writing |-> nil, due |-> due,
                   last |-> nil, fetches |-> fetches, crashes |-> crashes]
    BY <1>1, <1>10 DEF SR!Crash, Thread
  <2>2. crashes \in Nat /\ none \in {{}} /\ nil \in {<<>>}
    BY <1>2
  <2>3. /\ due \in [WorkerHost \X Script -> SUBSET Source] /\ disk \in [WorkerHost -> FileOf]
        /\ fetches \in {0}
    BY <1>1 DEF Thread
  <2> HIDE DEF nil, none, crashes, due, disk, fetches
  <2>4. object' \in Thread
    BY <1>3, <2>1, <2>2, <2>3 DEF Thread
  <2>5. /\ object'.disk = disk /\ object'.due = due /\ object'.handlers = nil /\ object'.writing = nil
        /\ object'.loaded = nil
    BY <2>1
  <2>6. nil # <<Hostless>>
    <3>1. Len(nil) = 0 /\ Len(<<Hostless>>) = 1
      BY DEF nil
    <3> QED
      BY <3>1
  <2>7. ReplayedInv(object')
    BY <2>5, <2>6 DEF ReplayedInv
  <2> QED
    BY <1>3, <1>4, <2>4, <2>5, <2>7 DEF WritingInv, nil, disk, due
<1>11. ~SR!Fetch
  BY <1>2 DEF SR!Fetch
<1>12. /\ ~SR!CallHandler /\ ~SR!RespondWith /\ ~SR!RespondWithPromise
       /\ ~SR!ReturnHandler /\ ~SR!Unanswered
  BY <1>2 DEF SR!CallHandler, SR!RespondWith, SR!RespondWithPromise, SR!ReturnHandler, SR!Unanswered
<1>13. \A answer \in object.promised : FALSE
  BY <1>2
<1> QED
  BY <1>5, <1>6, <1>7, <1>8, <1>9, <1>10, <1>11, <1>12, <1>13 DEF SR!Next

\* The invariant has what the run checks, and the types.
LEMMA RegistrationsHold ==
  ASSUME SR!Bounds, RegistrationsInv PROVE SR!RegistrationsKept /\ SR!TypeOK
<1>1. /\ object \in Thread /\ Len(object.handlers) <= 3
      /\ \A h \in WorkerHost : Records(object.disk[h], h, object.due)
  BY DEF RegistrationsInv
<1>2. SR!TypeOK
  <2>1. object.slot = <<>> /\ object.stack = <<>> /\ Len(<<>>) = 0
    BY <1>1 DEF Thread
  <2>2. Len(object.slot) <= 1 /\ Len(object.stack) <= 1 + 1
    BY <2>1
  <2> QED
    BY <1>1, <2>2 DEF Thread, FileOf, InstallKeys, SR!TypeOK
<1>3. ASSUME NEW h \in WorkerHost, NEW script \in Script
      PROVE  LET entries == {i \in DOMAIN object.disk[h] : object.disk[h][i].script = script}
             IN  /\ {object.disk[h][i].source : i \in entries} = object.due[<<h, script>>]
                 /\ SR!Cardinality(entries) <= 1
  <2> DEFINE regs == object.disk[h]
             entries == {i \in DOMAIN regs : regs[i].script = script}
  <2>1. Records(regs, h, object.due)
    BY <1>1
  <2>2. CASE entries = {}
    <3>1. object.due[<<h, script>>] = {}
      BY <2>1, <2>2 DEF Records
    <3>2. Cardinality(entries) = 0
      BY <2>2, FS_EmptySet
    <3> QED
      BY <2>2, <3>1, <3>2 DEF SR!Cardinality, Cardinality
  <2>3. CASE entries # {}
    <3>1. PICK i : i \in entries
      BY <2>3
    <3>2. entries = {i} /\ object.due[<<h, script>>] = {regs[i].source}
      BY <2>1, <3>1 DEF Records
    <3>3. Cardinality(entries) = 1
      BY <3>2, FS_Singleton
    <3> QED
      BY <3>2, <3>3 DEF SR!Cardinality, Cardinality
  <2> QED
    BY <2>2, <2>3
<1>4. ASSUME object.loaded = <<Hostless>>
      PROVE  SR!ToSet(object.disk[Hostless]) \subseteq SR!ToSet(object.handlers)
  <2> DEFINE regs == object.disk[Hostless]
             handlers == object.handlers
  <2>1. Hostless \in WorkerHost
    BY DEF SR!Bounds
  <2>2. regs \in FileOf /\ handlers \in FileOf /\ Records(regs, Hostless, object.due)
    BY <1>1, <2>1 DEF Thread
  <2>3. \A script \in Script : \A source \in object.due[<<Hostless, script>>] :
          Active(handlers, script, source)
    BY <1>4 DEF RegistrationsInv, ReplayedInv
  <2> HIDE DEF regs, handlers
  <2>4. ASSUME NEW i \in DOMAIN regs PROVE \E j \in DOMAIN handlers : handlers[j] = regs[i]
    <3>1. /\ regs[i] \in SR!Registration /\ regs[i].script \in Script
          /\ regs[i].source \in object.due[<<Hostless, regs[i].script>>]
      BY <2>2, FileEntries DEF Records
    <3>2. PICK j \in DOMAIN handlers :
            handlers[j].script = regs[i].script /\ handlers[j].source = regs[i].source
      BY <2>3, <3>1 DEF Active
    <3>3. handlers[j] \in SR!Registration
      BY <2>2, FileEntries
    <3> QED
      BY <3>1, <3>2, <3>3 DEF SR!Registration
  <2>5. SR!ToSet(regs) \subseteq SR!ToSet(handlers)
    BY <2>4 DEF SR!ToSet
  <2> QED
    BY <2>5 DEF regs, handlers
<1>5. SR!RegistrationsKept
  BY <1>3, <1>4 DEF SR!RegistrationsKept
<1> QED
  BY <1>2, <1>5

----------------------------------------------------------------------------
(* Fetches.  While a fetch is alone on top of the stack, the slot holds what its own
   handlers said. *)

\* A thread's state, whole.
Workers == Seq(SF!Registration)
Answers == [to : Nat, by : SF!Registration \cup {<<>>}]
Frames == [id : Nat, todo : Workers, running : BOOLEAN, by : SF!Registration \cup {<<>>},
           said : Seq(Answers), alone : BOOLEAN]
FetchEnds == [alone : BOOLEAN, said : Seq(Answers), answer : Seq(Answers)]
Ended == {e \in FetchEnds : e.alone => e.answer = e.said}
Writings == Seq([reg : SF!Registration, regs : Workers])
Fetching ==
  [top : {Hostless}, loaded : {<<>>, <<Hostless>>, <<Hostless, Hostless>>}, handlers : Workers,
   slot : Seq(Answers), promised : SUBSET Answers, stack : Seq(Frames),
   disk : [{Hostless} -> Workers], writing : Writings,
   due : [{Hostless} \X {"u"} -> SUBSET {"s"}], last : Seq(Ended), fetches : Nat, crashes : Nat]

\* No fetch is too deep, those below the top are not alone, and the top one has the slot.
Nested(stack, slot) ==
  /\ Len(stack) <= 3
  /\ \A i \in 1..Len(stack) : stack[i].running => i <= 2
  /\ \A i \in 1..Len(stack) : i < Len(stack) => ~stack[i].alone
  /\ Len(stack) > 0 /\ stack[Len(stack)].alone => slot = stack[Len(stack)].said

\* The fetches' invariant.
FetchesInv ==
  /\ object \in Fetching /\ Len(object.handlers) <= 2 /\ Len(object.slot) <= 1
  /\ Nested(object.stack, object.slot)

\* Nothing is fetched at first.
LEMMA FetchesStart == ASSUME SF!Bounds, SF!Init PROVE FetchesInv
<1> DEFINE nil == <<>>
           none == {}
           disk == [h \in {Hostless} |-> nil]
           due == [f \in {Hostless} \X {"u"} |-> {}]
<1>1. object = [top |-> Hostless, loaded |-> nil, handlers |-> nil, slot |-> nil, promised |-> none,
                stack |-> nil, disk |-> disk, writing |-> nil, due |-> due, last |-> nil,
                fetches |-> 0, crashes |-> 0]
  BY DEF SF!Init
<1>2. /\ nil \in {<<>>, <<Hostless>>, <<Hostless, Hostless>>} /\ nil \in Workers
      /\ nil \in Seq(Answers) /\ nil \in Seq(Frames) /\ nil \in Writings /\ nil \in Seq(Ended)
      /\ Len(nil) = 0 /\ none \in SUBSET Answers
  BY DEF Workers, Writings
<1>3. disk \in [{Hostless} -> Workers] /\ due \in [{Hostless} \X {"u"} -> SUBSET {"s"}]
  BY <1>2
<1> HIDE DEF disk, due, nil, none
<1>4. object \in Fetching
  BY <1>1, <1>2, <1>3 DEF Fetching
<1>5. object.handlers = nil /\ object.slot = nil /\ object.stack = nil
  BY <1>1
<1>6. Nested(nil, nil)
  BY <1>2 DEF Nested
<1> QED
  BY <1>2, <1>4, <1>5, <1>6 DEF FetchesInv

\* All but the last, and with another one for it.
LEMMA TopSwapped ==
  ASSUME NEW T, NEW s \in Seq(T), s # <<>>, NEW f \in T
  PROVE  /\ SF!Front(s) \in Seq(T) /\ Len(SF!Front(s)) = Len(s) - 1
         /\ \A i \in 1..(Len(s) - 1) : SF!Front(s)[i] = s[i]
         /\ Append(SF!Front(s), f) \in Seq(T) /\ Len(Append(SF!Front(s), f)) = Len(s)
         /\ Append(SF!Front(s), f)[Len(s)] = f
         /\ \A i \in 1..(Len(s) - 1) : Append(SF!Front(s), f)[i] = s[i]
<1> DEFINE m == Len(s) - 1
           g == SubSeq(s, 1, m)
<1>1. m \in Nat /\ m + 1 = Len(s)
  BY EmptySeq
<1>2. g = SF!Front(s)
  BY DEF SF!Front
<1>3. g \in Seq(T) /\ Len(g) = m /\ \A i \in 1..m : g[i] = s[i]
  BY <1>1
<1> HIDE DEF m, g
<1>4. /\ Append(g, f) \in Seq(T) /\ Len(Append(g, f)) = m + 1 /\ Append(g, f)[m + 1] = f
      /\ \A i \in 1..m : Append(g, f)[i] = g[i]
  BY <1>1, <1>3
<1> QED
  BY <1>1, <1>2, <1>3, <1>4 DEF m

\* Another frame takes the top's place.
LEMMA TopChanges ==
  ASSUME NEW stack \in Seq(Frames), NEW slot, Nested(stack, slot), stack # <<>>, NEW slot2,
         NEW f \in Frames, f.running => Len(stack) <= 2, f.alone => slot2 = f.said
  PROVE  /\ Append(SF!Front(stack), f) \in Seq(Frames)
         /\ Nested(Append(SF!Front(stack), f), slot2)
<1> DEFINE g == Append(SF!Front(stack), f)
           m == Len(stack) - 1
<1>1. m \in Nat /\ m + 1 = Len(stack)
  BY EmptySeq
<1>2. g \in Seq(Frames) /\ Len(g) = m + 1 /\ g[m + 1] = f /\ \A i \in 1..m : g[i] = stack[i]
  <2>1. /\ g \in Seq(Frames) /\ Len(g) = Len(stack) /\ g[Len(stack)] = f
        /\ \A i \in 1..(Len(stack) - 1) : g[i] = stack[i]
    BY TopSwapped
  <2> HIDE DEF g
  <2> QED
    BY <1>1, <2>1
<1> HIDE DEF g, m
<1>3. \A i \in 1..(m + 1) : i \in 1..m \/ i = m + 1
  BY <1>1
<1>4. \A i \in 1..m : i \in 1..Len(stack) /\ i < Len(stack)
  BY <1>1
<1>5. Nested(g, slot2)
  BY <1>1, <1>2, <1>3, <1>4 DEF Nested
<1> QED
  BY <1>2, <1>5 DEF g

\* The frame on top goes.
LEMMA TopGoes ==
  ASSUME NEW stack \in Seq(Frames), NEW slot, Nested(stack, slot), stack # <<>>, NEW slot2
  PROVE  SF!Front(stack) \in Seq(Frames) /\ Nested(SF!Front(stack), slot2)
<1> DEFINE g == SF!Front(stack)
           m == Len(stack) - 1
           f == stack[Len(stack)]
<1>1. m \in Nat /\ m + 1 = Len(stack) /\ f \in Frames
  BY EmptySeq
<1>2. g \in Seq(Frames) /\ Len(g) = m /\ \A i \in 1..m : g[i] = stack[i]
  BY <1>1, TopSwapped
<1> HIDE DEF g, m, f
<1>3. \A i \in 1..m : i \in 1..Len(stack) /\ i < Len(stack)
  BY <1>1
<1>4. m > 0 => m \in 1..m
  BY <1>1
<1>5. Nested(g, slot2)
  BY <1>1, <1>2, <1>3, <1>4 DEF Nested
<1> QED
  BY <1>2, <1>5 DEF g

\* A frame comes on top, alone; the others are not.
LEMMA TopComes ==
  ASSUME NEW stack \in Seq(Frames), NEW slot, Nested(stack, slot), Len(stack) <= 2,
         NEW f \in Frames, ~f.running, NEW slot2, slot2 = f.said
  PROVE  LET g == Append([i \in DOMAIN stack |-> [stack[i] EXCEPT !.alone = FALSE]], f) IN
         g \in Seq(Frames) /\ Nested(g, slot2)
<1> DEFINE m == Len(stack)
           low == [i \in 1..m |-> [stack[i] EXCEPT !.alone = FALSE]]
           g == Append(low, f)
<1>1. m \in Nat /\ DOMAIN stack = 1..m /\ m <= 2 /\ \A i \in 1..m : stack[i] \in Frames
  OBVIOUS
<1>2. \A i \in 1..m : /\ [stack[i] EXCEPT !.alone = FALSE] \in Frames
                      /\ ~[stack[i] EXCEPT !.alone = FALSE].alone
                      /\ [stack[i] EXCEPT !.alone = FALSE].running = stack[i].running
  BY <1>1 DEF Frames
<1>3. /\ low \in Seq(Frames) /\ Len(low) = m
      /\ \A i \in 1..m : ~low[i].alone /\ low[i].running = stack[i].running
  <2>1. low \in [1..m -> Frames]
    BY <1>2
  <2>2. low \in Seq(Frames) /\ Len(low) = m
    BY <1>1, <2>1
  <2>3. \A i \in 1..m : low[i] = [stack[i] EXCEPT !.alone = FALSE]
    OBVIOUS
  <2> HIDE DEF low
  <2> QED
    BY <1>2, <2>2, <2>3
<1> HIDE DEF low
<1>4. g \in Seq(Frames) /\ Len(g) = m + 1 /\ g[m + 1] = f /\ \A i \in 1..m : g[i] = low[i]
  BY <1>1, <1>3
<1> HIDE DEF g
<1>5. \A i \in 1..(m + 1) : i \in 1..m \/ i = m + 1
  BY <1>1
<1>6. \A i \in 1..m : stack[i].running => i <= 2
  BY DEF Nested
<1> HIDE DEF m
<1>7. Nested(g, slot2)
  BY <1>1, <1>3, <1>4, <1>5, <1>6 DEF Nested
<1> QED
  BY <1>1, <1>4, <1>7 DEF g, low

\* The calls of a fetch change no other fields.
Becomes(s, t, stack, slot, last, promised, fetches) ==
  t = [s EXCEPT !.stack = stack, !.slot = slot, !.last = last, !.promised = promised,
                !.fetches = fetches]

\* They keep the invariant where these fields do.
LEMMA FetchStep ==
  ASSUME FetchesInv, NEW stack \in Seq(Frames), NEW slot \in Seq(Answers), Len(slot) <= 1,
         NEW last \in Seq(Ended), NEW promised \in SUBSET Answers, NEW fetches \in Nat,
         Nested(stack, slot),
         Becomes(object, object', stack, slot, last, promised, fetches)
  PROVE  FetchesInv'
<1>1. object \in Fetching /\ Len(object.handlers) <= 2
  BY DEF FetchesInv
<1>2. /\ object' \in Fetching /\ object'.stack = stack /\ object'.slot = slot
      /\ object'.handlers = object.handlers
  BY <1>1 DEF Fetching, Becomes
<1> QED
  BY <1>1, <1>2 DEF FetchesInv

\* Each call of a fetch keeps the invariant.
LEMMA FetchCallsKept ==
  ASSUME FetchesInv,
         \/ SF!Fetch \/ SF!CallHandler \/ SF!RespondWith \/ SF!RespondWithPromise
         \/ SF!ReturnHandler \/ SF!Unanswered \/ \E answer \in object.promised : SF!Resolve(answer)
  PROVE  FetchesInv'
<1> DEFINE nil == <<>>
           stack == object.stack
           top == stack[Len(stack)]
           pushed(f) == Append(SF!Front(stack), f)
           says == [to |-> top.id, by |-> top.by]
<1>1. /\ object \in Fetching /\ stack \in Seq(Frames) /\ object.slot \in Seq(Answers)
      /\ Len(object.slot) <= 1 /\ object.promised \in SUBSET Answers /\ object.last \in Seq(Ended)
      /\ object.fetches \in Nat /\ object.handlers \in Workers /\ Nested(stack, object.slot)
  BY DEF FetchesInv, Fetching
<1>2. /\ nil \in Seq(Answers) /\ nil \in Seq(Ended) /\ nil \in SF!Registration \cup {<<>>}
      /\ Len(nil) = 0 /\ nil = <<>>
  OBVIOUS
<1>3. SF!Top = top /\ SF!Says(top) = says
  BY DEF SF!Top, SF!Last, SF!Says
<1>4. ASSUME stack # nil
      PROVE  /\ top \in Frames /\ says \in Answers /\ (top.running => Len(stack) <= 2)
             /\ (top.alone => object.slot = top.said)
             /\ Len(stack) \in Nat /\ Len(stack) > 0
  <2>1. Len(stack) \in Nat /\ Len(stack) > 0
    BY <1>1, <1>4, EmptySeq
  <2>2. top \in Frames
    BY <1>1, <2>1
  <2>3. says \in Answers
    BY <2>2 DEF Frames, Answers
  <2>4. Len(stack) \in 1..Len(stack)
    BY <2>1
  <2> QED
    BY <1>1, <2>1, <2>2, <2>3, <2>4 DEF Nested
<1>5. ASSUME NEW a \in Answers PROVE <<a>> \in Seq(Answers) /\ Len(<<a>>) = 1
  OBVIOUS
<1>6. CASE SF!Fetch
  <2> DEFINE f == [id |-> object.fetches + 1, todo |-> object.handlers, running |-> FALSE,
                   by |-> <<>>, said |-> <<>>, alone |-> TRUE]
             low == [i \in DOMAIN stack |-> [stack[i] EXCEPT !.alone = FALSE]]
             new == Append(low, f)
             fetches == object.fetches + 1
  <2>1. /\ stack # nil => top.running
        /\ object' = [object EXCEPT !.stack = new, !.slot = nil, !.fetches = fetches]
    BY <1>3, <1>6 DEF SF!Fetch, SF!Running
  <2>2. f \in Frames /\ ~f.running /\ nil = f.said
    BY <1>1, <1>2 DEF Frames
  <2>3. Len(stack) <= 2
    <3>1. CASE stack = nil
      BY <3>1
    <3>2. CASE stack # nil
      BY <1>4, <2>1, <3>2
    <3> QED
      BY <3>1, <3>2
  <2> HIDE DEF f
  <2>4. new \in Seq(Frames) /\ Nested(new, nil)
    <3> HIDE DEF nil
    <3> QED
      BY <1>1, <2>2, <2>3, TopComes
  <2>5. fetches \in Nat
    BY <1>1
  <2> HIDE DEF new, fetches, nil
  <2>6. Becomes(object, object', new, nil, object.last, object.promised, fetches)
    BY <1>1, <2>1 DEF Fetching, Becomes
  <2>7. Len(nil) <= 1
    BY <1>2
  <2> QED
    BY <1>1, <1>2, <2>4, <2>5, <2>6, <2>7, FetchStep
<1>7. ASSUME stack # nil, NEW f \in Frames, f.running => Len(stack) <= 2,
             NEW slot \in Seq(Answers), Len(slot) <= 1, f.alone => slot = f.said,
             NEW promised \in SUBSET Answers,
             Becomes(object, object', pushed(f), slot, object.last, promised, object.fetches)
      PROVE  FetchesInv'
  <2> DEFINE new == pushed(f)
  <2>1. new \in Seq(Frames) /\ Nested(new, slot)
    <3>1. stack # <<>>
      BY <1>7
    <3> HIDE DEF nil, stack
    <3> QED
      BY <1>1, <1>7, <3>1, TopChanges
  <2> HIDE DEF pushed
  <2>2. Becomes(object, object', new, slot, object.last, promised, object.fetches)
    BY <1>7
  <2> HIDE DEF new, pushed
  <2> QED
    BY <1>1, <1>7, <2>1, <2>2, FetchStep
<1>8. CASE SF!CallHandler
  <2> DEFINE w == Head(top.todo)
             rest == Tail(top.todo)
             on == Len(stack) <= 2
             f == [top EXCEPT !.by = w, !.todo = rest, !.running = on]
  <2>1. /\ stack # nil /\ ~top.running /\ top.todo # nil
        /\ object' = [object EXCEPT !.stack = pushed(f)]
    BY <1>1, <1>3, <1>8 DEF SF!CallHandler, Fetching
  <2>2. top \in Frames /\ (top.alone => object.slot = top.said)
    BY <1>4, <2>1
  <2>3. w \in SF!Registration /\ rest \in Workers
    <3>1. top.todo \in Seq(SF!Registration)
      BY <2>2 DEF Frames, Workers
    <3> DEFINE todo == top.todo
    <3> HIDE DEF todo
    <3>2. todo \in Seq(SF!Registration) /\ todo # <<>>
      BY <2>1, <3>1 DEF todo
    <3>3. Head(todo) \in SF!Registration /\ Tail(todo) \in Seq(SF!Registration)
      BY <3>2
    <3> QED
      BY <3>3 DEF todo, Workers
  <2>4. on \in BOOLEAN /\ (on => Len(stack) <= 2)
    OBVIOUS
  <2> HIDE DEF w, rest, on, top
  <2>5. /\ f \in Frames /\ (f.running => Len(stack) <= 2) /\ f.alone = top.alone
        /\ f.said = top.said
    BY <2>2, <2>3, <2>4 DEF Frames
  <2> HIDE DEF f
  <2>6. Becomes(object, object', pushed(f), object.slot, object.last, object.promised,
                object.fetches)
    BY <1>1, <2>1 DEF Fetching, Becomes
  <2> HIDE DEF pushed, nil
  <2> QED
    BY <1>1, <1>7, <2>1, <2>2, <2>5, <2>6
<1>9. ASSUME stack # nil, NEW a \in Answers
      PROVE  LET f == [top EXCEPT !.said = <<a>>] IN
             f \in Frames /\ f.said = <<a>> /\ f.running = top.running
  <2>1. top \in Frames /\ <<a>> \in Seq(Answers)
    BY <1>4, <1>5, <1>9
  <2> HIDE DEF top
  <2> QED
    BY <2>1 DEF Frames
<1>10. CASE SF!RespondWith
  <2> DEFINE said == <<says>>
             f == [top EXCEPT !.said = said]
  <2>1. /\ stack # nil /\ object' = [object EXCEPT !.slot = said, !.stack = pushed(f)]
    BY <1>3, <1>10 DEF SF!RespondWith
  <2>2. says \in Answers /\ (top.running => Len(stack) <= 2)
    BY <1>4, <2>1
  <2>3. said \in Seq(Answers) /\ Len(said) <= 1
    BY <1>5, <2>2
  <2>4. f \in Frames /\ f.said = said /\ f.running = top.running
    <3> HIDE DEF top, says
    <3> QED
      BY <1>9, <2>1, <2>2
  <2> HIDE DEF f, said, pushed
  <2>5. Becomes(object, object', pushed(f), said, object.last, object.promised, object.fetches)
    BY <1>1, <2>1 DEF Fetching, Becomes
  <2> HIDE DEF nil
  <2> QED
    BY <1>1, <1>7, <2>1, <2>2, <2>3, <2>4, <2>5
<1>11. CASE SF!RespondWithPromise
  <2> DEFINE promised == object.promised \cup {says}
  <2>1. stack # nil /\ object' = [object EXCEPT !.promised = promised]
    BY <1>3, <1>11 DEF SF!RespondWithPromise
  <2>2. promised \in SUBSET Answers
    BY <1>1, <1>4, <2>1
  <2> HIDE DEF promised
  <2>3. Becomes(object, object', stack, object.slot, object.last, promised, object.fetches)
    BY <1>1, <2>1 DEF Fetching, Becomes
  <2> QED
    BY <1>1, <2>2, <2>3, FetchStep
<1>12. ASSUME NEW answer \in object.promised, SF!Resolve(answer) PROVE FetchesInv'
  <2> DEFINE said == <<answer>>
             f == IF answer = says THEN [top EXCEPT !.said = said] ELSE [top EXCEPT !.alone = FALSE]
             promised == object.promised \ {answer}
  <2>1. /\ stack # nil => top.running
        /\ object' = [object EXCEPT !.promised = promised, !.slot = said,
                                    !.stack = IF stack = nil THEN stack ELSE pushed(f)]
    BY <1>1, <1>3, <1>12 DEF SF!Resolve, SF!Running, Fetching
  <2>2. answer \in Answers /\ promised \in SUBSET Answers
    BY <1>1
  <2>3. said \in Seq(Answers) /\ Len(said) <= 1
    BY <1>5, <2>2
  <2> HIDE DEF promised
  <2>4. CASE stack = nil
    <3> HIDE DEF said
    <3>1. Becomes(object, object', stack, said, object.last, promised, object.fetches)
      BY <1>1, <2>1, <2>4 DEF Fetching, Becomes
    <3>2. Nested(stack, said)
      BY <1>1, <1>2, <2>4 DEF Nested
    <3> QED
      BY <1>1, <2>2, <2>3, <3>1, <3>2, FetchStep
  <2>5. CASE stack # nil
    <3>1. top \in Frames /\ (top.running => Len(stack) <= 2)
      BY <1>4, <2>5
    <3>2. /\ f \in Frames /\ f.running = top.running /\ (f.alone => said = f.said)
      <4>1. CASE answer = says
        <5>1. f = [top EXCEPT !.said = <<answer>>]
          BY <4>1
        <5> HIDE DEF f, top
        <5> QED
          BY <1>9, <2>2, <2>5, <5>1
      <4>2. CASE answer # says
        <5>1. f = [top EXCEPT !.alone = FALSE]
          BY <4>2
        <5> HIDE DEF f, top
        <5> QED
          BY <3>1, <5>1 DEF Frames
      <4> QED
        BY <4>1, <4>2
    <3>3. Becomes(object, object', pushed(f), said, object.last, promised, object.fetches)
      <4>1. object' = [object EXCEPT !.promised = promised, !.slot = said, !.stack = pushed(f)]
        BY <2>1, <2>5
      <4> HIDE DEF f, said, pushed
      <4> QED
        BY <1>1, <4>1 DEF Fetching, Becomes
    <3> HIDE DEF f, said, pushed, nil
    <3> QED
      BY <1>7, <2>2, <2>3, <2>5, <3>1, <3>2, <3>3
  <2> QED
    BY <2>4, <2>5
<1>13. ASSUME stack # nil, NEW slot \in Seq(Answers), Len(slot) <= 1, NEW last \in Seq(Ended),
              object' = [object EXCEPT !.stack = SF!Front(stack), !.slot = slot, !.last = last]
       PROVE  FetchesInv'
  <2> DEFINE new == SF!Front(stack)
  <2>1. new \in Seq(Frames) /\ Nested(new, slot)
    <3> HIDE DEF stack
    <3> QED
      BY <1>1, <1>13, TopGoes
  <2>2. Becomes(object, object', new, slot, last, object.promised, object.fetches)
    BY <1>1, <1>13 DEF Fetching, Becomes
  <2> HIDE DEF new
  <2> QED
    BY <1>1, <1>13, <2>1, <2>2, FetchStep
<1>14. CASE SF!Unanswered
  <2>1. stack # nil /\ object' = [object EXCEPT !.stack = SF!Front(@), !.last = nil]
    BY <1>14 DEF SF!Unanswered
  <2> HIDE DEF nil
  <2>2. object' = [object EXCEPT !.stack = SF!Front(stack), !.slot = object.slot, !.last = nil]
    BY <1>1, <2>1 DEF Fetching
  <2> QED
    BY <1>1, <1>2, <1>13, <2>1, <2>2
<1>15. CASE SF!ReturnHandler
  <2> DEFINE f == [top EXCEPT !.running = FALSE]
             e == [alone |-> top.alone, said |-> top.said, answer |-> object.slot]
             last == <<e>>
  <2>1. /\ stack # nil
        /\ object' = IF object.slot = nil /\ top.todo # nil
                       THEN [object EXCEPT !.stack = pushed(f)]
                       ELSE [object EXCEPT !.stack = SF!Front(stack), !.slot = nil, !.last = last]
    BY <1>1, <1>3, <1>15 DEF SF!ReturnHandler, Fetching
  <2>2. top \in Frames /\ (top.alone => object.slot = top.said)
    BY <1>4, <2>1
  <2>3. CASE object.slot = nil /\ top.todo # nil
    <3>1. f \in Frames /\ ~f.running /\ f.alone = top.alone /\ f.said = top.said
      <4> HIDE DEF top
      <4> QED
        BY <2>2 DEF Frames
    <3>2. object' = [object EXCEPT !.stack = pushed(f)]
      BY <2>1, <2>3
    <3> HIDE DEF f, pushed, nil
    <3>3. Becomes(object, object', pushed(f), object.slot, object.last, object.promised,
                  object.fetches)
      BY <1>1, <3>2 DEF Fetching, Becomes
    <3> QED
      BY <1>1, <1>7, <2>1, <2>2, <3>1, <3>3
  <2>4. CASE ~(object.slot = nil /\ top.todo # nil)
    <3>1. e \in Ended
      <4> HIDE DEF top
      <4>1. e \in FetchEnds
        BY <1>1, <2>2 DEF Frames, FetchEnds
      <4> QED
        BY <2>2, <4>1 DEF Ended
    <3>2. last \in Seq(Ended)
      <4> HIDE DEF e
      <4> QED
        BY <3>1
    <3>3. object' = [object EXCEPT !.stack = SF!Front(stack), !.slot = nil, !.last = last]
      BY <2>1, <2>4
    <3>4. Len(nil) <= 1
      BY <1>2
    <3> HIDE DEF last, nil
    <3> QED
      BY <1>2, <1>13, <2>1, <3>2, <3>3, <3>4
  <2> QED
    BY <2>3, <2>4
<1> QED
  BY <1>6, <1>8, <1>10, <1>11, <1>12, <1>14, <1>15

\* Every call keeps the invariant.
LEMMA FetchesKept == ASSUME SF!Bounds, FetchesInv, SF!Next PROVE FetchesInv'
<1> DEFINE nil == <<>>
<1>1. /\ object \in Fetching /\ Len(object.handlers) <= 2 /\ Len(object.slot) <= 1
      /\ Nested(object.stack, object.slot)
  BY DEF FetchesInv
<1>2. /\ object.handlers \in Workers /\ object.disk \in [{Hostless} -> Workers]
      /\ object.top = Hostless /\ object.crashes \in Nat /\ object.writing \in Writings
  BY <1>1 DEF Fetching
<1>3. nil \in Writings
  BY DEF Writings
<1>4. ASSUME NEW s \in Fetching, object' = s, Len(s.handlers) <= 2, s.slot = object.slot,
             s.stack = object.stack
      PROVE  FetchesInv'
  BY <1>1, <1>4 DEF FetchesInv
<1>5. ASSUME NEW h \in {Hostless}, SF!Enter(h) PROVE FetchesInv'
  <2>1. object' = [object EXCEPT !.top = Hostless]
    BY <1>5 DEF SF!Enter
  <2>2. object' \in Fetching /\ object'.handlers = object.handlers /\ object'.slot = object.slot
        /\ object'.stack = object.stack
    BY <1>1, <2>1 DEF Fetching
  <2> QED
    BY <1>1, <1>4, <2>2
<1>6. CASE SF!Load
  <2> DEFINE key == SF!InstallKey
             regs == IF key = <<Hostless>> THEN object.disk[Hostless] ELSE <<>>
             handlers == object.handlers \o regs
  <2>1. /\ object.loaded # key => Len(object.handlers) + Len(regs) <= 2
        /\ object' = IF object.loaded = key THEN object
                     ELSE [object EXCEPT !.loaded = key, !.handlers = handlers]
    BY <1>1, <1>6 DEF SF!Load, Fetching
  <2>2. key = <<Hostless>>
    BY <1>2 DEF SF!InstallKey
  <2>3. regs \in Workers
    BY <1>2, <2>2
  <2> HIDE DEF regs, key
  <2>4. handlers \in Workers /\ Len(handlers) = Len(object.handlers) + Len(regs)
    BY <1>2, <2>3 DEF Workers
  <2> HIDE DEF handlers
  <2>5. CASE object.loaded = key
    BY <1>1, <1>4, <2>1, <2>5
  <2>6. CASE object.loaded # key
    <3> DEFINE loaded == <<Hostless>>
    <3>1. loaded \in {<<>>, <<Hostless>>, <<Hostless, Hostless>>}
      OBVIOUS
    <3>2. object' = [object EXCEPT !.loaded = loaded, !.handlers = handlers]
      BY <2>1, <2>2, <2>6
    <3> HIDE DEF loaded
    <3>3. object' \in Fetching /\ object'.handlers = handlers /\ object'.slot = object.slot
          /\ object'.stack = object.stack
      BY <1>1, <2>4, <3>1, <3>2 DEF Fetching
    <3> QED
      BY <1>4, <2>1, <2>4, <2>6, <3>3
  <2> QED
    BY <2>5, <2>6
<1>7. ASSUME NEW script \in {"u"}, NEW source \in {"s"}, SF!Register(script, source)
      PROVE  FetchesInv'
  <2> DEFINE reg == [script |-> script, source |-> source]
             handlers == Append(object.handlers, reg)
             regs == SF!Recorded(object.disk[object.top], reg)
             w == [reg |-> reg, regs |-> regs]
             writing == <<w>>
  <2>1. /\ Len(object.handlers) < 2
        /\ object' = [object EXCEPT !.handlers = handlers, !.writing = writing]
    BY <1>1, <1>7 DEF SF!Register, Fetching
  <2>2. reg \in SF!Registration
    BY DEF SF!Registration
  <2>3. regs \in Workers
    <3> DEFINE old == object.disk[object.top]
               S == {r \in SF!Registration : r.script # reg.script}
    <3>1. old \in Seq(SF!Registration)
      BY <1>2 DEF Workers
    <3>2. regs = Append(Filtered(old, S), reg)
      BY DEF SF!Recorded, SF!Others, Filtered
    <3> HIDE DEF old, S, regs, reg
    <3>3. Filtered(old, S) \in Seq(SF!Registration)
      BY <3>1, FilteredItems
    <3> QED
      BY <2>2, <3>2, <3>3 DEF Workers
  <2> HIDE DEF reg, regs
  <2>4. handlers \in Workers /\ Len(handlers) = Len(object.handlers) + 1
    BY <1>2, <2>2 DEF Workers
  <2>5. w \in [reg : SF!Registration, regs : Workers]
    BY <2>2, <2>3
  <2> HIDE DEF w
  <2>6. writing \in Writings
    BY <2>5 DEF Writings
  <2> HIDE DEF handlers, writing
  <2>7. object' \in Fetching /\ object'.handlers = handlers /\ object'.slot = object.slot
        /\ object'.stack = object.stack
    BY <1>1, <2>1, <2>4, <2>6 DEF Fetching
  <2>8. Len(object'.handlers) <= 2
    <3>1. Len(object.handlers) \in Nat
      BY <1>2 DEF Workers
    <3> QED
      BY <2>1, <2>4, <2>7, <3>1
  <2> QED
    BY <1>4, <2>7, <2>8
<1>8. CASE SF!RenameFile
  <2> DEFINE w == object.writing[1]
             disk == [object.disk EXCEPT ![Hostless] = w.regs]
             due == [object.due EXCEPT ![<<Hostless, w.reg.script>>] = {w.reg.source}]
  <2>1. /\ object.writing # nil
        /\ object' = [object EXCEPT !.disk = disk, !.writing = nil, !.due = due]
    BY <1>1, <1>2, <1>8 DEF SF!RenameFile, Fetching
  <2>2. w \in [reg : SF!Registration, regs : Workers]
    <3> DEFINE R == [reg : SF!Registration, regs : Workers]
    <3>1. object.writing \in Seq(R)
      BY <1>2 DEF Writings
    <3> HIDE DEF R
    <3>2. object.writing[1] \in R
      BY <2>1, <3>1, EmptySeq
    <3> QED
      BY <3>2 DEF R
  <2>3. w.regs \in Workers /\ w.reg.script \in {"u"} /\ w.reg.source \in {"s"}
    BY <2>2 DEF SF!Registration
  <2> HIDE DEF w
  <2>4. disk \in [{Hostless} -> Workers] /\ due \in [{Hostless} \X {"u"} -> SUBSET {"s"}]
    BY <1>1, <1>2, <2>3 DEF Fetching
  <2> HIDE DEF disk, due, nil
  <2>5. object' \in Fetching /\ object'.handlers = object.handlers /\ object'.slot = object.slot
        /\ object'.stack = object.stack
    BY <1>1, <1>3, <2>1, <2>4 DEF Fetching
  <2> QED
    BY <1>1, <1>4, <2>5
<1>9. CASE SF!WriteFails
  <2>1. object' = [object EXCEPT !.writing = nil]
    BY <1>9 DEF SF!WriteFails
  <2> HIDE DEF nil
  <2>2. object' \in Fetching /\ object'.handlers = object.handlers /\ object'.slot = object.slot
        /\ object'.stack = object.stack
    BY <1>1, <1>3, <2>1 DEF Fetching
  <2> QED
    BY <1>1, <1>4, <2>2
<1>10. ~SF!Crash
  BY <1>2 DEF SF!Crash
<1> QED
  BY <1>5, <1>6, <1>7, <1>8, <1>9, <1>10, FetchCallsKept DEF SF!Next

\* The invariant has what the run checks, and the types.
LEMMA FetchesHold == ASSUME SF!Bounds, FetchesInv PROVE SF!AnswersOwn /\ SF!TypeOK
<1>1. /\ object \in Fetching /\ Len(object.handlers) <= 2 /\ Len(object.slot) <= 1
      /\ Nested(object.stack, object.slot)
  BY DEF FetchesInv
<1>2. SF!AnswersOwn
  <2>1. object.last \in Seq(Ended)
    BY <1>1 DEF Fetching
  <2>2. \A i \in DOMAIN object.last : object.last[i] \in Ended
    BY <2>1
  <2>3. \A e \in Ended : e.alone => e.answer = e.said
    BY DEF Ended
  <2> QED
    BY <2>2, <2>3 DEF SF!AnswersOwn, SF!ToSet
<1>3. SF!TypeOK
  <2>1. Len(object.stack) <= 2 + 1
    BY <1>1 DEF Nested
  <2> QED
    BY <1>1, <2>1 DEF Fetching, Workers, SF!TypeOK
<1> QED
  BY <1>2, <1>3

----------------------------------------------------------------------------
(* The parts together. *)

\* What holds of the parts that keep something.
KeptInv ==
  /\ kind = "storage" => StoreInv
  /\ kind = "files" => FilesInv
  /\ kind = "caches" => CachesInv
  /\ kind = "fetches" => FetchesInv
  /\ kind = "registrations" => RegistrationsInv

\* It holds in every state.
LEMMA KeptInvariant == Spec => []KeptInv
<1>1. Init => KeptInv
  BY StoreStart, FilesStart, CachesStart, FetchesStart, RegistrationsStart,
     BoundsAssumption DEF Init, KeptInv
<1>2. KeptInv /\ [Next]_vars => KeptInv'
  <2> SUFFICES ASSUME KeptInv, [Next]_vars PROVE KeptInv'
    OBVIOUS
  <2>1. CASE StorageNext
    BY <2>1, StoreKept, BoundsAssumption DEF StorageNext, KeptInv
  <2>2. CASE FilesNext
    BY <2>2, FilesKept, BoundsAssumption DEF FilesNext, KeptInv
  <2>3. CASE CachesNext
    BY <2>3, CachesKept, BoundsAssumption DEF CachesNext, KeptInv
  <2>4. CASE FetchesNext
    BY <2>4, FetchesKept, BoundsAssumption DEF FetchesNext, KeptInv
  <2>5. CASE RegistrationsNext
    BY <2>5, RegistrationsKept, BoundsAssumption DEF RegistrationsNext, KeptInv
  <2>6. ASSUME kind' = kind, kind \in {"transport", "client", "jar", "body", "session"}
        PROVE  KeptInv'
    BY <2>6 DEF KeptInv
  <2>7. CASE TransportNext \/ ClientNext \/ JarNext \/ BodyNext \/ SessionNext
    BY <2>6, <2>7 DEF TransportNext, ClientNext, JarNext, BodyNext, SessionNext
  <2>8. CASE UNCHANGED vars
    BY <2>8 DEF vars, KeptInv, StoreInv, FilesInv, CachesInv, FetchesInv, RegistrationsInv
  <2> QED
    BY <2>1, <2>2, <2>3, <2>4, <2>5, <2>7, <2>8 DEF Next
<1> QED
  BY <1>1, <1>2, PTL DEF Spec

\* What is kept is whole, part by part: bodies, the cookie file, items, session
\* storage, private files, caches, and service workers' answers and registrations
\* (decode.rs, cookies.rs, js/storage.rs, js/opfs.rs, js/sw.rs).
THEOREM KeptTheorem == Spec => []KeptWhole
<1>1. NetInv /\ KeptInv => KeptWhole
  BY BodyHolds, JarHolds, StoreHolds, SessionHolds, FilesHold, CachesHold, FetchesHold,
     RegistrationsHold, BoundsAssumption DEF NetInv, KeptInv, KeptWhole
<1> QED
  BY <1>1, NetInvariant, KeptInvariant, PTL

\* Every part keeps to its types.
THEOREM TypesTheorem == Spec => []TypeOK
<1>1. NetInv /\ KeptInv => TypeOK
  BY LadderHolds, ClientHolds, JarHolds, BodyHolds, StoreHolds, SessionHolds, FilesHold,
     CachesHold, FetchesHold, RegistrationsHold, BoundsAssumption
     DEF NetInv, KeptInv, TypeOK
<1> QED
  BY <1>1, NetInvariant, KeptInvariant, PTL

==============================================================================
