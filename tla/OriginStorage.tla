----------------------------- MODULE OriginStorage -----------------------------
(***************************************************************************)
(* What a page keeps with its origin: localStorage (src/src/js/storage.rs) *)
(* and the object stores of IndexedDB (src/src/js/idb.rs), both one file   *)
(* per key in a directory per area, written beside and renamed; and        *)
(* sessionStorage, in memory and under a byte cap that counts the item a   *)
(* call replaces only once.                                                *)
(*                                                                         *)
(* The directories of one origin are a tree of areas.  An area's name is   *)
(* sanitised into that of its directory, so that two names may share one,  *)
(* and a name of nothing but dots names the root above all databases: what *)
(* deleting such a database does is here, storing in it is not.            *)
(***************************************************************************)
EXTENDS Integers, FiniteSetsExt, SequencesExt

CONSTANTS
  Name,             \* of databases, as scripts write them
  Dir,              \* directories of databases
  sanitise,         \* [Name -> Dir \cup {Root}]
  Root,             \* what no name is left of
  Key, Value,
  size,             \* bytes of an item, [Value -> Nat]
  SESSION_STORAGE_BYTE_CAP,
  MaxCrashes        \* bound

Local == "localStorage"
Area == Dir \cup {Local}

\* No value: no file, or no item.
None == "none"

Bounds ==
  /\ IsFiniteSet(Dir) /\ IsFiniteSet(Key) /\ None \notin Value
  /\ sanitise \in [Name -> Dir \cup {Root}] /\ Root \notin Dir /\ Local \notin Dir
  /\ size \in [Value -> Nat] /\ {SESSION_STORAGE_BYTE_CAP, MaxCrashes} \subseteq Nat

Files == [Area \X Key -> Value \cup {None}]

VARIABLE store
(* store.files, store.tmp: the files and the ones written beside them;
   store.op: the call in progress, a sequence of what it does next, each step
   about one file; store.session: the items in memory; store.crashes.
   History: store.before, store.after: what the files held before the call in
   progress, and hold when it is done. *)

NoFiles == [f \in Area \X Key |-> None]

Init ==
  store = [files |-> NoFiles, tmp |-> NoFiles, op |-> <<>>,
           before |-> NoFiles, after |-> NoFiles,
           session |-> [k \in Key |-> None], crashes |-> 0]

----------------------------------------------------------------------------
(* The calls that write; each is a sequence of file operations. *)

\* The areas under the directory that a database's name stands for.
Under(n) == IF sanitise[n] = Root THEN Dir ELSE {sanitise[n]}

Call(op, after) ==
  /\ store.op = <<>>
  /\ store' = [store EXCEPT !.op = op, !.after = after]

\* Mutant of Writes: the file itself is written.
WritesInPlace(f, v) ==
  <<[do |-> "rename", on |-> f, value |-> v], [do |-> "write", on |-> f, value |-> v]>>

\* A value is written to a file beside, which then takes its name.
Writes(f, v) ==
  <<[do |-> "write", on |-> f, value |-> v], [do |-> "rename", on |-> f, value |-> v]>>

\* setItem on localStorage, put on an object store.
Set(a, k, v) == Call(Writes(<<a, k>>, v), [store.files EXCEPT ![<<a, k>>] = v])

LocalSet == \E k \in Key, v \in Value : Set(Local, k, v)
StorePut == \E n \in Name, k \in Key, v \in Value : sanitise[n] # Root /\ Set(sanitise[n], k, v)

\* removeItem, delete: one file.
Unlink(a, k) ==
  Call(<<[do |-> "unlink", on |-> <<a, k>>, value |-> None]>>, [store.files EXCEPT ![<<a, k>>] = None])

LocalRemove == \E k \in Key : Unlink(Local, k)
StoreDelete == \E n \in Name, k \in Key : sanitise[n] # Root /\ Unlink(sanitise[n], k)

\* remove_dir_all takes the files one by one, in an order of the file system's.
RemoveAll(areas) ==
  \E order \in SetToSeqs(areas \X Key) :
    Call([i \in DOMAIN order |-> [do |-> "sweep", on |-> order[i], value |-> None]],
         [f \in Area \X Key |-> IF f[1] \in areas THEN None ELSE store.files[f]])

\* clear on either, deleteDatabase.
LocalClear == RemoveAll({Local})
StoreClear == \E n \in Name : sanitise[n] # Root /\ RemoveAll({sanitise[n]})
DeleteDatabase == \E n \in Name : RemoveAll(Under(n))

----------------------------------------------------------------------------
\* The next file operation; a directory that is removed takes what lies beside along.
FileStep ==
  /\ store.op # <<>>
  /\ LET s == Head(store.op)  f == s.on IN
     store' = [store EXCEPT
       !.op = Tail(@),
       !.before = IF Len(store.op) = 1 THEN store.after ELSE @,
       !.tmp[f] = CASE s.do = "write" -> s.value [] s.do = "unlink" -> @ [] OTHER -> None,
       !.files[f] = CASE s.do = "write" -> @ [] s.do = "rename" -> store.tmp[f] [] OTHER -> None]

\* The call is over before it is done.
Ended == [store EXCEPT !.op = <<>>, !.before = store.files, !.after = store.files]

\* A write that fails ends its call, with the old value in place; nobody is told.
WriteFails ==
  /\ store.op # <<>> /\ Head(store.op).do \in {"write", "rename"}
  /\ store' = Ended

\* The process ends between two file operations, and what was in memory with it.
Crash ==
  /\ store.crashes < MaxCrashes
  /\ store' = [Ended EXCEPT !.crashes = @ + 1, !.session = [k \in Key |-> None]]

----------------------------------------------------------------------------
(* sessionStorage. *)

bytes(k) == IF store.session[k] = None THEN 0 ELSE size[store.session[k]]
session_total_bytes == FoldSet(LAMBDA k, n : n + bytes(k), 0, Key)
projected(k, v) == (session_total_bytes - bytes(k)) + size[v]

\* set_item: what would be held must fit, or the call throws.
SessionSet(k, v) ==
  /\ projected(k, v) <= SESSION_STORAGE_BYTE_CAP
  /\ store' = [store EXCEPT !.session[k] = v]

SessionRemove(k) == store' = [store EXCEPT !.session[k] = None]
SessionClear == store' = [store EXCEPT !.session = [k \in Key |-> None]]

SessionStep ==
  SessionClear \/ \E k \in Key : SessionRemove(k) \/ \E v \in Value : SessionSet(k, v)

----------------------------------------------------------------------------
Next ==
  \/ LocalSet \/ LocalRemove \/ LocalClear
  \/ StorePut \/ StoreDelete \/ StoreClear \/ DeleteDatabase
  \/ FileStep \/ WriteFails \/ Crash
  \/ SessionStep

Spec == Init /\ [][Next]_store

----------------------------------------------------------------------------
(* Properties. *)

TypeOK ==
  /\ {store.files, store.tmp, store.before, store.after} \subseteq Files
  /\ store.session \in [Key -> Value \cup {None}] /\ store.crashes \in 0..MaxCrashes

\* Wherever the process stops, each key holds what it held before the call that was
\* in progress, or what that call puts there; a finished call put it there (storage.rs:
\* writes atomically; idb.rs: atomic write via sibling tempfile + rename).
ValuesWhole ==
  /\ \A f \in Area \X Key : store.files[f] \in {store.before[f], store.after[f]}
  /\ store.op = <<>> => store.files = store.after

\* No sequence of calls makes sessionStorage hold more than its cap.
UnderCap == session_total_bytes <= SESSION_STORAGE_BYTE_CAP

==============================================================================
