------------------------------ MODULE HttpCache ------------------------------
(***************************************************************************)
(* The disk-backed HTTP cache (src/src/net/cache.rs) under the GET path of *)
(* Client::do_request (src/src/net/mod.rs).                                *)
(*                                                                         *)
(* A response is a version: the server of a URL has one current version,   *)
(* and a new one now and then.  A key has two files, .meta and .body, each *)
(* replaced by a rename; what the files hold is the version they came      *)
(* from.  The process can stop between any two file operations, and a      *)
(* write can fail; a restart scans the files.  Keys, headers, statuses and *)
(* the tempfile that a large hit is copied to are left out.                *)
(***************************************************************************)
EXTENDS Integers, FiniteSetsExt, SequencesExt, TLC

CONSTANTS
  Key,
  MaxBytes,       \* the code's max_bytes
  MaxVersions,    \* bound: responses the servers ever make
  SizeOf,         \* body size of each version
  MaxCrashes,     \* bound: times the process stops
  MaxFailures     \* bound: file operations that fail

Version == 1..MaxVersions

ASSUME BoundsAssumption ==
  /\ IsFiniteSet(Key)
  /\ MaxBytes \in Nat /\ MaxVersions \in Nat
  /\ SizeOf \in [Version -> Nat \ {0}]
  /\ MaxCrashes \in Nat /\ MaxFailures \in Nat

None == 0
Absent == -1           \* in disk: the key is not on record
Entry == [version : Version, fresh : BOOLEAN]
NoEntry == [version |-> None, fresh |-> FALSE]
Counted(size) == IF size = Absent THEN 0 ELSE size
BodySize(version) == IF version = None THEN 0 ELSE SizeOf[version]

Total(bytes) == MapThenSumSet(LAMBDA k : bytes[k], DOMAIN bytes)

VARIABLES
  meta_file, body_file,   \* what is on disk for each key: an entry, a version
  map,                    \* hot index: entries faulted in
  disk,                   \* sizes of the keys known to be on disk, or Absent
  order,                  \* eviction order
  total_bytes,
  step,                   \* the file operation that store or eviction is at
  server, versions,       \* current version of each key; versions made
  served,                 \* versions of the headers and of the body last returned
  crashes, failures

files == <<meta_file, body_file>>
memory == <<map, disk, order, total_bytes>>
world == <<server, versions>>
vars == <<files, memory, step, world, served, crashes, failures>>

\* The bytes of each key, as the index has them and as they lie on disk.
OnRecord == [k \in Key |-> Counted(disk[k])]
Resident == [k \in Key |-> BodySize(body_file[k])]

Idle == [at |-> "idle", key |-> None, version |-> None, fresh |-> FALSE]
At(place, key, version, fresh) ==
  [at |-> place, key |-> key, version |-> version, fresh |-> fresh]

Init ==
  /\ meta_file = [k \in Key |-> NoEntry] /\ body_file = [k \in Key |-> None]
  /\ map = [k \in Key |-> NoEntry] /\ disk = [k \in Key |-> Absent]
  /\ order = <<>> /\ total_bytes = 0
  /\ step = Idle
  /\ server = [k \in Key |-> None] /\ versions = 0
  /\ served = [head |-> None, body |-> None]
  /\ crashes = 0 /\ failures = 0

----------------------------------------------------------------------------
(* Reading. *)

\* lookup: the hot entry, else the meta file of a key known to be on disk.
Lookup(k) ==
  IF map[k] # NoEntry THEN map[k]
  ELSE IF disk[k] # Absent THEN meta_file[k] ELSE NoEntry

\* A fresh hit: headers from the entry, bytes from the body file (none when it
\* cannot be read).
Hit(k) ==
  /\ step = Idle /\ Lookup(k).fresh
  /\ map' = [map EXCEPT ![k] = Lookup(k)]
  /\ served' = [head |-> Lookup(k).version, body |-> body_file[k]]
  /\ UNCHANGED <<files, disk, order, total_bytes, step, world, crashes, failures>>

\* A file operation may fail.
Fails == failures < MaxFailures /\ failures' = failures + 1
Succeeds == UNCHANGED failures

\* Mutants of Revalidate: any answer refreshes the entry; a 304 makes an entry.
RevalidateUnmatched(k, fresh) ==
  LET entry == [version |-> Lookup(k).version, fresh |-> fresh] IN
  /\ step = Idle /\ Lookup(k) # NoEntry /\ ~Lookup(k).fresh
  /\ map' = [map EXCEPT ![k] = entry]
  /\ meta_file' = [meta_file EXCEPT ![k] = entry]
  /\ served' = [head |-> server[k], body |-> body_file[k]]
  /\ UNCHANGED <<body_file, disk, order, total_bytes, step, world, crashes, failures>>
RevalidateNothing(k, fresh) ==
  /\ step = Idle /\ ~Lookup(k).fresh
  /\ map' = [map EXCEPT ![k] = [version |-> Lookup(k).version, fresh |-> fresh]]
  /\ UNCHANGED <<files, disk, order, total_bytes, step, world, served, crashes, failures>>

\* A stale entry's validator still names the server's version: 304, and
\* refresh_after_304 renews the entry, on disk too unless that write fails.
Revalidate(k, fresh) ==
  LET entry == [version |-> Lookup(k).version, fresh |-> fresh] IN
  /\ step = Idle /\ Lookup(k) # NoEntry /\ ~Lookup(k).fresh
  /\ Lookup(k).version = server[k]
  /\ map' = [map EXCEPT ![k] = entry]
  /\ \/ Succeeds /\ meta_file' = [meta_file EXCEPT ![k] = entry]
     \/ Fails /\ UNCHANGED meta_file
  /\ served' = [head |-> server[k], body |-> body_file[k]]
  /\ UNCHANGED <<body_file, disk, order, total_bytes, step, world, crashes>>

\* 200 with the current version.  It may be uncacheable (no-store, too large).
Fetch(k, fresh) ==
  LET v == server[k] IN
  /\ step = Idle /\ ~Lookup(k).fresh /\ v # None
  /\ map' = [map EXCEPT ![k] = Lookup(k)]
  /\ served' = [head |-> v, body |-> v]
  /\ \/ step' = step
     \/ SizeOf[v] <= MaxBytes /\ step' = At("body", k, v, fresh)
  /\ UNCHANGED <<files, disk, order, total_bytes, world, crashes, failures>>

----------------------------------------------------------------------------
(* Writing: store, one file operation at a time. *)

WriteBody ==
  /\ step.at = "body"
  /\ \/ /\ Succeeds
        /\ body_file' = [body_file EXCEPT ![step.key] = step.version]
        /\ step' = [step EXCEPT !.at = "meta"]
     \/ Fails /\ step' = Idle /\ UNCHANGED body_file
  /\ UNCHANGED <<meta_file, memory, world, served, crashes>>

\* A failed meta write takes the body file away again.
WriteMeta ==
  /\ step.at = "meta"
  /\ \/ /\ Succeeds
        /\ meta_file' = [meta_file EXCEPT ![step.key] =
                           [version |-> step.version, fresh |-> step.fresh]]
        /\ step' = [step EXCEPT !.at = "index"]
        /\ UNCHANGED body_file
     \/ /\ Fails
        /\ body_file' = [body_file EXCEPT ![step.key] = None]
        /\ step' = Idle
        /\ UNCHANGED meta_file
  /\ UNCHANGED <<memory, world, served, crashes>>

\* The eviction order with every other key kept.
Without(k) ==
  LET kept[n \in 0..Len(order)] ==
        IF n = 0 THEN <<>>
        ELSE IF order[n] = k THEN kept[n - 1] ELSE Append(kept[n - 1], order[n])
  IN kept[Len(order)]

\* Mutant of UpdateIndex: the size of the entry overwritten stays counted.
UpdateIndexTwice ==
  LET k == step.key IN
  /\ step.at = "index"
  /\ total_bytes' = total_bytes + SizeOf[step.version]
  /\ order' = Append(Without(k), k)
  /\ disk' = [disk EXCEPT ![k] = SizeOf[step.version]]
  /\ map' = [map EXCEPT ![k] = [version |-> step.version, fresh |-> step.fresh]]
  /\ step' = [Idle EXCEPT !.at = "evict"]
  /\ UNCHANGED <<files, world, served, crashes, failures>>

\* The bookkeeping at the end of store; an entry overwritten is taken out first.
UpdateIndex ==
  LET k == step.key IN
  /\ step.at = "index"
  /\ total_bytes' = total_bytes - Counted(disk[k]) + SizeOf[step.version]
  /\ order' = Append(Without(k), k)
  /\ disk' = [disk EXCEPT ![k] = SizeOf[step.version]]
  /\ map' = [map EXCEPT ![k] = [version |-> step.version, fresh |-> step.fresh]]
  /\ step' = [Idle EXCEPT !.at = "evict"]
  /\ UNCHANGED <<files, world, served, crashes, failures>>

----------------------------------------------------------------------------
(* evict_until_under_cap. *)

\* Mutant of EvictOldest: the body file goes before the meta file.
EvictBodyFirst ==
  LET k == Head(order) IN
  /\ step.at = "evict" /\ total_bytes > MaxBytes /\ order # <<>>
  /\ order' = Tail(order)
  /\ disk' = [disk EXCEPT ![k] = Absent]
  /\ total_bytes' = total_bytes - disk[k]
  /\ map' = [map EXCEPT ![k] = NoEntry]
  /\ body_file' = [body_file EXCEPT ![k] = None]
  /\ step' = [Idle EXCEPT !.at = "unlink", !.key = k]
  /\ UNCHANGED <<meta_file, world, served, crashes, failures>>

\* Forget the oldest key and remove its meta file ...
EvictOldest ==
  LET k == Head(order) IN
  /\ step.at = "evict" /\ total_bytes > MaxBytes /\ order # <<>>
  /\ order' = Tail(order)
  /\ disk' = [disk EXCEPT ![k] = Absent]
  /\ total_bytes' = total_bytes - disk[k]
  /\ map' = [map EXCEPT ![k] = NoEntry]
  /\ \/ Succeeds /\ meta_file' = [meta_file EXCEPT ![k] = NoEntry]
     \/ Fails /\ UNCHANGED meta_file
  /\ step' = [Idle EXCEPT !.at = "unlink", !.key = k]
  /\ UNCHANGED <<body_file, world, served, crashes>>

\* ... and then its body file.
RemoveBody ==
  /\ step.at = "unlink"
  /\ \/ Succeeds /\ body_file' = [body_file EXCEPT ![step.key] = None]
     \/ Fails /\ UNCHANGED body_file
  /\ step' = [Idle EXCEPT !.at = "evict"]
  /\ UNCHANGED <<meta_file, memory, world, served, crashes>>

\* Mutant of EvictionDone: eviction may stop above the cap.
EvictionDoneEarly ==
  /\ step.at = "evict"
  /\ step' = Idle
  /\ UNCHANGED <<files, memory, world, served, crashes, failures>>

EvictionDone ==
  /\ step.at = "evict" /\ (total_bytes <= MaxBytes \/ order = <<>>)
  /\ step' = Idle
  /\ UNCHANGED <<files, memory, world, served, crashes, failures>>

----------------------------------------------------------------------------
(* The rest of the world. *)

\* A server's content changes, to something new or back to something earlier.
Publish(k) ==
  /\ \E v \in Version :
       /\ v <= versions + 1
       /\ server' = [server EXCEPT ![k] = v]
       /\ versions' = IF v > versions THEN v ELSE versions
  /\ UNCHANGED <<files, memory, step, served, crashes, failures>>

Stale(entry) == [version |-> entry.version, fresh |-> FALSE]

\* The freshness window closes.
Expire(k) ==
  /\ map' = [map EXCEPT ![k] = Stale(@)]
  /\ meta_file' = [meta_file EXCEPT ![k] = Stale(@)]
  /\ UNCHANGED <<body_file, disk, order, total_bytes, step, world, served,
                 crashes, failures>>

Scanned == {k \in Key : meta_file[k] # NoEntry}

\* The process stops, anywhere; rebuild_index_from_disk of the next one takes
\* the files in the order the directory lists them, and then evicts.
Crash ==
  /\ crashes < MaxCrashes
  /\ crashes' = crashes + 1
  /\ map' = [k \in Key |-> NoEntry]
  /\ disk' = [k \in Key |-> IF k \in Scanned THEN BodySize(body_file[k]) ELSE Absent]
  /\ order' \in SetToSeqs(Scanned)
  /\ total_bytes' = Total([k \in Key |-> Counted(disk'[k])])
  /\ step' = [Idle EXCEPT !.at = "evict"]
  /\ served' = [head |-> None, body |-> None]
  /\ UNCHANGED <<files, world, failures>>

Next ==
  \/ \E k \in Key :
       \/ Hit(k)
       \/ \E fresh \in BOOLEAN : Revalidate(k, fresh) \/ Fetch(k, fresh)
       \/ Publish(k)
       \/ Expire(k)
  \/ WriteBody \/ WriteMeta \/ UpdateIndex
  \/ EvictOldest \/ RemoveBody \/ EvictionDone
  \/ Crash

Spec == Init /\ [][Next]_vars

----------------------------------------------------------------------------
(* Properties. *)

TypeOK ==
  /\ meta_file \in [Key -> Entry \cup {NoEntry}]
  /\ body_file \in [Key -> Version \cup {None}]
  /\ map \in [Key -> Entry \cup {NoEntry}]
  /\ disk \in [Key -> Nat \cup {Absent}]
  /\ order \in Seq(Key)
  /\ total_bytes \in Nat
  /\ step.at \in {"idle", "body", "meta", "index", "evict", "unlink"}
  /\ step.at \in {"body", "meta", "index"} => step.key \in Key /\ step.version \in Version
  /\ step.at = "unlink" => step.key \in Key
  /\ server \in [Key -> Version \cup {None}]

\* The books balance after any sequence of stores, overwrites, evictions and
\* restarts: the total is the sum of the sizes on record, every key on record
\* is in the eviction order exactly once (else it could never be evicted, or
\* its size would be subtracted twice), and no hot entry outlives its record.
Accounted ==
  /\ total_bytes = Total(OnRecord)
  /\ \A i, j \in DOMAIN order : order[i] = order[j] => i = j
  /\ \A k \in Key : disk[k] # Absent => Contains(order, k)
  /\ \A k \in Key : map[k] # NoEntry => disk[k] # Absent

BodyBeside == \A k \in Key : meta_file[k] # NoEntry => body_file[k] # None

\* Wherever the process stops, a meta file on disk has its body file beside it, if
\* no file operation has failed: bodies are written first and removed last, so a
\* hit after a restart never hands out an empty body (store,
\* evict_until_under_cap).
MetaHasBody == failures = 0 => BodyBeside

Undisturbed == crashes = 0 /\ failures = 0

\* While no write is cut short, headers and body of a response belong together,
\* also when they come from a hit or a 304: storing, overwriting, renewing and
\* evicting never pair one version's headers with another's bytes.
ServedTogether == Undisturbed => served.head = served.body

\* Between requests the bytes on record are within the budget, and while no write is
\* cut short so are the bytes resident on disk (cache.rs 34-36).
UnderCap ==
  step = Idle =>
    /\ total_bytes <= MaxBytes
    /\ Undisturbed => Total(Resident) <= MaxBytes

\* What the code's header says of it, and a crash between the two renames of one
\* store refutes: meta and body are written atomically (cache.rs 11-13).
ServedWhole == served.head = served.body

----------------------------------------------------------------------------
(* For TLC: keys are alike, and two of three bodies do not fit together. *)

KeySymmetry == Permutations(Key)
Sizes == [v \in Version |-> 1 + (v % 2)]

============================================================================
