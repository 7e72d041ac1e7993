----------------------------- MODULE PrivateFiles -----------------------------
(***************************************************************************)
(* The origin private file system (src/src/js/opfs.rs): handles are paths, *)
(* a writable stream writes a temporary file beside its target and renames *)
(* it over the target on close, a sync access handle writes the file in    *)
(* place.  One directory under the root, which scripts can remove too.     *)
(*                                                                         *)
(* A file is an inode, so that what is renamed over or unlinked can still  *)
(* be written by who has it open; its content is who wrote it, in order.   *)
(* Sizes and positions are left out: a write appends.                      *)
(***************************************************************************)
EXTENDS Integers, FiniteSets, SequencesExt

CONSTANTS
  FileName,
  MaxWriters,       \* bound: writers ever opened
  MaxWrites,        \* bound: writes to one file
  MaxInodes         \* bound: files ever made

Bounds == MaxWriters \in Nat /\ MaxWrites \in Nat /\ MaxInodes \in Nat

Writer == 1..MaxWriters
Nowhere == 0

VARIABLE fs
(* fs.dir: the directory exists; fs.names: inode of each file name, Nowhere if
   there is none; fs.temps: inode of each writer's temporary file;
   fs.content: of each inode; fs.writers: of each writer opened, its target, inode
   and kind, and whether it is open.  History: fs.sealed, inodes complete as far as
   their writable stream is concerned. *)

Init ==
  fs = [dir |-> TRUE, names |-> [f \in FileName |-> Nowhere],
        temps |-> [w \in Writer |-> Nowhere], content |-> <<>>, writers |-> <<>>, sealed |-> {}]

----------------------------------------------------------------------------
NewInode == Len(fs.content) + 1
Room == NewInode <= MaxInodes

\* getFileHandle: with create, an empty file where there is none.
GetFile ==
  /\ fs.dir /\ Room
  /\ \E f \in FileName :
       /\ fs.names[f] = Nowhere
       /\ fs' = [fs EXCEPT !.names[f] = NewInode, !.content = Append(@, <<>>), !.sealed = @ \cup {NewInode}]

\* getDirectoryHandle with create.
GetDirectory == ~fs.dir /\ fs' = [fs EXCEPT !.dir = TRUE]

\* removeEntry of a file ...
RemoveFile ==
  \E f \in FileName :
    /\ fs.names[f] # Nowhere
    /\ fs' = [fs EXCEPT !.names[f] = Nowhere]

\* ... which a temporary one is too: keys() and values() list it ...
RemoveTemp ==
  \E w \in Writer :
    /\ fs.temps[w] # Nowhere
    /\ fs' = [fs EXCEPT !.temps[w] = Nowhere]

\* ... and of the directory, recursively, which succeeds whoever has files open.
RemoveDirectory ==
  /\ fs.dir
  /\ fs' = [fs EXCEPT !.dir = FALSE, !.names = [f \in FileName |-> Nowhere],
                      !.temps = [w \in Writer |-> Nowhere]]

----------------------------------------------------------------------------
Opened(f, inode, sync) ==
  Append(fs.writers, [target |-> f, inode |-> inode, sync |-> sync, open |-> TRUE])

\* createWritable: a new temporary file, with what the target holds if asked.
CreateWritable ==
  /\ fs.dir /\ Len(fs.writers) < MaxWriters /\ Room
  /\ \E f \in FileName, keepExistingData \in BOOLEAN :
       LET start == IF keepExistingData /\ fs.names[f] # Nowhere
                      THEN fs.content[fs.names[f]] ELSE <<>>
       IN fs' = [fs EXCEPT !.temps[Len(fs.writers) + 1] = NewInode,
                           !.content = Append(@, start),
                           !.writers = Opened(f, NewInode, FALSE)]

\* createSyncAccessHandle opens the file itself, and makes it if it is missing.
CreateSyncAccessHandle ==
  /\ fs.dir /\ Len(fs.writers) < MaxWriters /\ Room
  /\ \E f \in FileName :
       fs' = IF fs.names[f] # Nowhere
               THEN [fs EXCEPT !.writers = Opened(f, fs.names[f], TRUE)]
               ELSE [fs EXCEPT !.writers = Opened(f, NewInode, TRUE), !.names[f] = NewInode,
                               !.content = Append(@, <<>>), !.sealed = @ \cup {NewInode}]

Open(w) == w \in DOMAIN fs.writers /\ fs.writers[w].open

\* write on either: to the inode, wherever its name is by now.
Write ==
  \E w \in DOMAIN fs.writers :
    /\ Open(w) /\ Len(fs.content[fs.writers[w].inode]) < MaxWrites
    /\ fs' = [fs EXCEPT !.content[fs.writers[w].inode] = Append(@, w)]

Truncate ==
  \E w \in DOMAIN fs.writers :
    /\ Open(w)
    /\ fs' = [fs EXCEPT !.content[fs.writers[w].inode] = <<>>]

\* commit_writer of a sync handle only lets go of the file.
CloseSync ==
  \E w \in DOMAIN fs.writers :
    /\ Open(w) /\ fs.writers[w].sync
    /\ fs' = [fs EXCEPT !.writers[w].open = FALSE]

\* commit_writer of a stream renames its temporary file over the target.  If that
\* was removed the rename fails, and the copy that is tried next, and the promise
\* resolves all the same.
CloseWritable ==
  \E w \in DOMAIN fs.writers :
    /\ Open(w) /\ ~fs.writers[w].sync
    /\ fs' = [fs EXCEPT !.writers[w].open = FALSE,
                        !.names[fs.writers[w].target] = IF fs.temps[w] = Nowhere THEN @ ELSE fs.temps[w],
                        !.temps[w] = Nowhere,
                        !.sealed = @ \cup {fs.writers[w].inode}]

\* abort drops the stream and its file.
AbortWritable ==
  \E w \in DOMAIN fs.writers :
    /\ Open(w) /\ ~fs.writers[w].sync
    /\ fs' = [fs EXCEPT !.writers[w].open = FALSE, !.temps[w] = Nowhere]

----------------------------------------------------------------------------
Next ==
  \/ GetFile \/ GetDirectory \/ RemoveFile \/ RemoveTemp \/ RemoveDirectory
  \/ CreateWritable \/ CreateSyncAccessHandle
  \/ Write \/ Truncate \/ CloseSync \/ CloseWritable \/ AbortWritable

Spec == Init /\ [][Next]_fs

----------------------------------------------------------------------------
(* Properties. *)

TypeOK ==
  /\ fs.dir \in BOOLEAN
  /\ fs.names \in [FileName -> Nowhere..Len(fs.content)]
  /\ fs.temps \in [Writer -> Nowhere..Len(fs.content)]
  /\ fs.content \in Seq(Seq(Writer)) /\ fs.sealed \subseteq 1..Len(fs.content)
  /\ \A w \in DOMAIN fs.writers : fs.writers[w].inode \in 1..Len(fs.content)

\* Under a file's name there is never what a stream has not closed, and two names
\* never share a file; so a stream that is open never changes a file, whatever is
\* renamed or removed meanwhile.  A temporary file belongs to an open stream, so
\* that none is left behind (createWritable, commit_writer).
FilesWhole ==
  /\ \A f \in FileName :
       /\ fs.names[f] # Nowhere => fs.names[f] \in fs.sealed
       /\ \A g \in FileName \ {f} : fs.names[f] # Nowhere => fs.names[f] # fs.names[g]
       /\ \A w \in DOMAIN fs.writers :
            Open(w) /\ ~fs.writers[w].sync => fs.writers[w].inode # fs.names[f]
  /\ \A w \in Writer : fs.temps[w] # Nowhere => Open(w)

==============================================================================
