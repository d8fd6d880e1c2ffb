----------------------------- MODULE FileStore ------------------------------
(***************************************************************************)
(* The vault's files: src-tauri/src/fsops.rs over the rows of              *)
(* src-tauri/src/meta.rs.  Every command is a Tauri async command; several *)
(* run at once and no lock is held across one (lib.rs clones the Vault and *)
(* releases the mutex).  Each SQL statement commits by itself, and the     *)
(* disk changes between them are not part of any transaction, so a command *)
(* is a chain of steps: first the reads, then one step for each change of  *)
(* the disk and each change of a table.  Reads with no write between them  *)
(* are one step with the step before them.                                 *)
(***************************************************************************)
EXTENDS DiskTree

CONSTANTS
  Procs,        \* command invocations that can be in flight together
  Names,        \* names a user types, and names derived from them
  UserNames,    \* the names a user types
  DiskNames,    \* path components
  Sanitise,     \* Names -> DiskNames, not injective
  CopyName,     \* name -> "Copy of name", for the names that may be copied
  StartsLike,   \* <<a, b>>: b LIKE 'a%' for two components
  Contents,     \* file contents; the hash of a content is the content
  Torn,         \* what a truncated or half-written file holds
  Nil,
  Ops,          \* the commands issued
  Careful,      \* TRUE: users only pick free names (see Polite)
  MaxFolders, MaxFiles, MaxTime,   \* bounds on ids and on the clock
  MaxPaths,                        \* bound on the paths on disk (a restored directory can nest)
  MaxFaults, FaultPoints           \* bound on faults, and where they may strike

Root == 0                       \* folder_id NULL
FolderIds == Nat \ {0}
FileIds == Nat \ {0}
Slots == (1..MaxTime) \X DiskNames    \* bin/<seconds>_<name>

AllOps == {"create_folder", "rename_folder", "delete_folder", "move_file", "rename_file",
           "copy_file", "delete_file", "restore", "empty_bin", "ingest"}

FolderInserts == {"mkdir", "insertFolder"}
FileInserts == {"blobOpen", "blobWrite", "link", "copyOpen", "copyWrite", "insertFile"}
PCs == FolderInserts \cup FileInserts \cup
       {"idle", "renameDir", "updateFolder", "updateBelow", "binDir", "binFiles", "dropFolders",
        "moveDisk", "moveRow", "renameDisk", "renameRow", "binDisk", "binRow",
        "restoreDisk", "restoreRow", "purgeRows"}

ASSUME NamesAssumption ==
  /\ UserNames \subseteq Names
  /\ Sanitise \in [Names -> DiskNames]
  /\ \A n \in DOMAIN CopyName : n \in Names /\ CopyName[n] \in Names
ASSUME LikeAssumption == \A d \in DiskNames : <<d, d>> \in StartsLike
ASSUME BoundsAssumption ==
  /\ MaxFolders \in Nat /\ MaxFiles \in Nat /\ MaxTime \in Nat \ {0}
  /\ MaxPaths \in Nat /\ MaxFaults \in Nat
  /\ Ops \subseteq AllOps /\ FaultPoints \subseteq PCs /\ Careful \in BOOLEAN
ASSUME ValuesAssumption == Torn \notin Contents /\ Nil \notin Names \cup Contents \cup Slots

VARIABLES
  folders,      \* table folders: id -> [name, parent, path], path being disk_path
  files,        \* table files: id -> [hash, name, folder, from, binned]
  tree,         \* <root>/files
  bin,          \* <root>/bin, whose top components are slots
  blobs,        \* <root>/blobs: hash -> inode
  data,         \* data[i]: what inode i holds
  now,          \* now_ts(), in seconds
  nextFolder, nextFile,   \* fresh ids (uuids in the code)
  cmd,          \* what each command in flight holds in its locals
  faults        \* faults so far

rows == <<folders, files, nextFolder, nextFile>>
disk == <<tree, bin, blobs, data>>
vars == <<folders, files, tree, bin, blobs, data, now, nextFolder, nextFile, cmd, faults>>

Idle == [pc |-> "idle", file |-> 0, folder |-> Root, name |-> Nil, hash |-> Nil,
         src |-> <<>>, dst |-> <<>>, slot |-> Nil, ino |-> 0]

\* vault.rs: a new vault has the directories and an empty schema.
Init ==
  /\ folders = [g \in {} |-> Nil] /\ files = [f \in {} |-> Nil]
  /\ tree = EmptyTree /\ bin = EmptyTree
  /\ blobs = [h \in {} |-> 0] /\ data = <<>>
  /\ now = 1 /\ nextFolder = 1 /\ nextFile = 1
  /\ cmd = [p \in Procs |-> Idle] /\ faults = 0

-----------------------------------------------------------------------------
(* Paths, and the two ways SQL matches a stored disk_path.                  *)

Listed(d) == d = Root \/ d \in DOMAIN folders
DirOf(d) == IF d = Root THEN <<>> ELSE folders[d].path
PathIn(d, n) == Append(DirOf(d), Sanitise[n])

\* disk_path LIKE 'a%' : no separator before the wildcard.
LikePath(a, b) ==
  /\ a # <<>> /\ Len(a) <= Len(b)
  /\ SubSeq(b, 1, Len(a) - 1) = Front(a)
  /\ <<Last(a), b[Len(a)]>> \in StartsLike
Doomed(d, path) == {g \in DOMAIN folders : g = d \/ LikePath(path, folders[g].path)}

\* REPLACE(disk_path, 'old/', 'new/').
SwapPrefix(p, old, new) ==
  IF IsStrictPrefix(old, p) THEN new \o SubSeq(p, Len(old) + 1, Len(p)) ELSE p

\* restore_from_bin's scan: entries whose name fits, the one with the greatest time.
BinMatches(n) == {e \in Slots : <<e>> \in DOMAIN bin /\ e[2] = Sanitise[n]}
Newest(n) ==
  IF BinMatches(n) = {} THEN {Nil}
  ELSE {e \in BinMatches(n) : \A e2 \in BinMatches(n) : e2[1] <= e[1]}

-----------------------------------------------------------------------------
(* Starting a command and going from step to step.                          *)

Busy == {p \in Procs : cmd[p].pc # "idle"}
At(p, pc) == cmd[p].pc = pc
Goto(p, pc) == cmd' = [cmd EXCEPT ![p].pc = pc]
Done(p) == cmd' = [cmd EXCEPT ![p] = Idle]
Start(p, op, locals) ==
  /\ op \in Ops /\ At(p, "idle")
  /\ cmd' = [cmd EXCEPT ![p] = locals]
  /\ UNCHANGED <<rows, disk, now, faults>>

InFlight(pcs) == Cardinality({p \in Procs : cmd[p].pc \in pcs})
FolderBudget == nextFolder + InFlight(FolderInserts) <= MaxFolders
FileBudget == nextFile + InFlight(FileInserts) <= MaxFiles
PathBudget == Cardinality(DOMAIN tree) + Cardinality(DOMAIN bin) <= MaxPaths

\* A careful user picks a target that no file, no live row and no command in flight has,
\* and bins a name only when neither the bin nor a binned row has it.
Live(f) == f \in DOMAIN files /\ ~files[f].binned
FilePath(f) == PathIn(files[f].folder, files[f].name)
Polite(path) ==
  Careful => /\ path \notin DOMAIN tree
             /\ \A f \in DOMAIN files : Live(f) /\ Listed(files[f].folder) => FilePath(f) # path
             /\ \A q \in Busy : cmd[q].dst # path
PoliteBin(n) ==
  Careful => /\ BinMatches(n) = {}
             /\ \A f \in DOMAIN files : files[f].binned => Sanitise[files[f].name] # Sanitise[n]
             /\ \A q \in Busy : cmd[q].slot = Nil

-----------------------------------------------------------------------------
(* create_folder                                                            *)

CreateFolder(p) ==
  \E d \in DOMAIN folders \cup {Root}, n \in UserNames :
    /\ FolderBudget /\ Polite(PathIn(d, n))
    /\ Start(p, "create_folder",
             [Idle EXCEPT !.pc = "mkdir", !.folder = d, !.name = n, !.dst = PathIn(d, n)])

MakeDir(p) ==
  /\ At(p, "mkdir")
  /\ \/ /\ CanMkdirAll(tree, cmd[p].dst)
        /\ tree' = MkdirAll(tree, cmd[p].dst)
        /\ Goto(p, "insertFolder")
     \/ /\ ~CanMkdirAll(tree, cmd[p].dst)
        /\ Done(p) /\ UNCHANGED tree
  /\ UNCHANGED <<rows, bin, blobs, data, now, faults>>

InsertFolder(p) ==
  /\ At(p, "insertFolder")
  /\ folders' = [g \in DOMAIN folders \cup {nextFolder} |->
                   IF g = nextFolder
                     THEN [name |-> cmd[p].name, parent |-> cmd[p].folder, path |-> cmd[p].dst]
                     ELSE folders[g]]
  /\ nextFolder' = nextFolder + 1
  /\ Done(p)
  /\ UNCHANGED <<files, nextFile, disk, now, faults>>

-----------------------------------------------------------------------------
(* rename_folder                                                            *)

RenameFolder(p) ==
  \E g \in DOMAIN folders, n \in UserNames :
    /\ Listed(folders[g].parent)
    /\ Polite(PathIn(folders[g].parent, n))
    /\ Start(p, "rename_folder",
             [Idle EXCEPT !.pc = "renameDir", !.folder = g, !.name = n,
                          !.src = folders[g].path, !.dst = PathIn(folders[g].parent, n)])

RenameDir(p) ==
  /\ At(p, "renameDir")
  /\ \/ /\ CanMove(tree, cmd[p].src, cmd[p].dst)
        /\ tree' = Move(tree, cmd[p].src, cmd[p].dst)
        /\ Goto(p, "updateFolder")
     \/ /\ ~CanMove(tree, cmd[p].src, cmd[p].dst)
        /\ Done(p) /\ UNCHANGED tree
  /\ UNCHANGED <<rows, bin, blobs, data, now, faults>>

UpdateFolder(p) ==
  /\ At(p, "updateFolder")
  /\ folders' = [g \in DOMAIN folders |->
                   IF g = cmd[p].folder
                     THEN [folders[g] EXCEPT !.name = cmd[p].name, !.path = cmd[p].dst]
                     ELSE folders[g]]
  /\ Goto(p, "updateBelow")
  /\ UNCHANGED <<files, nextFolder, nextFile, disk, now, faults>>

\* Mutant: the descendants' disk_path is left as it was.
UpdateBelow_Skipped(p) ==
  /\ At(p, "updateBelow")
  /\ Done(p)
  /\ UNCHANGED <<rows, disk, now, faults>>

UpdateBelow(p) ==
  /\ At(p, "updateBelow")
  /\ folders' = [g \in DOMAIN folders |->
                   [folders[g] EXCEPT !.path = SwapPrefix(@, cmd[p].src, cmd[p].dst)]]
  /\ Done(p)
  /\ UNCHANGED <<files, nextFolder, nextFile, disk, now, faults>>

-----------------------------------------------------------------------------
(* delete_folder_to_bin                                                     *)

DeleteFolder(p) ==
  \E g \in DOMAIN folders :
    /\ PoliteBin(folders[g].name)
    /\ Start(p, "delete_folder",
             [Idle EXCEPT !.pc = "binDir", !.folder = g, !.src = folders[g].path,
                          !.slot = <<now, Sanitise[folders[g].name]>>])

BinDir(p) ==
  /\ At(p, "binDir")
  /\ LET c == cmd[p]  to == <<c.slot>> IN
     \/ /\ CanRename(tree, c.src, bin, to)
        /\ tree' = RenamedFrom(tree, c.src, bin, to)
        /\ bin' = RenamedTo(tree, c.src, bin, to)
        /\ Goto(p, "binFiles")
     \/ /\ ~CanRename(tree, c.src, bin, to)      \* gone on disk, or the rename fails
        /\ Done(p) /\ UNCHANGED <<tree, bin>>
  /\ UNCHANGED <<rows, blobs, data, now, faults>>

\* Mutant: the files of the folders inside are forgotten.
BinFiles_ThisFolderOnly(p) ==
  /\ At(p, "binFiles")
  /\ files' = [f \in DOMAIN files |->
                 IF files[f].folder = cmd[p].folder
                   THEN [files[f] EXCEPT !.binned = TRUE, !.from = files[f].folder]
                   ELSE files[f]]
  /\ Goto(p, "dropFolders")
  /\ UNCHANGED <<folders, nextFolder, nextFile, disk, now, faults>>

BinFiles(p) ==
  /\ At(p, "binFiles")
  /\ files' = [f \in DOMAIN files |->
                 IF files[f].folder \in Doomed(cmd[p].folder, cmd[p].src)
                   THEN [files[f] EXCEPT !.binned = TRUE, !.from = files[f].folder]
                   ELSE files[f]]
  /\ Goto(p, "dropFolders")
  /\ UNCHANGED <<folders, nextFolder, nextFile, disk, now, faults>>

\* Mutant: DELETE ... WHERE id = ?1 alone.
DropFolders_ThisFolderOnly(p) ==
  /\ At(p, "dropFolders")
  /\ folders' = [g \in DOMAIN folders \ {cmd[p].folder} |-> folders[g]]
  /\ Done(p)
  /\ UNCHANGED <<files, nextFolder, nextFile, disk, now, faults>>

DropFolders(p) ==
  /\ At(p, "dropFolders")
  /\ folders' = [g \in DOMAIN folders \ Doomed(cmd[p].folder, cmd[p].src) |-> folders[g]]
  /\ Done(p)
  /\ UNCHANGED <<files, nextFolder, nextFile, disk, now, faults>>

-----------------------------------------------------------------------------
(* move_file and rename_file                                                *)

MoveFile(p) ==
  \E f \in DOMAIN files, d \in DOMAIN folders \cup {Root} :
    /\ Live(f) /\ Listed(files[f].folder)
    /\ Polite(PathIn(d, files[f].name))
    /\ Start(p, "move_file",
             [Idle EXCEPT !.pc = "moveDisk", !.file = f, !.folder = d,
                          !.src = FilePath(f), !.dst = PathIn(d, files[f].name)])

MoveDisk(p) ==
  /\ At(p, "moveDisk")
  /\ LET c == cmd[p]  dir == Front(c.dst)  t == MkdirAll(tree, dir) IN
     \/ /\ CanMkdirAll(tree, dir) /\ CanMove(t, c.src, c.dst)
        /\ tree' = Move(t, c.src, c.dst)
        /\ Goto(p, "moveRow")
     \/ /\ ~(CanMkdirAll(tree, dir) /\ CanMove(t, c.src, c.dst))
        /\ tree' = IF CanMkdirAll(tree, dir) THEN t ELSE tree
        /\ Done(p)
  /\ UNCHANGED <<rows, bin, blobs, data, now, faults>>

MoveRow(p) ==
  /\ At(p, "moveRow")
  /\ files' = [f \in DOMAIN files |->
                 IF f = cmd[p].file THEN [files[f] EXCEPT !.folder = cmd[p].folder] ELSE files[f]]
  /\ Done(p)
  /\ UNCHANGED <<folders, nextFolder, nextFile, disk, now, faults>>

RenameFile(p) ==
  \E f \in DOMAIN files, n \in UserNames :
    /\ Live(f) /\ Listed(files[f].folder)
    /\ Polite(PathIn(files[f].folder, n))
    /\ Start(p, "rename_file",
             [Idle EXCEPT !.pc = "renameDisk", !.file = f, !.name = n,
                          !.src = FilePath(f), !.dst = PathIn(files[f].folder, n)])

RenameDisk(p) ==
  /\ At(p, "renameDisk")
  /\ \/ /\ CanMove(tree, cmd[p].src, cmd[p].dst)
        /\ tree' = Move(tree, cmd[p].src, cmd[p].dst)
        /\ Goto(p, "renameRow")
     \/ /\ ~CanMove(tree, cmd[p].src, cmd[p].dst)
        /\ Done(p) /\ UNCHANGED tree
  /\ UNCHANGED <<rows, bin, blobs, data, now, faults>>

\* Mutant: the UPDATE binds the old name.
RenameRow_OldName(p) ==
  /\ At(p, "renameRow")
  /\ Done(p)
  /\ UNCHANGED <<rows, disk, now, faults>>

RenameRow(p) ==
  /\ At(p, "renameRow")
  /\ files' = [f \in DOMAIN files |->
                 IF f = cmd[p].file THEN [files[f] EXCEPT !.name = cmd[p].name] ELSE files[f]]
  /\ Done(p)
  /\ UNCHANGED <<folders, nextFolder, nextFile, disk, now, faults>>

-----------------------------------------------------------------------------
(* ingest_bytes and copy_file: both end in the link-or-copy of a blob and   *)
(* the insertion of a row.                                                  *)

Ingest(p) ==
  \E h \in Contents, n \in UserNames, d \in DOMAIN folders \cup {Root} :
    /\ FileBudget /\ Polite(PathIn(d, n))
    /\ Start(p, "ingest",
             [Idle EXCEPT !.pc = IF h \in DOMAIN blobs THEN "link" ELSE "blobOpen",
                          !.hash = h, !.name = n, !.folder = d, !.dst = PathIn(d, n)])

\* Mutant: a writer that finds the blob there after all goes on without writing it.
BlobOpen_TruncatesAndLeaves(p) ==
  /\ At(p, "blobOpen")
  /\ LET h == cmd[p].hash IN
     \/ /\ h \in DOMAIN blobs
        /\ data' = [data EXCEPT ![blobs[h]] = Torn]
        /\ Goto(p, "link")
        /\ UNCHANGED blobs
     \/ /\ h \notin DOMAIN blobs
        /\ data' = Append(data, Torn)
        /\ blobs' = [g \in DOMAIN blobs \cup {h} |-> IF g = h THEN Len(data) + 1 ELSE blobs[g]]
        /\ Goto(p, "blobWrite")
  /\ UNCHANGED <<rows, tree, bin, now, faults>>

\* fs::write opens with truncation: a second writer of the same hash empties the first's file.
BlobOpen(p) ==
  /\ At(p, "blobOpen")
  /\ LET h == cmd[p].hash IN
     \/ /\ h \in DOMAIN blobs
        /\ data' = [data EXCEPT ![blobs[h]] = Torn]
        /\ UNCHANGED blobs
     \/ /\ h \notin DOMAIN blobs
        /\ data' = Append(data, Torn)
        /\ blobs' = [g \in DOMAIN blobs \cup {h} |-> IF g = h THEN Len(data) + 1 ELSE blobs[g]]
  /\ Goto(p, "blobWrite")
  /\ UNCHANGED <<rows, tree, bin, now, faults>>

\* The bytes, then the lookup of the folder, whose row may be gone by now.
BlobWrite(p) ==
  /\ At(p, "blobWrite")
  /\ data' = [data EXCEPT ![blobs[cmd[p].hash]] = cmd[p].hash]
  /\ \/ /\ Listed(cmd[p].folder)
        /\ cmd' = [cmd EXCEPT ![p].pc = "link",
                              ![p].dst = PathIn(cmd[p].folder, cmd[p].name)]
     \/ /\ ~Listed(cmd[p].folder)
        /\ Done(p)
  /\ UNCHANGED <<rows, tree, bin, blobs, now, faults>>

CopyFile(p) ==
  \E f \in DOMAIN files, d \in DOMAIN folders \cup {Root} :
    /\ FileBudget /\ Live(f) /\ files[f].name \in DOMAIN CopyName
    /\ LET n == CopyName[files[f].name] IN
       /\ Polite(PathIn(d, n))
       /\ Start(p, "copy_file",
                [Idle EXCEPT !.pc = "link", !.hash = files[f].hash, !.name = n,
                             !.folder = d, !.dst = PathIn(d, n)])

\* create_dir_all of the folder, then hard_link, which fails when the name is taken.
Link(p) ==
  /\ At(p, "link")
  /\ LET c == cmd[p]  dir == Front(c.dst)  t == MkdirAll(tree, dir) IN
     \/ /\ CanMkdirAll(tree, dir) /\ c.hash \in DOMAIN blobs /\ c.dst \notin DOMAIN t
        /\ tree' = AddFile(t, c.dst, blobs[c.hash])
        /\ Goto(p, "insertFile")
     \/ /\ CanMkdirAll(tree, dir) /\ c.hash \in DOMAIN blobs /\ c.dst \in DOMAIN t
        /\ tree' = t
        /\ Goto(p, "copyOpen")
     \/ /\ ~(CanMkdirAll(tree, dir) /\ c.hash \in DOMAIN blobs)
        /\ Done(p) /\ UNCHANGED tree
  /\ UNCHANGED <<rows, bin, blobs, data, now, faults>>

\* fs::copy opens the target with truncation, then writes the blob's bytes INTO that inode.
CopyOpen(p) ==
  /\ At(p, "copyOpen")
  /\ LET c == cmd[p] IN
     \/ /\ IsFile(tree, c.dst)
        /\ data' = [data EXCEPT ![tree[c.dst]] = Torn]
        /\ cmd' = [cmd EXCEPT ![p].pc = "copyWrite", ![p].ino = tree[c.dst]]
        /\ UNCHANGED tree
     \/ /\ c.dst \notin DOMAIN tree /\ IsDir(tree, Front(c.dst))
        /\ data' = Append(data, Torn)
        /\ tree' = AddFile(tree, c.dst, Len(data) + 1)
        /\ cmd' = [cmd EXCEPT ![p].pc = "copyWrite", ![p].ino = Len(data) + 1]
     \/ /\ IsDir(tree, c.dst) \/ (c.dst \notin DOMAIN tree /\ ~IsDir(tree, Front(c.dst)))
        /\ Done(p) /\ UNCHANGED <<tree, data>>
  /\ UNCHANGED <<rows, bin, blobs, now, faults>>

CopyWrite(p) ==
  /\ At(p, "copyWrite")
  /\ data' = [data EXCEPT ![cmd[p].ino] = data[blobs[cmd[p].hash]]]
  /\ Goto(p, "insertFile")
  /\ UNCHANGED <<rows, tree, bin, blobs, now, faults>>

\* Mutant: the INSERT binds no hash.
InsertFile_NoHash(p) ==
  /\ At(p, "insertFile")
  /\ files' = [f \in DOMAIN files \cup {nextFile} |->
                 IF f = nextFile
                   THEN [hash |-> Nil, name |-> cmd[p].name, folder |-> cmd[p].folder,
                         from |-> Root, binned |-> FALSE]
                   ELSE files[f]]
  /\ nextFile' = nextFile + 1
  /\ Done(p)
  /\ UNCHANGED <<folders, nextFolder, disk, now, faults>>

InsertFile(p) ==
  /\ At(p, "insertFile")
  /\ files' = [f \in DOMAIN files \cup {nextFile} |->
                 IF f = nextFile
                   THEN [hash |-> cmd[p].hash, name |-> cmd[p].name, folder |-> cmd[p].folder,
                         from |-> Root, binned |-> FALSE]
                   ELSE files[f]]
  /\ nextFile' = nextFile + 1
  /\ Done(p)
  /\ UNCHANGED <<folders, nextFolder, disk, now, faults>>

-----------------------------------------------------------------------------
(* delete_file_to_bin, restore_from_bin and empty_bin                       *)

DeleteFile(p) ==
  \E f \in DOMAIN files :
    /\ Live(f) /\ Listed(files[f].folder) /\ PoliteBin(files[f].name)
    /\ Start(p, "delete_file",
             [Idle EXCEPT !.pc = "binDisk", !.file = f, !.folder = files[f].folder,
                          !.src = FilePath(f), !.slot = <<now, Sanitise[files[f].name]>>])

\* A file that is not on disk is binned all the same, with nothing in the bin.
BinDisk(p) ==
  /\ At(p, "binDisk")
  /\ LET c == cmd[p]  to == <<c.slot>> IN
     \/ /\ c.src \notin DOMAIN tree
        /\ Goto(p, "binRow") /\ UNCHANGED <<tree, bin>>
     \/ /\ CanRename(tree, c.src, bin, to)
        /\ tree' = RenamedFrom(tree, c.src, bin, to)
        /\ bin' = RenamedTo(tree, c.src, bin, to)
        /\ Goto(p, "binRow")
     \/ /\ c.src \in DOMAIN tree /\ ~CanRename(tree, c.src, bin, to)
        /\ Done(p) /\ UNCHANGED <<tree, bin>>
  /\ UNCHANGED <<rows, blobs, data, now, faults>>

BinRow(p) ==
  /\ At(p, "binRow")
  /\ files' = [f \in DOMAIN files |->
                 IF f = cmd[p].file
                   THEN [files[f] EXCEPT !.binned = TRUE, !.from = cmd[p].folder]
                   ELSE files[f]]
  /\ Done(p)
  /\ UNCHANGED <<folders, nextFolder, nextFile, disk, now, faults>>

Restore(p) ==
  \E f \in DOMAIN files : \E e \in Newest(files[f].name) :
    LET n == files[f].name  d == files[f].from IN
    /\ files[f].binned /\ Listed(d) /\ Polite(PathIn(d, n)) /\ PathBudget
    /\ Start(p, "restore",
             [Idle EXCEPT !.pc = "restoreDisk", !.file = f, !.slot = e,
                          !.dst = PathIn(d, n)])

\* With no matching entry the row is restored all the same, with nothing on disk.
RestoreDisk(p) ==
  /\ At(p, "restoreDisk")
  /\ LET c == cmd[p]  dir == Front(c.dst)  t == MkdirAll(tree, dir)  from == <<c.slot>>
         ready == CanMkdirAll(tree, dir)
         can == c.slot # Nil /\ CanRename(bin, from, t, c.dst) IN
     \/ /\ ready /\ c.slot = Nil
        /\ tree' = t
        /\ Goto(p, "restoreRow") /\ UNCHANGED bin
     \/ /\ ready /\ can
        /\ tree' = RenamedTo(bin, from, t, c.dst)
        /\ bin' = RenamedFrom(bin, from, t, c.dst)
        /\ Goto(p, "restoreRow")
     \/ /\ ~ready \/ (c.slot # Nil /\ ~can)
        /\ tree' = IF ready THEN t ELSE tree
        /\ Done(p) /\ UNCHANGED bin
  /\ UNCHANGED <<rows, blobs, data, now, faults>>

\* Mutant: deleted_at is not cleared.
RestoreRow_KeepsDeletedAt(p) ==
  /\ At(p, "restoreRow")
  /\ files' = [f \in DOMAIN files |->
                 IF f = cmd[p].file THEN [files[f] EXCEPT !.folder = files[f].from] ELSE files[f]]
  /\ Done(p)
  /\ UNCHANGED <<folders, nextFolder, nextFile, disk, now, faults>>

\* Mutant: an upsert where the code has an UPDATE.
RestoreRow_Upserts(p) ==
  /\ At(p, "restoreRow")
  /\ files' = [f \in DOMAIN files \cup {cmd[p].file} |->
                 IF f \in DOMAIN files /\ f # cmd[p].file THEN files[f]
                 ELSE [hash |-> Nil, name |-> CHOOSE n \in UserNames : TRUE,
                             folder |-> Root, from |-> Root, binned |-> FALSE]]
  /\ Done(p)
  /\ UNCHANGED <<folders, nextFolder, nextFile, disk, now, faults>>

RestoreRow(p) ==
  /\ At(p, "restoreRow")
  /\ files' = [f \in DOMAIN files |->
                 IF f = cmd[p].file
                   THEN [files[f] EXCEPT !.binned = FALSE, !.folder = files[f].from, !.from = Root]
                   ELSE files[f]]
  /\ Done(p)
  /\ UNCHANGED <<folders, nextFolder, nextFile, disk, now, faults>>

\* remove_file of every entry: files go, directories stay (the error is ignored).
EmptyBin(p) ==
  /\ "empty_bin" \in Ops /\ At(p, "idle")
  /\ bin' = [q \in {r \in DOMAIN bin : Len(r) # 1 \/ bin[r] = Dir} |-> bin[q]]
  /\ cmd' = [cmd EXCEPT ![p] = [Idle EXCEPT !.pc = "purgeRows"]]
  /\ UNCHANGED <<rows, tree, blobs, data, now, faults>>

\* Mutant: a blob that no row names any more and nobody is reading or writing is collected.
PurgeRows_CollectsBlobs(p) ==
  /\ At(p, "purgeRows")
  /\ files' = [f \in {g \in DOMAIN files : ~files[g].binned} |-> files[f]]
  /\ LET named == {files[f].hash : f \in {g \in DOMAIN files : ~files[g].binned}}
         open == {cmd[q].hash : q \in {r \in Procs : cmd[r].pc \in {"blobWrite", "copyOpen", "copyWrite"}}}
     IN blobs' = [h \in DOMAIN blobs \cap (named \cup open) |-> blobs[h]]
  /\ Done(p)
  /\ UNCHANGED <<folders, nextFolder, nextFile, tree, bin, data, now, faults>>

\* DELETE FROM files WHERE deleted_at IS NOT NULL, judged when the statement runs.
PurgeRows(p) ==
  /\ At(p, "purgeRows")
  /\ files' = [f \in {g \in DOMAIN files : ~files[g].binned} |-> files[f]]
  /\ Done(p)
  /\ UNCHANGED <<folders, nextFolder, nextFile, disk, now, faults>>

-----------------------------------------------------------------------------
(* The environment.                                                         *)

Tick ==
  /\ now < MaxTime
  /\ now' = now + 1
  /\ UNCHANGED <<rows, disk, cmd, faults>>

\* The process dies (panic = "abort", power loss): every command in flight stops where it is.
Crash ==
  /\ faults < MaxFaults
  /\ Busy # {} /\ \A p \in Busy : cmd[p].pc \in FaultPoints
  /\ cmd' = [p \in Procs |-> Idle]
  /\ faults' = faults + 1
  /\ UNCHANGED <<rows, disk, now>>

\* A step returns an error (disk full, database busy): its command ends, nothing is undone.
StepFails(p) ==
  /\ faults < MaxFaults
  /\ cmd[p].pc \in FaultPoints \ {"idle"}
  /\ Done(p)
  /\ faults' = faults + 1
  /\ UNCHANGED <<rows, disk, now>>

FolderCommand(p) ==
  \/ CreateFolder(p) \/ MakeDir(p) \/ InsertFolder(p)
  \/ RenameFolder(p) \/ RenameDir(p) \/ UpdateFolder(p) \/ UpdateBelow(p)
  \/ DeleteFolder(p) \/ BinDir(p) \/ BinFiles(p) \/ DropFolders(p)
FileCommand(p) ==
  \/ MoveFile(p) \/ MoveDisk(p) \/ MoveRow(p)
  \/ RenameFile(p) \/ RenameDisk(p) \/ RenameRow(p)
  \/ Ingest(p) \/ BlobOpen(p) \/ BlobWrite(p)
  \/ CopyFile(p) \/ Link(p) \/ CopyOpen(p) \/ CopyWrite(p) \/ InsertFile(p)
BinCommand(p) ==
  \/ DeleteFile(p) \/ BinDisk(p) \/ BinRow(p)
  \/ Restore(p) \/ RestoreDisk(p) \/ RestoreRow(p)
  \/ EmptyBin(p) \/ PurgeRows(p)

Next ==
  \/ \E p \in Procs : FolderCommand(p) \/ FileCommand(p) \/ BinCommand(p) \/ StepFails(p)
  \/ Tick
  \/ Crash

Spec == Init /\ [][Next]_vars
-----------------------------------------------------------------------------
(* Properties.                                                              *)

Inodes == 1..Len(data)
Paths == Seq(DiskNames)

Folder == [name : Names, parent : FolderIds \cup {Root}, path : Paths]
File == [hash : Contents, name : Names, folder : FolderIds \cup {Root},
         from : FolderIds \cup {Root}, binned : BOOLEAN]
Command == [pc : PCs, file : FileIds \cup {0}, folder : FolderIds \cup {Root},
            name : Names \cup {Nil}, hash : Contents \cup {Nil}, src : Paths, dst : Paths,
            slot : Slots \cup {Nil}, ino : Nat]

RowsOK ==
  /\ nextFolder \in Nat \ {0} /\ nextFile \in Nat \ {0}
  /\ DOMAIN folders \subseteq 1..(nextFolder - 1) /\ \A g \in DOMAIN folders : folders[g] \in Folder
  /\ DOMAIN files \subseteq 1..(nextFile - 1) /\ \A f \in DOMAIN files : files[f] \in File

DiskOK ==
  /\ data \in Seq(Contents \cup {Torn})
  /\ DOMAIN blobs \subseteq Contents /\ \A h \in DOMAIN blobs : blobs[h] \in Inodes
  /\ \A q \in DOMAIN tree : tree[q] \in Inodes \cup {Dir}
  /\ \A q \in DOMAIN bin : bin[q] \in Inodes \cup {Dir}

\* A command that will write a name or a hash has one.
NamedPCs == FolderInserts \cup FileInserts \cup
            {"renameDir", "updateFolder", "updateBelow", "renameDisk", "renameRow"}
LocalsOK(c) ==
  /\ c \in Command
  /\ c.pc \in NamedPCs => c.name \in Names
  /\ c.pc \in FileInserts => c.hash \in Contents

\* The type invariant: tables keyed by minted ids, every path and blob a node that exists,
\* and every command in flight holding what its remaining steps need.
TypeOK ==
  /\ RowsOK /\ DiskOK
  /\ DOMAIN cmd = Procs /\ \A p \in Procs : LocalsOK(cmd[p])
  /\ now \in 1..MaxTime /\ faults \in Nat

\* Every row, live or binned, names a blob that exists: whatever the interleaving of
\* ingests, copies, purges and crashes, the store still has a file under the row's hash
\* (ingest_bytes writes the blob before the row; nothing removes a blob).
RowsHaveBlobs == \A f \in DOMAIN files : files[f].hash \in DOMAIN blobs

\* A row that is gone stays gone: the late UPDATE of a restore, a move or a rename that
\* started before the row was purged, or its folder deleted, must not bring it back.
RemovedStaysRemoved ==
  [][/\ \A f \in 1..(nextFile - 1) : f \in DOMAIN files' => f \in DOMAIN files
     /\ \A g \in 1..(nextFolder - 1) : g \in DOMAIN folders' => g \in DOMAIN folders]_vars

Quiet == Busy = {}

\* fsops.rs:4, "a content-addressed blob store": a blob no ingest is writing holds the
\* bytes of its hash.
BlobIntegrity ==
  \A h \in DOMAIN blobs :
    \/ data[blobs[h]] = h
    \/ \E p \in Busy : cmd[p].hash = h /\ cmd[p].pc = "blobWrite"

\* Every live file is in a folder the interface lists (meta.rs list_files filters on
\* folder_id): deleting a folder bins its files before its row goes, and restoring
\* needs the folder's row.
LiveFilesListed == \A f \in DOMAIN files : Live(f) => Listed(files[f].folder)

\* Between commands the stored disk_path of a folder is its parent's followed by its own
\* name, and its parent exists: the prefix rewrite of rename_folder and the LIKE of
\* delete_folder_to_bin keep whole subtrees together.
FolderTreeCoherent ==
  Quiet => \A g \in DOMAIN folders :
             /\ Listed(folders[g].parent)
             /\ folders[g].path = PathIn(folders[g].parent, folders[g].name)

\* A live row is shown when the file of its path holds the bytes of its hash.
Shown(f) ==
  /\ Listed(files[f].folder)
  /\ IsFile(tree, FilePath(f))
  /\ data[tree[FilePath(f)]] = files[f].hash
Drift == {f \in DOMAIN files : Live(f) /\ ~Shown(f)}
Strays ==
  {q \in DOMAIN tree : tree[q] # Dir
                       /\ ~\E f \in DOMAIN files : Live(f) /\ Shown(f) /\ FilePath(f) = q}

\* fsops.rs:3, "Files under vault/files/ mirror what the UI shows": as long as nothing was
\* cut short, between commands the files of the tree are the live rows, one each with its
\* bytes, and the directories are the folder rows.
Mirror ==
  Quiet /\ faults = 0 =>
           /\ Drift = {} /\ Strays = {}
           /\ \A f, g \in DOMAIN files : Live(f) /\ Live(g) /\ f # g => FilePath(f) # FilePath(g)
           /\ {q \in DOMAIN tree : tree[q] = Dir} =
                {<<>>} \cup {folders[g].path : g \in DOMAIN folders}

\* A command cut short by a crash or an error leaves at most one row without its file and
\* at most one file without its row; no later command makes that worse.
DriftBounded == Quiet => Cardinality(Drift) <= faults /\ Cardinality(Strays) <= faults

\* vault.rs:22, "bin/ soft-deleted (restorable)": as long as nothing was cut short and the
\* folder it came from is there, the bin has an entry restore_from_bin will find, with the
\* bytes of the row.
BinHolds ==
  Quiet /\ faults = 0 => \A f \in DOMAIN files :
             files[f].binned /\ Listed(files[f].from) =>
               \E e \in Newest(files[f].name) :
                 IsFile(bin, <<e>>) /\ data[bin[<<e>>]] = files[f].hash

\* fsops.rs:120, "mark all files in this folder as binned": a folder deletion bins the
\* files of that folder and of the folders inside it, no others.
Within(g, path) == g \in DOMAIN folders /\ IsPrefix(path, folders[g].path)
DeletesOnlyThatFolder ==
  [][\A p \in Procs : BinFiles(p) =>
       \A f \in DOMAIN files : files'[f] # files[f] => Within(files[f].folder, cmd[p].src)]_vars
=============================================================================
