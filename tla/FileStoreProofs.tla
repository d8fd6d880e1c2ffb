-------------------------- MODULE FileStoreProofs ---------------------------
(***************************************************************************)
(* Theorems about FileStore, for every number of concurrent commands,      *)
(* every set of names and contents, and faults anywhere.                   *)
(***************************************************************************)
EXTENDS FileStore, TLAPS, SequenceTheorems

-----------------------------------------------------------------------------
(* What the tree operators do to the nodes of a tree: none invents a node.  *)

Nodes(t, N) == \A q \in DOMAIN t : t[q] \in N

LEMMA SubtreeNodes ==
  ASSUME NEW t, NEW p, NEW N, Nodes(t, N)
  PROVE  Nodes(Subtree(t, p), N)
<1> SUFFICES ASSUME NEW q \in DOMAIN Subtree(t, p) PROVE Subtree(t, p)[q] \in N
  BY DEF Nodes
<1>1. PICK r \in Below(t, p) : Rest(r, p) = q
  BY DEF Subtree
<1>2. (CHOOSE s \in Below(t, p) : Rest(s, p) = q) \in Below(t, p)
  BY <1>1
<1>3. Below(t, p) \subseteq DOMAIN t
  BY DEF Below
<1> QED BY <1>2, <1>3 DEF Subtree, Nodes

LEMMA PruneNodes ==
  ASSUME NEW t, NEW p, NEW N, Nodes(t, N)
  PROVE  Nodes(Prune(t, p), N)
BY DEF Nodes, Prune

LEMMA GraftNodes ==
  ASSUME NEW t, NEW p, NEW s, NEW N, Nodes(t, N), Nodes(s, N)
  PROVE  Nodes(Graft(t, p, s), N)
<1> SUFFICES ASSUME NEW q \in DOMAIN Graft(t, p, s) PROVE Graft(t, p, s)[q] \in N
  BY DEF Nodes
<1>1. CASE q \in DOMAIN t
  BY <1>1 DEF Graft, Nodes
<1>2. CASE q \notin DOMAIN t
  <2>1. PICK r \in DOMAIN s : p \o r = q
    BY <1>2 DEF Graft
  <2>2. (CHOOSE u \in DOMAIN s : p \o u = q) \in DOMAIN s
    BY <2>1
  <2> QED BY <1>2, <2>2 DEF Graft, Nodes
<1> QED BY <1>1, <1>2

LEMMA MkdirAllNodes ==
  ASSUME NEW t, NEW p, NEW N, Nodes(t, N), Dir \in N
  PROVE  Nodes(MkdirAll(t, p), N)
BY DEF Nodes, MkdirAll

LEMMA AddFileNodes ==
  ASSUME NEW t, NEW p, NEW i, NEW N, Nodes(t, N), i \in N
  PROVE  Nodes(AddFile(t, p, i), N)
BY DEF Nodes, AddFile

LEMMA RenameNodes ==
  ASSUME NEW s, NEW a, NEW t, NEW b, NEW N, Nodes(s, N), Nodes(t, N)
  PROVE  /\ Nodes(RenamedFrom(s, a, t, b), N)
         /\ Nodes(RenamedTo(s, a, t, b), N)
BY SubtreeNodes, PruneNodes, GraftNodes DEF RenamedFrom, RenamedTo

LEMMA MoveNodes ==
  ASSUME NEW t, NEW a, NEW b, NEW N, Nodes(t, N)
  PROVE  Nodes(Move(t, a, b), N)
BY SubtreeNodes, PruneNodes, GraftNodes DEF Move

LEMMA MoreNodes ==
  ASSUME NEW t, NEW M, NEW N, Nodes(t, M), M \subseteq N
  PROVE  Nodes(t, N)
BY DEF Nodes

-----------------------------------------------------------------------------
(* The locals of a command from one step to the next.                       *)

\* A command past the check of its blob, whose blob must stay.
HoldsBlob(c) == c.pc \in {"blobWrite", "copyOpen", "copyWrite", "insertFile"}
BlobsHeld == \A p \in Procs : HoldsBlob(cmd[p]) => cmd[p].hash \in DOMAIN blobs

CmdOK == DOMAIN cmd = Procs /\ \A p \in Procs : LocalsOK(cmd[p])

\* The inductive invariant: the row of a file and the command about to insert one both
\* name a blob of the store.
StoreInv == TypeOK /\ BlobsHeld /\ RowsHaveBlobs

LEMMA IdleOK == LocalsOK(Idle) /\ Idle.pc = "idle"
BY DEF LocalsOK, Idle, Command, PCs, NamedPCs, FolderInserts, FileInserts, Root, Paths

\* The values an idle command's locals have, and the steps commands start with.
LEMMA LocalsFacts ==
  /\ 0 \in FileIds \cup {0} /\ Root \in FolderIds \cup {Root} /\ 0 \in Nat /\ <<>> \in Paths
  /\ {"mkdir", "renameDir", "binDir", "moveDisk", "renameDisk", "blobOpen", "link", "binDisk",
      "restoreDisk", "purgeRows"} \subseteq PCs
BY DEF FileIds, FolderIds, Root, Paths, PCs, FolderInserts, FileInserts

LEMMA CmdStep ==
  ASSUME CmdOK, NEW p \in Procs, NEW c, LocalsOK(c), cmd' = [cmd EXCEPT ![p] = c]
  PROVE  CmdOK' /\ cmd'[p] = c /\ \A q \in Procs \ {p} : cmd'[q] = cmd[q]
BY DEF CmdOK

\* Finishing a command.
LEMMA DoneStep ==
  ASSUME CmdOK, NEW p \in Procs, Done(p)
  PROVE  /\ CmdOK' /\ cmd'[p].pc = "idle"
         /\ \A q \in Procs \ {p} : cmd'[q] = cmd[q]
BY IdleOK, CmdStep DEF Done

\* Going on to another step, which needs no more than the last.
LEMMA GotoStep ==
  ASSUME CmdOK, NEW p \in Procs, NEW pc \in PCs, Goto(p, pc),
         pc \in NamedPCs => cmd[p].pc \in NamedPCs,
         pc \in FileInserts => cmd[p].pc \in FileInserts
  PROVE  /\ CmdOK' /\ cmd'[p] = [cmd[p] EXCEPT !.pc = pc]
         /\ \A q \in Procs \ {p} : cmd'[q] = cmd[q]
<1> DEFINE c == [cmd[p] EXCEPT !.pc = pc]
<1>1. cmd[p] \in Command /\ LocalsOK(cmd[p])
  BY DEF CmdOK, LocalsOK
<1>2. c \in Command /\ c.pc = pc /\ c.name = cmd[p].name /\ c.hash = cmd[p].hash
  BY <1>1 DEF Command
<1>3. LocalsOK(c)
  BY <1>1, <1>2 DEF LocalsOK
<1>4. cmd' = [cmd EXCEPT ![p] = c]
  BY DEF Goto, CmdOK
<1> QED BY <1>3, <1>4, CmdStep

\* The paths a command computes are paths.
LEMMA PathType ==
  ASSUME RowsOK, NEW d, Listed(d), NEW n \in Names
  PROVE  DirOf(d) \in Paths /\ PathIn(d, n) \in Paths
<1>1. DirOf(d) \in Paths
  BY DEF DirOf, Listed, RowsOK, Folder, Paths, Root
<1>2. Sanitise[n] \in DiskNames
  BY NamesAssumption
<1> QED BY <1>1, <1>2 DEF PathIn, Paths

LEMMA FileTypes ==
  ASSUME RowsOK, NEW f \in DOMAIN files
  PROVE  /\ f \in FileIds /\ files[f].hash \in Contents /\ files[f].name \in Names
         /\ files[f].folder \in FolderIds \cup {Root} /\ files[f].from \in FolderIds \cup {Root}
BY DEF RowsOK, File, FileIds

LEMMA FolderTypes ==
  ASSUME RowsOK, NEW g \in DOMAIN folders
  PROVE  /\ g \in FolderIds /\ folders[g].name \in Names /\ folders[g].path \in Paths
         /\ folders[g].parent \in FolderIds \cup {Root}
BY DEF RowsOK, Folder, FolderIds

-----------------------------------------------------------------------------
(* What a step must show: that the rows and the disk keep their types, that *)
(* blobs stay, and that a new row or a new holder names one.                *)

ClockOK == now \in 1..MaxTime /\ faults \in Nat

LEMMA StoreInvParts == StoreInv <=> RowsOK /\ DiskOK /\ CmdOK /\ ClockOK /\ BlobsHeld /\ RowsHaveBlobs
BY DEF StoreInv, TypeOK, CmdOK, ClockOK

LEMMA StoreInvStep ==
  ASSUME StoreInv, NEW p \in Procs,
         RowsOK', DiskOK', CmdOK', ClockOK',
         DOMAIN blobs \subseteq DOMAIN blobs',
         \A q \in Procs \ {p} : cmd'[q] = cmd[q],
         HoldsBlob(cmd'[p]) => cmd'[p].hash \in DOMAIN blobs',
         \A f \in DOMAIN files' :
            \/ files'[f].hash \in DOMAIN blobs'
            \/ f \in DOMAIN files /\ files'[f].hash = files[f].hash
  PROVE  StoreInv'
<1>1. BlobsHeld'
  BY DEF StoreInv, BlobsHeld, HoldsBlob
<1>2. RowsHaveBlobs'
  BY DEF StoreInv, RowsHaveBlobs
<1> QED BY <1>1, <1>2, StoreInvParts DEF StoreInv, TypeOK, CmdOK, ClockOK

LEMMA SameRows == ASSUME RowsOK, UNCHANGED rows PROVE RowsOK'
BY DEF RowsOK, rows

LEMMA SameDisk == ASSUME DiskOK, UNCHANGED disk PROVE DiskOK'
BY DEF DiskOK, disk, Inodes

\* A step of the trees alone.
LEMMA TreeStep ==
  ASSUME DiskOK, UNCHANGED <<blobs, data>>,
         Nodes(tree', Inodes \cup {Dir}), Nodes(bin', Inodes \cup {Dir})
  PROVE  DiskOK'
BY DEF DiskOK, Inodes, Nodes

LEMMA TreesTyped ==
  ASSUME DiskOK
  PROVE  Nodes(tree, Inodes \cup {Dir}) /\ Nodes(bin, Inodes \cup {Dir})
BY DEF DiskOK, Nodes

\* Rewriting rows of files one by one.
LEMMA FilesStep ==
  ASSUME RowsOK, UNCHANGED <<folders, nextFolder, nextFile>>,
         DOMAIN files' \subseteq DOMAIN files,
         \A f \in DOMAIN files' : files'[f] \in File
  PROVE  RowsOK'
BY DEF RowsOK

LEMMA FoldersStep ==
  ASSUME RowsOK, UNCHANGED <<files, nextFolder, nextFile>>,
         DOMAIN folders' \subseteq DOMAIN folders,
         \A g \in DOMAIN folders' : folders'[g] \in Folder
  PROVE  RowsOK'
BY DEF RowsOK

-----------------------------------------------------------------------------
(* Starting a command.                                                      *)

LEMMA StartStep ==
  ASSUME StoreInv, NEW p \in Procs, NEW op, NEW c, Start(p, op, c),
         LocalsOK(c), HoldsBlob(c) => c.hash \in DOMAIN blobs
  PROVE  StoreInv'
<1> USE StoreInvParts DEF Start
<1>1. CmdOK' /\ cmd'[p] = c /\ \A q \in Procs \ {p} : cmd'[q] = cmd[q]
  BY CmdStep
<1>2. RowsOK' /\ DiskOK'
  BY SameRows, SameDisk
<1>3. UNCHANGED <<blobs, files, now, faults>>
  BY DEF rows, disk
<1> QED BY <1>1, <1>2, <1>3, StoreInvStep DEF ClockOK, RowsHaveBlobs

LEMMA CreateFolderInv == ASSUME StoreInv, NEW p \in Procs, CreateFolder(p) PROVE StoreInv'
<1>1. PICK d \in DOMAIN folders \cup {Root}, n \in UserNames :
        Start(p, "create_folder",
              [Idle EXCEPT !.pc = "mkdir", !.folder = d, !.name = n, !.dst = PathIn(d, n)])
  BY DEF CreateFolder
<1> DEFINE c == [Idle EXCEPT !.pc = "mkdir", !.folder = d, !.name = n, !.dst = PathIn(d, n)]
<1>2. n \in Names /\ PathIn(d, n) \in Paths /\ d \in FolderIds \cup {Root}
  BY StoreInvParts, PathType, FolderTypes, NamesAssumption DEF Listed
<1>3. c \in Command
  BY <1>2, LocalsFacts DEF Idle, Command
<1>4. c.pc = "mkdir" /\ c.name = n
  BY DEF Idle
<1>5. LocalsOK(c) /\ ~HoldsBlob(c)
  BY <1>2, <1>3, <1>4 DEF LocalsOK, HoldsBlob, NamedPCs, FolderInserts, FileInserts
<1> QED BY <1>1, <1>5, StartStep

LEMMA RenameFolderInv == ASSUME StoreInv, NEW p \in Procs, RenameFolder(p) PROVE StoreInv'
<1>1. PICK g \in DOMAIN folders, n \in UserNames :
        /\ Listed(folders[g].parent)
        /\ Start(p, "rename_folder",
             [Idle EXCEPT !.pc = "renameDir", !.folder = g, !.name = n,
                          !.src = folders[g].path, !.dst = PathIn(folders[g].parent, n)])
  BY DEF RenameFolder
<1> DEFINE c == [Idle EXCEPT !.pc = "renameDir", !.folder = g, !.name = n,
                             !.src = folders[g].path, !.dst = PathIn(folders[g].parent, n)]
<1>2. /\ n \in Names /\ PathIn(folders[g].parent, n) \in Paths
      /\ g \in FolderIds /\ folders[g].path \in Paths
  BY <1>1, StoreInvParts, PathType, FolderTypes, NamesAssumption
<1>3. c \in Command
  BY <1>2, LocalsFacts DEF Idle, Command
<1>4. c.pc = "renameDir" /\ c.name = n
  BY DEF Idle
<1>5. LocalsOK(c) /\ ~HoldsBlob(c)
  BY <1>2, <1>3, <1>4 DEF LocalsOK, HoldsBlob, NamedPCs, FolderInserts, FileInserts
<1> QED BY <1>1, <1>5, StartStep

LEMMA DeleteFolderInv == ASSUME StoreInv, NEW p \in Procs, DeleteFolder(p) PROVE StoreInv'
<1>1. PICK g \in DOMAIN folders :
        Start(p, "delete_folder",
             [Idle EXCEPT !.pc = "binDir", !.folder = g, !.src = folders[g].path,
                          !.slot = <<now, Sanitise[folders[g].name]>>])
  BY DEF DeleteFolder
<1> DEFINE c == [Idle EXCEPT !.pc = "binDir", !.folder = g, !.src = folders[g].path,
                             !.slot = <<now, Sanitise[folders[g].name]>>]
<1>2. g \in FolderIds /\ folders[g].path \in Paths /\ <<now, Sanitise[folders[g].name]>> \in Slots
  BY StoreInvParts, FolderTypes, NamesAssumption DEF ClockOK, Slots
<1>3. c \in Command
  BY <1>2, LocalsFacts DEF Idle, Command
<1>4. c.pc = "binDir" /\ c.name = Nil
  BY DEF Idle
<1>5. LocalsOK(c) /\ ~HoldsBlob(c)
  BY <1>2, <1>3, <1>4 DEF LocalsOK, HoldsBlob, NamedPCs, FolderInserts, FileInserts
<1> QED BY <1>1, <1>5, StartStep

LEMMA MoveFileInv == ASSUME StoreInv, NEW p \in Procs, MoveFile(p) PROVE StoreInv'
<1>1. PICK f \in DOMAIN files, d \in DOMAIN folders \cup {Root} :
        Listed(files[f].folder) /\  Start(p, "move_file",
          [Idle EXCEPT !.pc = "moveDisk", !.file = f, !.folder = d,
                       !.src = FilePath(f), !.dst = PathIn(d, files[f].name)])
  BY DEF MoveFile
<1> DEFINE c == [Idle EXCEPT !.pc = "moveDisk", !.file = f, !.folder = d,
                       !.src = FilePath(f), !.dst = PathIn(d, files[f].name)]
<1>2. /\ f \in FileIds /\ d \in FolderIds \cup {Root}
      /\ FilePath(f) \in Paths /\ PathIn(d, files[f].name) \in Paths
  BY <1>1, StoreInvParts, PathType, FileTypes, FolderTypes DEF Listed, FilePath
<1>3. c \in Command
  BY <1>2, LocalsFacts DEF Idle, Command
<1>4. c.pc = "moveDisk" /\ c.name = Nil
  BY DEF Idle
<1>5. LocalsOK(c) /\ ~HoldsBlob(c)
  BY <1>2, <1>3, <1>4 DEF LocalsOK, HoldsBlob, NamedPCs, FolderInserts, FileInserts
<1> QED BY <1>1, <1>5, StartStep

LEMMA RenameFileInv == ASSUME StoreInv, NEW p \in Procs, RenameFile(p) PROVE StoreInv'
<1>1. PICK f \in DOMAIN files, n \in UserNames :
        Listed(files[f].folder) /\  Start(p, "rename_file",
          [Idle EXCEPT !.pc = "renameDisk", !.file = f, !.name = n,
                       !.src = FilePath(f), !.dst = PathIn(files[f].folder, n)])
  BY DEF RenameFile
<1> DEFINE c == [Idle EXCEPT !.pc = "renameDisk", !.file = f, !.name = n,
                       !.src = FilePath(f), !.dst = PathIn(files[f].folder, n)]
<1>2. /\ f \in FileIds /\ n \in Names
      /\ FilePath(f) \in Paths /\ PathIn(files[f].folder, n) \in Paths
  BY <1>1, StoreInvParts, PathType, FileTypes, NamesAssumption DEF FilePath
<1>3. c \in Command
  BY <1>2, LocalsFacts DEF Idle, Command
<1>4. c.pc = "renameDisk" /\ c.name = n
  BY DEF Idle
<1>5. LocalsOK(c) /\ ~HoldsBlob(c)
  BY <1>2, <1>3, <1>4 DEF LocalsOK, HoldsBlob, NamedPCs, FolderInserts, FileInserts
<1> QED BY <1>1, <1>5, StartStep

LEMMA DeleteFileInv == ASSUME StoreInv, NEW p \in Procs, DeleteFile(p) PROVE StoreInv'
<1>1. PICK f \in DOMAIN files :
        Listed(files[f].folder) /\  Start(p, "delete_file",
          [Idle EXCEPT !.pc = "binDisk", !.file = f, !.folder = files[f].folder,
                       !.src = FilePath(f), !.slot = <<now, Sanitise[files[f].name]>>])
  BY DEF DeleteFile
<1> DEFINE c == [Idle EXCEPT !.pc = "binDisk", !.file = f, !.folder = files[f].folder,
                       !.src = FilePath(f), !.slot = <<now, Sanitise[files[f].name]>>]
<1>2. /\ f \in FileIds /\ files[f].folder \in FolderIds \cup {Root}
      /\ FilePath(f) \in Paths /\ <<now, Sanitise[files[f].name]>> \in Slots
  BY <1>1, StoreInvParts, PathType, FileTypes, NamesAssumption DEF FilePath, ClockOK, Slots
<1>3. c \in Command
  BY <1>2, LocalsFacts DEF Idle, Command
<1>4. c.pc = "binDisk" /\ c.name = Nil
  BY DEF Idle
<1>5. LocalsOK(c) /\ ~HoldsBlob(c)
  BY <1>2, <1>3, <1>4 DEF LocalsOK, HoldsBlob, NamedPCs, FolderInserts, FileInserts
<1> QED BY <1>1, <1>5, StartStep

LEMMA RestoreInv == ASSUME StoreInv, NEW p \in Procs, Restore(p) PROVE StoreInv'
<1>1. PICK f \in DOMAIN files, e \in Slots \cup {Nil} :
        Listed(files[f].from) /\  Start(p, "restore",
          [Idle EXCEPT !.pc = "restoreDisk", !.file = f, !.slot = e,
                       !.dst = PathIn(files[f].from, files[f].name)])
  BY DEF Restore, Newest, BinMatches
<1> DEFINE c == [Idle EXCEPT !.pc = "restoreDisk", !.file = f, !.slot = e,
                       !.dst = PathIn(files[f].from, files[f].name)]
<1>2. /\ f \in FileIds /\ e \in Slots \cup {Nil}
      /\ PathIn(files[f].from, files[f].name) \in Paths
  BY <1>1, StoreInvParts, PathType, FileTypes
<1>3. c \in Command
  BY <1>2, LocalsFacts DEF Idle, Command
<1>4. c.pc = "restoreDisk" /\ c.name = Nil
  BY DEF Idle
<1>5. LocalsOK(c) /\ ~HoldsBlob(c)
  BY <1>2, <1>3, <1>4 DEF LocalsOK, HoldsBlob, NamedPCs, FolderInserts, FileInserts
<1> QED BY <1>1, <1>5, StartStep

LEMMA IngestInv == ASSUME StoreInv, NEW p \in Procs, Ingest(p) PROVE StoreInv'
<1>1. PICK h \in Contents, n \in UserNames, d \in DOMAIN folders \cup {Root} :
        Start(p, "ingest",
          [Idle EXCEPT !.pc = IF h \in DOMAIN blobs THEN "link" ELSE "blobOpen",
                       !.hash = h, !.name = n, !.folder = d, !.dst = PathIn(d, n)])
  BY DEF Ingest
<1> DEFINE c == [Idle EXCEPT !.pc = IF h \in DOMAIN blobs THEN "link" ELSE "blobOpen",
                             !.hash = h, !.name = n, !.folder = d, !.dst = PathIn(d, n)]
<1>2. n \in Names /\ PathIn(d, n) \in Paths /\ d \in FolderIds \cup {Root}
  BY StoreInvParts, PathType, FolderTypes, NamesAssumption DEF Listed
<1>3. c \in Command
  BY <1>2, LocalsFacts DEF Idle, Command
<1>4. c.pc \in {"link", "blobOpen"} /\ c.name = n /\ c.hash = h
  BY DEF Idle
<1>5. LocalsOK(c) /\ ~HoldsBlob(c)
  BY <1>2, <1>3, <1>4 DEF LocalsOK, HoldsBlob, NamedPCs, FolderInserts, FileInserts
<1> QED BY <1>1, <1>5, StartStep

LEMMA CopyFileInv == ASSUME StoreInv, NEW p \in Procs, CopyFile(p) PROVE StoreInv'
<1>1. PICK f \in DOMAIN files, d \in DOMAIN folders \cup {Root} :
        /\ files[f].name \in DOMAIN CopyName
        /\ Start(p, "copy_file",
             [Idle EXCEPT !.pc = "link", !.hash = files[f].hash, !.name = CopyName[files[f].name],
                          !.folder = d, !.dst = PathIn(d, CopyName[files[f].name])])
  BY DEF CopyFile
<1> DEFINE n == CopyName[files[f].name]
           c == [Idle EXCEPT !.pc = "link", !.hash = files[f].hash, !.name = n,
                             !.folder = d, !.dst = PathIn(d, n)]
<1>2. n \in Names
  BY <1>1, NamesAssumption
<1>3. PathIn(d, n) \in Paths /\ d \in FolderIds \cup {Root} /\ files[f].hash \in Contents
  BY <1>2, StoreInvParts, PathType, FolderTypes, FileTypes DEF Listed
<1>4. c \in Command
  BY <1>2, <1>3, LocalsFacts DEF Idle, Command
<1>5. c.pc = "link" /\ c.name = n /\ c.hash = files[f].hash
  BY DEF Idle
<1>6. LocalsOK(c) /\ ~HoldsBlob(c)
  BY <1>2, <1>3, <1>4, <1>5 DEF LocalsOK, HoldsBlob, NamedPCs, FolderInserts, FileInserts
<1> QED BY <1>1, <1>6, StartStep

\* empty_bin starts by removing the entries.
LEMMA EmptyBinInv == ASSUME StoreInv, NEW p \in Procs, EmptyBin(p) PROVE StoreInv'
<1> DEFINE c == [Idle EXCEPT !.pc = "purgeRows"]
<1>1. LocalsOK(c) /\ ~HoldsBlob(c)
  BY LocalsFacts DEF LocalsOK, HoldsBlob, NamedPCs, FolderInserts, FileInserts, Idle, Command
<1>2. CmdOK' /\ cmd'[p] = c /\ \A q \in Procs \ {p} : cmd'[q] = cmd[q]
  BY <1>1, CmdStep, StoreInvParts DEF EmptyBin
<1>3. UNCHANGED <<rows, tree, blobs, data, now, faults>>
  BY DEF EmptyBin
<1>4. Nodes(bin', Inodes \cup {Dir}) /\ Nodes(tree', Inodes \cup {Dir})
  BY <1>3, TreesTyped, StoreInvParts DEF EmptyBin, Nodes
<1>5. RowsOK' /\ DiskOK' /\ ClockOK'
  BY <1>3, <1>4, SameRows, TreeStep, StoreInvParts DEF ClockOK
<1> QED BY <1>1, <1>2, <1>3, <1>5, StoreInvStep, StoreInvParts DEF RowsHaveBlobs, rows

-----------------------------------------------------------------------------
(* The later steps.  TreeStepInv serves those that change only the trees,   *)
(* FilesStepInv and FoldersStepInv those that rewrite rows.                 *)

\* A step leaves its command finished, or at a step that needs no more.
Onward(p, to) ==
  \/ Done(p)
  \/ /\ Goto(p, to) /\ to \in PCs
     /\ to \in NamedPCs => cmd[p].pc \in NamedPCs
     /\ to \in FileInserts => cmd[p].pc \in FileInserts

LEMMA OnwardStep ==
  ASSUME CmdOK, NEW p \in Procs, NEW to, Onward(p, to)
  PROVE  /\ CmdOK' /\ \A q \in Procs \ {p} : cmd'[q] = cmd[q]
         /\ \/ cmd'[p].pc = "idle"
            \/ cmd'[p].pc = to /\ cmd'[p].hash = cmd[p].hash
<1>1. CASE Done(p)
  BY <1>1, DoneStep
<1>2. CASE ~Done(p)
  <2>1. /\ CmdOK' /\ cmd'[p] = [cmd[p] EXCEPT !.pc = to]
        /\ \A q \in Procs \ {p} : cmd'[q] = cmd[q]
    BY <1>2, GotoStep DEF Onward
  <2>2. cmd[p] \in Command
    BY DEF CmdOK, LocalsOK
  <2>3. cmd'[p].pc = to /\ cmd'[p].hash = cmd[p].hash
    BY <2>1, <2>2 DEF Command
  <2> QED BY <2>1, <2>3
<1> QED BY <1>1, <1>2

LEMMA TreeStepInv ==
  ASSUME StoreInv, NEW p \in Procs, NEW to, Onward(p, to),
         UNCHANGED <<rows, blobs, data, now, faults>>,
         Nodes(tree', Inodes \cup {Dir}), Nodes(bin', Inodes \cup {Dir}),
         HoldsBlob([pc |-> to]) => cmd[p].hash \in DOMAIN blobs
  PROVE  StoreInv'
<1>1. RowsOK' /\ DiskOK' /\ ClockOK' /\ files' = files
  BY SameRows, TreeStep, StoreInvParts DEF ClockOK, rows
<1>2. HoldsBlob(cmd'[p]) => cmd'[p].hash \in DOMAIN blobs
  BY OnwardStep, StoreInvParts DEF HoldsBlob
<1> QED BY <1>1, <1>2, OnwardStep, StoreInvStep, StoreInvParts DEF RowsHaveBlobs

LEMMA FilesStepInv ==
  ASSUME StoreInv, NEW p \in Procs, NEW to, Onward(p, to), ~HoldsBlob([pc |-> to]),
         UNCHANGED <<folders, nextFolder, nextFile, disk, now, faults>>,
         DOMAIN files' \subseteq DOMAIN files,
         \A f \in DOMAIN files' : files'[f] \in File /\ files'[f].hash = files[f].hash
  PROVE  StoreInv'
<1>1. RowsOK' /\ DiskOK' /\ ClockOK' /\ blobs' = blobs
  BY FilesStep, SameDisk, StoreInvParts DEF ClockOK, disk
<1>2. ~HoldsBlob(cmd'[p])
  BY OnwardStep, StoreInvParts DEF HoldsBlob
<1> QED BY <1>1, <1>2, OnwardStep, StoreInvStep, StoreInvParts

LEMMA FoldersStepInv ==
  ASSUME StoreInv, NEW p \in Procs, NEW to, Onward(p, to), ~HoldsBlob([pc |-> to]),
         UNCHANGED <<files, nextFolder, nextFile, disk, now, faults>>,
         DOMAIN folders' \subseteq DOMAIN folders,
         \A g \in DOMAIN folders' : folders'[g] \in Folder
  PROVE  StoreInv'
<1>1. RowsOK' /\ DiskOK' /\ ClockOK' /\ blobs' = blobs
  BY FoldersStep, SameDisk, StoreInvParts DEF ClockOK, disk
<1>2. ~HoldsBlob(cmd'[p])
  BY OnwardStep, StoreInvParts DEF HoldsBlob
<1> QED BY <1>1, <1>2, OnwardStep, StoreInvStep, StoreInvParts DEF RowsHaveBlobs

-----------------------------------------------------------------------------
(* The steps that change only the trees.                                    *)

LEMMA MakeDirInv == ASSUME StoreInv, NEW p \in Procs, MakeDir(p) PROVE StoreInv'
<1>1. Nodes(tree', Inodes \cup {Dir}) /\ Nodes(bin', Inodes \cup {Dir})
  BY TreesTyped, MkdirAllNodes, StoreInvParts DEF MakeDir
<1>2. Onward(p, "insertFolder")
  BY DEF MakeDir, Onward, At, PCs, NamedPCs, FolderInserts, FileInserts
<1>3. UNCHANGED <<rows, blobs, data, now, faults>>
  BY DEF MakeDir
<1>4. ~HoldsBlob([pc |-> "insertFolder"])
  BY DEF HoldsBlob
<1> QED BY <1>1, <1>2, <1>3, <1>4, TreeStepInv

LEMMA RenameDirInv == ASSUME StoreInv, NEW p \in Procs, RenameDir(p) PROVE StoreInv'
<1>1. Nodes(tree', Inodes \cup {Dir}) /\ Nodes(bin', Inodes \cup {Dir})
  BY TreesTyped, MoveNodes, StoreInvParts DEF RenameDir
<1>2. Onward(p, "updateFolder")
  BY DEF RenameDir, Onward, At, PCs, NamedPCs, FolderInserts, FileInserts
<1>3. UNCHANGED <<rows, blobs, data, now, faults>>
  BY DEF RenameDir
<1>4. ~HoldsBlob([pc |-> "updateFolder"])
  BY DEF HoldsBlob
<1> QED BY <1>1, <1>2, <1>3, <1>4, TreeStepInv

LEMMA BinDirInv == ASSUME StoreInv, NEW p \in Procs, BinDir(p) PROVE StoreInv'
<1>1. Nodes(tree', Inodes \cup {Dir}) /\ Nodes(bin', Inodes \cup {Dir})
  BY TreesTyped, RenameNodes, StoreInvParts DEF BinDir
<1>2. Onward(p, "binFiles")
  BY DEF BinDir, Onward, At, PCs, NamedPCs, FolderInserts, FileInserts
<1>3. UNCHANGED <<rows, blobs, data, now, faults>>
  BY DEF BinDir
<1>4. ~HoldsBlob([pc |-> "binFiles"])
  BY DEF HoldsBlob
<1> QED BY <1>1, <1>2, <1>3, <1>4, TreeStepInv

LEMMA MoveDiskInv == ASSUME StoreInv, NEW p \in Procs, MoveDisk(p) PROVE StoreInv'
<1>1. Nodes(tree', Inodes \cup {Dir}) /\ Nodes(bin', Inodes \cup {Dir})
  BY TreesTyped, MkdirAllNodes, MoveNodes, StoreInvParts DEF MoveDisk
<1>2. Onward(p, "moveRow")
  BY DEF MoveDisk, Onward, At, PCs, NamedPCs, FolderInserts, FileInserts
<1>3. UNCHANGED <<rows, blobs, data, now, faults>>
  BY DEF MoveDisk
<1>4. ~HoldsBlob([pc |-> "moveRow"])
  BY DEF HoldsBlob
<1> QED BY <1>1, <1>2, <1>3, <1>4, TreeStepInv

LEMMA RenameDiskInv == ASSUME StoreInv, NEW p \in Procs, RenameDisk(p) PROVE StoreInv'
<1>1. Nodes(tree', Inodes \cup {Dir}) /\ Nodes(bin', Inodes \cup {Dir})
  BY TreesTyped, MoveNodes, StoreInvParts DEF RenameDisk
<1>2. Onward(p, "renameRow")
  BY DEF RenameDisk, Onward, At, PCs, NamedPCs, FolderInserts, FileInserts
<1>3. UNCHANGED <<rows, blobs, data, now, faults>>
  BY DEF RenameDisk
<1>4. ~HoldsBlob([pc |-> "renameRow"])
  BY DEF HoldsBlob
<1> QED BY <1>1, <1>2, <1>3, <1>4, TreeStepInv

LEMMA BinDiskInv == ASSUME StoreInv, NEW p \in Procs, BinDisk(p) PROVE StoreInv'
<1>1. Nodes(tree', Inodes \cup {Dir}) /\ Nodes(bin', Inodes \cup {Dir})
  BY TreesTyped, RenameNodes, StoreInvParts DEF BinDisk
<1>2. Onward(p, "binRow")
  BY DEF BinDisk, Onward, At, PCs, NamedPCs, FolderInserts, FileInserts
<1>3. UNCHANGED <<rows, blobs, data, now, faults>>
  BY DEF BinDisk
<1>4. ~HoldsBlob([pc |-> "binRow"])
  BY DEF HoldsBlob
<1> QED BY <1>1, <1>2, <1>3, <1>4, TreeStepInv

LEMMA RestoreDiskInv == ASSUME StoreInv, NEW p \in Procs, RestoreDisk(p) PROVE StoreInv'
<1>1. Nodes(tree', Inodes \cup {Dir}) /\ Nodes(bin', Inodes \cup {Dir})
  BY TreesTyped, MkdirAllNodes, RenameNodes, StoreInvParts DEF RestoreDisk
<1>2. Onward(p, "restoreRow")
  BY DEF RestoreDisk, Onward, At, PCs, NamedPCs, FolderInserts, FileInserts
<1>3. UNCHANGED <<rows, blobs, data, now, faults>>
  BY DEF RestoreDisk
<1>4. ~HoldsBlob([pc |-> "restoreRow"])
  BY DEF HoldsBlob
<1> QED BY <1>1, <1>2, <1>3, <1>4, TreeStepInv

-----------------------------------------------------------------------------
(* The steps that rewrite rows.                                             *)

LEMMA UpdateFolderInv == ASSUME StoreInv, NEW p \in Procs, UpdateFolder(p) PROVE StoreInv'
<1>1. cmd[p].name \in Names /\ cmd[p].dst \in Paths
  BY StoreInvParts DEF UpdateFolder, At, CmdOK, LocalsOK, Command, NamedPCs
<1>2. \A g \in DOMAIN folders : folders'[g] \in Folder
  BY <1>1, StoreInvParts DEF UpdateFolder, RowsOK, Folder
<1>3. /\ DOMAIN folders' = DOMAIN folders
      /\ UNCHANGED <<files, nextFolder, nextFile, disk, now, faults>>
  BY DEF UpdateFolder
<1>4. Onward(p, "updateBelow") /\ ~HoldsBlob([pc |-> "updateBelow"])
  BY DEF UpdateFolder, Onward, HoldsBlob, At, PCs, NamedPCs, FolderInserts, FileInserts
<1> QED BY <1>2, <1>3, <1>4, FoldersStepInv

LEMMA SwapPrefixType ==
  ASSUME NEW q \in Paths, NEW old \in Paths, NEW new \in Paths
  PROVE  SwapPrefix(q, old, new) \in Paths
<1>1. CASE IsStrictPrefix(old, q)
  <2>1. Len(old) <= Len(q)
    BY <1>1 DEF IsStrictPrefix, IsPrefix, Paths
  <2>2. SubSeq(q, Len(old) + 1, Len(q)) \in Paths
    BY <2>1 DEF Paths
  <2> QED BY <1>1, <2>2 DEF SwapPrefix, Paths
<1>2. CASE ~IsStrictPrefix(old, q)
  BY <1>2 DEF SwapPrefix
<1> QED BY <1>1, <1>2

LEMMA UpdateBelowInv == ASSUME StoreInv, NEW p \in Procs, UpdateBelow(p) PROVE StoreInv'
<1>1. cmd[p].src \in Paths /\ cmd[p].dst \in Paths
  BY StoreInvParts DEF CmdOK, LocalsOK, Command
<1>2. ASSUME NEW g \in DOMAIN folders PROVE folders'[g] \in Folder
  <2>1. folders[g] \in Folder /\ folders[g].path \in Paths
    BY StoreInvParts DEF RowsOK, Folder
  <2>2. SwapPrefix(folders[g].path, cmd[p].src, cmd[p].dst) \in Paths
    BY <1>1, <2>1, SwapPrefixType
  <2> QED BY <2>1, <2>2 DEF UpdateBelow, Folder
<1>3. /\ DOMAIN folders' = DOMAIN folders
      /\ UNCHANGED <<files, nextFolder, nextFile, disk, now, faults>>
  BY DEF UpdateBelow
<1>4. Onward(p, "idle") /\ ~HoldsBlob([pc |-> "idle"])
  BY DEF UpdateBelow, Onward, HoldsBlob
<1> QED BY <1>2, <1>3, <1>4, FoldersStepInv

LEMMA DropFoldersInv == ASSUME StoreInv, NEW p \in Procs, DropFolders(p) PROVE StoreInv'
<1>1. /\ DOMAIN folders' \subseteq DOMAIN folders
      /\ \A g \in DOMAIN folders' : folders'[g] = folders[g]
      /\ UNCHANGED <<files, nextFolder, nextFile, disk, now, faults>>
  BY DEF DropFolders
<1>2. \A g \in DOMAIN folders' : folders'[g] \in Folder
  BY <1>1, StoreInvParts DEF RowsOK
<1>3. Onward(p, "idle") /\ ~HoldsBlob([pc |-> "idle"])
  BY DEF DropFolders, Onward, HoldsBlob
<1> QED BY <1>1, <1>2, <1>3, FoldersStepInv

LEMMA BinFilesInv == ASSUME StoreInv, NEW p \in Procs, BinFiles(p) PROVE StoreInv'
<1>1. \A f \in DOMAIN files : files[f] \in File
  BY StoreInvParts DEF RowsOK
<1>2. \A f \in DOMAIN files : files'[f] \in File /\ files'[f].hash = files[f].hash
  BY <1>1 DEF BinFiles, File
<1>3. /\ DOMAIN files' = DOMAIN files
      /\ UNCHANGED <<folders, nextFolder, nextFile, disk, now, faults>>
  BY DEF BinFiles
<1>4. Onward(p, "dropFolders") /\ ~HoldsBlob([pc |-> "dropFolders"])
  BY DEF BinFiles, Onward, HoldsBlob, At, PCs, NamedPCs, FolderInserts, FileInserts
<1> QED BY <1>2, <1>3, <1>4, FilesStepInv

LEMMA MoveRowInv == ASSUME StoreInv, NEW p \in Procs, MoveRow(p) PROVE StoreInv'
<1>1. cmd[p].folder \in FolderIds \cup {Root} /\ \A f \in DOMAIN files : files[f] \in File
  BY StoreInvParts DEF CmdOK, LocalsOK, Command, RowsOK
<1>2. \A f \in DOMAIN files : files'[f] \in File /\ files'[f].hash = files[f].hash
  BY <1>1 DEF MoveRow, File
<1>3. /\ DOMAIN files' = DOMAIN files
      /\ UNCHANGED <<folders, nextFolder, nextFile, disk, now, faults>>
  BY DEF MoveRow
<1>4. Onward(p, "idle") /\ ~HoldsBlob([pc |-> "idle"])
  BY DEF MoveRow, Onward, HoldsBlob
<1> QED BY <1>2, <1>3, <1>4, FilesStepInv

LEMMA RenameRowInv == ASSUME StoreInv, NEW p \in Procs, RenameRow(p) PROVE StoreInv'
<1>1. cmd[p].name \in Names /\ \A f \in DOMAIN files : files[f] \in File
  BY StoreInvParts DEF RenameRow, At, CmdOK, LocalsOK, NamedPCs, RowsOK
<1>2. \A f \in DOMAIN files : files'[f] \in File /\ files'[f].hash = files[f].hash
  BY <1>1 DEF RenameRow, File
<1>3. /\ DOMAIN files' = DOMAIN files
      /\ UNCHANGED <<folders, nextFolder, nextFile, disk, now, faults>>
  BY DEF RenameRow
<1>4. Onward(p, "idle") /\ ~HoldsBlob([pc |-> "idle"])
  BY DEF RenameRow, Onward, HoldsBlob
<1> QED BY <1>2, <1>3, <1>4, FilesStepInv

LEMMA BinRowInv == ASSUME StoreInv, NEW p \in Procs, BinRow(p) PROVE StoreInv'
<1>1. cmd[p].folder \in FolderIds \cup {Root} /\ \A f \in DOMAIN files : files[f] \in File
  BY StoreInvParts DEF CmdOK, LocalsOK, Command, RowsOK
<1>2. \A f \in DOMAIN files : files'[f] \in File /\ files'[f].hash = files[f].hash
  BY <1>1 DEF BinRow, File
<1>3. /\ DOMAIN files' = DOMAIN files
      /\ UNCHANGED <<folders, nextFolder, nextFile, disk, now, faults>>
  BY DEF BinRow
<1>4. Onward(p, "idle") /\ ~HoldsBlob([pc |-> "idle"])
  BY DEF BinRow, Onward, HoldsBlob
<1> QED BY <1>2, <1>3, <1>4, FilesStepInv

LEMMA RestoreRowInv == ASSUME StoreInv, NEW p \in Procs, RestoreRow(p) PROVE StoreInv'
<1>1. \A f \in DOMAIN files : files[f] \in File
  BY StoreInvParts DEF RowsOK
<1>2. \A f \in DOMAIN files : files'[f] \in File /\ files'[f].hash = files[f].hash
  BY <1>1 DEF RestoreRow, File, Root
<1>3. /\ DOMAIN files' = DOMAIN files
      /\ UNCHANGED <<folders, nextFolder, nextFile, disk, now, faults>>
  BY DEF RestoreRow
<1>4. Onward(p, "idle") /\ ~HoldsBlob([pc |-> "idle"])
  BY DEF RestoreRow, Onward, HoldsBlob
<1> QED BY <1>2, <1>3, <1>4, FilesStepInv

LEMMA PurgeRowsInv == ASSUME StoreInv, NEW p \in Procs, PurgeRows(p) PROVE StoreInv'
<1>1. /\ DOMAIN files' \subseteq DOMAIN files
      /\ \A f \in DOMAIN files' : files'[f] = files[f]
      /\ UNCHANGED <<folders, nextFolder, nextFile, disk, now, faults>>
  BY DEF PurgeRows
<1>2. \A f \in DOMAIN files' : files'[f] \in File /\ files'[f].hash = files[f].hash
  BY <1>1, StoreInvParts DEF RowsOK
<1>3. Onward(p, "idle") /\ ~HoldsBlob([pc |-> "idle"])
  BY DEF PurgeRows, Onward, HoldsBlob
<1> QED BY <1>1, <1>2, <1>3, FilesStepInv

-----------------------------------------------------------------------------
(* The steps that insert a row or write an inode.                           *)

LEMMA InsertFolderInv == ASSUME StoreInv, NEW p \in Procs, InsertFolder(p) PROVE StoreInv'
<1> DEFINE row == [name |-> cmd[p].name, parent |-> cmd[p].folder, path |-> cmd[p].dst]
<1>1. row \in Folder
  BY StoreInvParts DEF InsertFolder, At, CmdOK, LocalsOK, Command, NamedPCs, FolderInserts, Folder
<1>2. RowsOK'
  BY <1>1, StoreInvParts DEF InsertFolder, RowsOK
<1>3. UNCHANGED <<files, disk, now, faults>> /\ Done(p)
  BY DEF InsertFolder
<1>4. DiskOK' /\ ClockOK' /\ blobs' = blobs
  BY <1>3, SameDisk, StoreInvParts DEF disk, ClockOK
<1> QED BY <1>2, <1>3, <1>4, DoneStep, StoreInvStep, StoreInvParts DEF HoldsBlob, RowsHaveBlobs

LEMMA InsertFileInv == ASSUME StoreInv, NEW p \in Procs, InsertFile(p) PROVE StoreInv'
<1> DEFINE row == [hash |-> cmd[p].hash, name |-> cmd[p].name, folder |-> cmd[p].folder,
                   from |-> Root, binned |-> FALSE]
<1>1. row \in File
  BY StoreInvParts
  DEF InsertFile, At, CmdOK, LocalsOK, Command, NamedPCs, FileInserts, File, Root
<1>2. cmd[p].hash \in DOMAIN blobs
  BY DEF StoreInv, BlobsHeld, HoldsBlob, InsertFile, At
<1>3. RowsOK'
  BY <1>1, StoreInvParts DEF InsertFile, RowsOK
<1>4. UNCHANGED <<disk, now, faults>> /\ Done(p)
  BY DEF InsertFile
<1>5. DiskOK' /\ ClockOK' /\ blobs' = blobs
  BY <1>4, SameDisk, StoreInvParts DEF disk, ClockOK
<1>6. \A f \in DOMAIN files' :
         \/ files'[f].hash \in DOMAIN blobs
         \/ f \in DOMAIN files /\ files'[f].hash = files[f].hash
  BY <1>2 DEF InsertFile
<1> QED BY <1>3, <1>4, <1>5, <1>6, DoneStep, StoreInvStep, StoreInvParts DEF HoldsBlob

\* A step that writes an inode or makes a new one.
LEMMA DataStep ==
  ASSUME DiskOK, UNCHANGED bin,
         data' \in Seq(Contents \cup {Torn}), Len(data) <= Len(data'),
         DOMAIN blobs' \subseteq Contents, \A h \in DOMAIN blobs' : blobs'[h] \in Inodes',
         Nodes(tree', Inodes' \cup {Dir})
  PROVE  DiskOK'
<1>1. Inodes \subseteq Inodes'
  BY DEF DiskOK, Inodes
<1> QED BY <1>1 DEF DiskOK, Nodes

LEMMA WriteInode ==
  ASSUME data \in Seq(Contents \cup {Torn}), NEW i, NEW v \in Contents \cup {Torn}
  PROVE  /\ [data EXCEPT ![i] = v] \in Seq(Contents \cup {Torn})
         /\ Len([data EXCEPT ![i] = v]) = Len(data)
<1> DEFINE V == Contents \cup {Torn}
           d == [data EXCEPT ![i] = v]
<1>1. /\ DOMAIN data = 1..Len(data) /\ Len(data) \in Nat
      /\ \A j \in 1..Len(data) : data[j] \in V
  OBVIOUS
<1>2. d \in [1..Len(data) -> V]
  BY <1>1
<1>3. d \in Seq(V)
  BY <1>1, <1>2
<1>4. DOMAIN d = 1..Len(data)
  BY <1>1
<1>5. Len(d) = Len(data)
  BY <1>1, <1>3, <1>4
<1> QED BY <1>3, <1>5

LEMMA BlobOpenInv == ASSUME StoreInv, NEW p \in Procs, BlobOpen(p) PROVE StoreInv'
<1> USE StoreInvParts
<1> DEFINE h == cmd[p].hash
<1>1. h \in Contents /\ At(p, "blobOpen")
  BY DEF BlobOpen, At, CmdOK, LocalsOK, FileInserts
<1>2. /\ data' \in Seq(Contents \cup {Torn}) /\ Len(data) <= Len(data')
      /\ DOMAIN blobs' = DOMAIN blobs \cup {h}
      /\ \A g \in DOMAIN blobs' : blobs'[g] \in Inodes'
  <2>1. CASE h \in DOMAIN blobs /\ data' = [data EXCEPT ![blobs[h]] = Torn] /\ UNCHANGED blobs
    <3>1. data' \in Seq(Contents \cup {Torn}) /\ Len(data) = Len(data') /\ Len(data) \in Nat
      BY <2>1, WriteInode DEF DiskOK
    <3>2. Inodes' = Inodes /\ DOMAIN blobs' = DOMAIN blobs
      BY <2>1, <3>1 DEF Inodes
    <3>3. \A g \in DOMAIN blobs : blobs[g] \in Inodes
      BY DEF DiskOK
    <3>4. Len(data) <= Len(data')
      BY <3>1
    <3>5. \A g \in DOMAIN blobs' : blobs'[g] \in Inodes'
      BY <2>1, <3>2, <3>3
    <3> QED BY <2>1, <3>1, <3>2, <3>4, <3>5
  <2>2. CASE /\ h \notin DOMAIN blobs /\ data' = Append(data, Torn)
             /\ blobs' = [g \in DOMAIN blobs \cup {h} |->
                            IF g = h THEN Len(data) + 1 ELSE blobs[g]]
    BY <2>2 DEF DiskOK, Inodes
  <2> QED BY <2>1, <2>2 DEF BlobOpen
<1>3. UNCHANGED <<rows, tree, bin, now, faults>> /\ Goto(p, "blobWrite")
  BY DEF BlobOpen
<1>4. Inodes \subseteq Inodes'
  BY <1>2 DEF Inodes, DiskOK
<1>5. Nodes(tree', Inodes' \cup {Dir})
  BY <1>3, <1>4, TreesTyped, MoreNodes
<1>6. DiskOK' /\ RowsOK' /\ ClockOK' /\ files' = files
  BY <1>1, <1>2, <1>3, <1>5, DataStep, SameRows DEF DiskOK, ClockOK, rows
<1>7. Onward(p, "blobWrite")
  BY <1>1, <1>3 DEF Onward, At, PCs, NamedPCs, FileInserts
<1>8. HoldsBlob(cmd'[p]) => cmd'[p].hash \in DOMAIN blobs'
  BY <1>2, <1>7, OnwardStep DEF HoldsBlob
<1> QED BY <1>2, <1>6, <1>7, <1>8, OnwardStep, StoreInvStep DEF RowsHaveBlobs

LEMMA BlobWriteInv == ASSUME StoreInv, NEW p \in Procs, BlobWrite(p) PROVE StoreInv'
<1> USE StoreInvParts
<1>1. /\ cmd[p].hash \in DOMAIN blobs /\ LocalsOK(cmd[p]) /\ cmd[p].pc = "blobWrite"
      /\ cmd[p].hash \in Contents /\ cmd[p].name \in Names
  BY DEF BlobWrite, At, StoreInv, BlobsHeld, HoldsBlob, CmdOK, LocalsOK, FileInserts, NamedPCs
<1>2. data' \in Seq(Contents \cup {Torn}) /\ Len(data) = Len(data')
  BY <1>1 DEF BlobWrite, DiskOK, Inodes
<1>3. UNCHANGED <<rows, tree, bin, blobs, now, faults>>
  BY DEF BlobWrite
<1>4. Inodes = Inodes' /\ Nodes(tree', Inodes' \cup {Dir})
  BY <1>2, <1>3, TreesTyped DEF Inodes, Nodes
<1>5. DiskOK' /\ RowsOK' /\ ClockOK' /\ files' = files
  BY <1>2, <1>3, <1>4, DataStep, SameRows DEF DiskOK, ClockOK, rows
<1>6. /\ CmdOK' /\ \A q \in Procs \ {p} : cmd'[q] = cmd[q]
      /\ ~HoldsBlob(cmd'[p])
  <2>1. CASE Done(p)
    BY <2>1, DoneStep DEF HoldsBlob
  <2>2. CASE Listed(cmd[p].folder) /\ cmd' = [cmd EXCEPT ![p].pc = "link",
                              ![p].dst = PathIn(cmd[p].folder, cmd[p].name)]
    <3> DEFINE c == [cmd[p] EXCEPT !.pc = "link", !.dst = PathIn(cmd[p].folder, cmd[p].name)]
    <3>1. PathIn(cmd[p].folder, cmd[p].name) \in Paths
      BY <1>1, <2>2, PathType
    <3>2. c \in Command /\ c.pc = "link" /\ c.name = cmd[p].name /\ c.hash = cmd[p].hash
      BY <1>1, <3>1 DEF LocalsOK, Command, PCs, FileInserts
    <3>3. LocalsOK(c) /\ ~HoldsBlob(c)
      BY <1>1, <3>2 DEF LocalsOK, HoldsBlob
    <3>4. cmd' = [cmd EXCEPT ![p] = c]
      BY <2>2 DEF CmdOK
    <3> QED BY <3>3, <3>4, CmdStep
  <2> QED BY <2>1, <2>2 DEF BlobWrite
<1> QED BY <1>3, <1>5, <1>6, StoreInvStep DEF RowsHaveBlobs

LEMMA LinkInv == ASSUME StoreInv, NEW p \in Procs, Link(p) PROVE StoreInv'
<1> USE StoreInvParts
<1> DEFINE c == cmd[p]
           t == MkdirAll(tree, Front(c.dst))
<1>1. At(p, "link") /\ UNCHANGED <<rows, bin, blobs, data, now, faults>>
  BY DEF Link
<1>2. Nodes(t, Inodes \cup {Dir}) /\ Nodes(tree, Inodes \cup {Dir}) /\ Nodes(bin', Inodes \cup {Dir})
  BY <1>1, TreesTyped, MkdirAllNodes
<1>3. Onward(p, "copyOpen") \/ Onward(p, "insertFile")
  BY <1>1 DEF Link, Onward, At, PCs, NamedPCs, FileInserts
<1>4. CASE c.hash \in DOMAIN blobs /\ tree' = AddFile(t, c.dst, blobs[c.hash])
  <2>1. blobs[c.hash] \in Inodes \cup {Dir}
    BY <1>4 DEF DiskOK
  <2>2. Nodes(tree', Inodes \cup {Dir})
    BY <1>2, <1>4, <2>1, AddFileNodes
  <2> QED BY <1>1, <1>2, <1>3, <1>4, <2>2, TreeStepInv
<1>5. CASE c.hash \in DOMAIN blobs /\ tree' = t
  BY <1>1, <1>2, <1>3, <1>5, TreeStepInv
<1>6. CASE Done(p) /\ UNCHANGED tree
  <2>1. Onward(p, "idle") /\ ~HoldsBlob([pc |-> "idle"])
    BY <1>6 DEF Onward, HoldsBlob
  <2> QED BY <1>1, <1>2, <1>6, <2>1, TreeStepInv
<1> QED BY <1>4, <1>5, <1>6 DEF Link

LEMMA CopyOpenInv == ASSUME StoreInv, NEW p \in Procs, CopyOpen(p) PROVE StoreInv'
<1> USE StoreInvParts
<1> DEFINE c == cmd[p]
<1>1. /\ c.hash \in DOMAIN blobs /\ LocalsOK(c) /\ c.pc = "copyOpen"
      /\ c.hash \in Contents /\ c.name \in Names
  BY DEF CopyOpen, At, StoreInv, BlobsHeld, HoldsBlob, CmdOK, LocalsOK, FileInserts, NamedPCs
<1>2. UNCHANGED <<rows, bin, blobs, now, faults>>
  BY DEF CopyOpen
<1>3. ASSUME NEW i \in Nat, cmd' = [cmd EXCEPT ![p].pc = "copyWrite", ![p].ino = i],
             data' \in Seq(Contents \cup {Torn}), Len(data) <= Len(data'),
             Nodes(tree', Inodes' \cup {Dir})
      PROVE  StoreInv'
  <2> DEFINE d == [c EXCEPT !.pc = "copyWrite", !.ino = i]
  <2>1. d \in Command /\ d.pc = "copyWrite" /\ d.name = c.name /\ d.hash = c.hash
    BY <1>1 DEF LocalsOK, Command, PCs, FileInserts
  <2>2. LocalsOK(d)
    BY <1>1, <2>1 DEF LocalsOK
  <2>3. cmd' = [cmd EXCEPT ![p] = d]
    BY <1>3 DEF CmdOK
  <2>4. CmdOK' /\ cmd'[p].hash = c.hash /\ \A q \in Procs \ {p} : cmd'[q] = cmd[q]
    BY <2>1, <2>2, <2>3, CmdStep
  <2>5. DOMAIN blobs' \subseteq Contents /\ \A h \in DOMAIN blobs' : blobs'[h] \in Inodes'
    BY <1>2, <1>3 DEF DiskOK, Inodes
  <2>6. DiskOK' /\ RowsOK' /\ ClockOK' /\ files' = files
    BY <1>2, <1>3, <2>5, DataStep, SameRows DEF ClockOK, rows
  <2> QED BY <1>1, <1>2, <2>4, <2>6, StoreInvStep DEF RowsHaveBlobs
<1>4. CASE /\ IsFile(tree, c.dst) /\ data' = [data EXCEPT ![tree[c.dst]] = Torn]
           /\ cmd' = [cmd EXCEPT ![p].pc = "copyWrite", ![p].ino = tree[c.dst]]
           /\ UNCHANGED tree
  <2>1. tree[c.dst] \in Inodes
    BY <1>4 DEF DiskOK, IsFile
  <2>2. data' \in Seq(Contents \cup {Torn}) /\ Len(data') = Len(data) /\ tree[c.dst] \in Nat
    BY <1>4, <2>1 DEF DiskOK, Inodes
  <2>3. Nodes(tree', Inodes' \cup {Dir})
    BY <1>4, <2>2, TreesTyped DEF Inodes, Nodes
  <2>4. Len(data) <= Len(data')
    BY <2>2 DEF DiskOK
  <2> QED BY <1>3, <1>4, <2>2, <2>3, <2>4
<1>5. CASE /\ data' = Append(data, Torn) /\ tree' = AddFile(tree, c.dst, Len(data) + 1)
           /\ cmd' = [cmd EXCEPT ![p].pc = "copyWrite", ![p].ino = Len(data) + 1]
  <2>1. /\ data' \in Seq(Contents \cup {Torn}) /\ Len(data') = Len(data) + 1
        /\ Len(data) \in Nat
    BY <1>5 DEF DiskOK
  <2>2. Inodes \cup {Dir} \subseteq Inodes' \cup {Dir} /\ Len(data) + 1 \in Inodes'
    BY <2>1 DEF Inodes
  <2>3. Nodes(tree, Inodes' \cup {Dir})
    BY <2>2, TreesTyped, MoreNodes
  <2>4. Nodes(tree', Inodes' \cup {Dir})
    BY <1>5, <2>2, <2>3, AddFileNodes
  <2>5. Len(data) + 1 \in Nat /\ Len(data) <= Len(data')
    BY <2>1
  <2> QED BY <1>3, <1>5, <2>1, <2>4, <2>5
<1>6. CASE Done(p) /\ UNCHANGED <<tree, data>>
  <2>1. Onward(p, "idle") /\ ~HoldsBlob([pc |-> "idle"])
    BY <1>6 DEF Onward, HoldsBlob
  <2>2. Nodes(tree', Inodes \cup {Dir}) /\ Nodes(bin', Inodes \cup {Dir})
    BY <1>2, <1>6, TreesTyped
  <2> QED BY <1>2, <1>6, <2>1, <2>2, TreeStepInv
<1> QED BY <1>4, <1>5, <1>6 DEF CopyOpen

LEMMA CopyWriteInv == ASSUME StoreInv, NEW p \in Procs, CopyWrite(p) PROVE StoreInv'
<1> USE StoreInvParts
<1>1. cmd[p].hash \in DOMAIN blobs /\ cmd[p].pc = "copyWrite"
  BY DEF CopyWrite, At, StoreInv, BlobsHeld, HoldsBlob
<1>2. data[blobs[cmd[p].hash]] \in Contents \cup {Torn}
  BY <1>1 DEF DiskOK, Inodes
<1>3. data' \in Seq(Contents \cup {Torn}) /\ Len(data) = Len(data')
  BY <1>2, WriteInode DEF CopyWrite, DiskOK
<1>4. UNCHANGED <<rows, tree, bin, blobs, now, faults>> /\ Goto(p, "insertFile")
  BY DEF CopyWrite
<1>5. Inodes = Inodes' /\ Nodes(tree', Inodes' \cup {Dir})
  BY <1>3, <1>4, TreesTyped DEF Inodes, Nodes
<1>6. DiskOK' /\ RowsOK' /\ ClockOK' /\ files' = files
  BY <1>3, <1>4, <1>5, DataStep, SameRows DEF DiskOK, ClockOK, rows
<1>7. Onward(p, "insertFile")
  BY <1>1, <1>4 DEF Onward, PCs, NamedPCs, FileInserts
<1>8. HoldsBlob(cmd'[p]) => cmd'[p].hash \in DOMAIN blobs'
  BY <1>1, <1>4, <1>7, OnwardStep DEF HoldsBlob
<1> QED BY <1>4, <1>6, <1>7, <1>8, OnwardStep, StoreInvStep DEF RowsHaveBlobs

-----------------------------------------------------------------------------
(* The environment.                                                         *)

LEMMA StepFailsInv == ASSUME StoreInv, NEW p \in Procs, StepFails(p) PROVE StoreInv'
<1>1. UNCHANGED <<rows, disk, now>> /\ faults' = faults + 1 /\ Done(p)
  BY DEF StepFails
<1>2. RowsOK' /\ DiskOK' /\ ClockOK' /\ UNCHANGED <<files, blobs>>
  BY <1>1, SameRows, SameDisk, StoreInvParts DEF ClockOK, rows, disk
<1> QED BY <1>1, <1>2, DoneStep, StoreInvStep, StoreInvParts DEF HoldsBlob, RowsHaveBlobs

LEMMA TickInv == ASSUME StoreInv, Tick PROVE StoreInv'
<1>1. UNCHANGED <<rows, disk, cmd, faults>> /\ ClockOK'
  BY StoreInvParts, BoundsAssumption DEF Tick, ClockOK
<1>2. RowsOK' /\ DiskOK' /\ UNCHANGED <<files, blobs>>
  BY <1>1, SameRows, SameDisk, StoreInvParts DEF rows, disk
<1> QED BY <1>1, <1>2
        DEF StoreInv, TypeOK, ClockOK, BlobsHeld, RowsHaveBlobs

LEMMA CrashInv == ASSUME StoreInv, Crash PROVE StoreInv'
<1>1. /\ UNCHANGED <<rows, disk, now>> /\ faults' = faults + 1
      /\ cmd' = [p \in Procs |-> Idle]
  BY DEF Crash
<1>2. RowsOK' /\ DiskOK' /\ ClockOK' /\ UNCHANGED <<files, blobs>>
  BY <1>1, SameRows, SameDisk, StoreInvParts DEF ClockOK, rows, disk
<1>3. DOMAIN cmd' = Procs /\ \A p \in Procs : LocalsOK(cmd'[p]) /\ ~HoldsBlob(cmd'[p])
  BY <1>1, IdleOK DEF HoldsBlob
<1> QED BY <1>2, <1>3 DEF StoreInv, TypeOK, ClockOK, BlobsHeld, RowsHaveBlobs

LEMMA StutterInv == ASSUME StoreInv, UNCHANGED vars PROVE StoreInv'
<1>1. UNCHANGED <<rows, disk>> /\ UNCHANGED <<files, blobs, cmd, now, faults>>
  BY DEF vars, rows, disk
<1>2. RowsOK' /\ DiskOK'
  BY <1>1, SameRows, SameDisk, StoreInvParts
<1> QED BY <1>1, <1>2 DEF StoreInv, TypeOK, BlobsHeld, RowsHaveBlobs

-----------------------------------------------------------------------------
(* The theorems.                                                            *)

LEMMA StoreInit == ASSUME Init PROVE StoreInv
<1>1. RowsOK /\ DiskOK
  BY DEF Init, RowsOK, DiskOK, EmptyTree, Inodes
<1>2. DOMAIN cmd = Procs /\ \A p \in Procs : LocalsOK(cmd[p]) /\ cmd[p].pc = "idle"
  BY IdleOK DEF Init
<1>3. now \in 1..MaxTime /\ faults \in Nat
  BY BoundsAssumption DEF Init
<1>4. BlobsHeld /\ RowsHaveBlobs
  BY <1>2 DEF BlobsHeld, HoldsBlob, RowsHaveBlobs, Init
<1> QED BY <1>1, <1>2, <1>3, <1>4 DEF StoreInv, TypeOK

LEMMA StoreNext == ASSUME StoreInv, [Next]_vars PROVE StoreInv'
<1>1. ASSUME NEW p \in Procs, FolderCommand(p) PROVE StoreInv'
  BY <1>1, CreateFolderInv, MakeDirInv, InsertFolderInv, RenameFolderInv, RenameDirInv,
     UpdateFolderInv, UpdateBelowInv, DeleteFolderInv, BinDirInv, BinFilesInv, DropFoldersInv
  DEF FolderCommand
<1>2. ASSUME NEW p \in Procs, FileCommand(p) PROVE StoreInv'
  BY <1>2, MoveFileInv, MoveDiskInv, MoveRowInv, RenameFileInv, RenameDiskInv, RenameRowInv,
     IngestInv, BlobOpenInv, BlobWriteInv, CopyFileInv, LinkInv, CopyOpenInv, CopyWriteInv,
     InsertFileInv
  DEF FileCommand
<1>3. ASSUME NEW p \in Procs, BinCommand(p) PROVE StoreInv'
  BY <1>3, DeleteFileInv, BinDiskInv, BinRowInv, RestoreInv, RestoreDiskInv, RestoreRowInv,
     EmptyBinInv, PurgeRowsInv
  DEF BinCommand
<1> QED BY <1>1, <1>2, <1>3, StepFailsInv, TickInv, CrashInv, StutterInv DEF Next

\* Every row, path, blob and command in flight stays well formed (fsops.rs, meta.rs), for
\* any number of concurrent commands, any names and contents, and faults at any step.
THEOREM TypeCorrect == Spec => []TypeOK
<1>1. StoreInv => TypeOK
  BY DEF StoreInv
<1> QED BY <1>1, StoreInit, StoreNext, PTL DEF Spec

\* No interleaving of ingests, copies, purges and faults leaves a row of the files table
\* whose blob is not in the store: ingest_bytes writes the blob before the row, hard_link
\* needs it, and no command removes one.
THEOREM RowsKeepBlobs == Spec => []RowsHaveBlobs
<1>1. StoreInv => RowsHaveBlobs
  BY DEF StoreInv
<1> QED BY <1>1, StoreInit, StoreNext, PTL DEF Spec

-----------------------------------------------------------------------------
(* Rows are minted, never revived.                                          *)

MintsOnly ==
  /\ DOMAIN files' \subseteq DOMAIN files \cup {nextFile}
  /\ DOMAIN folders' \subseteq DOMAIN folders \cup {nextFolder}

LEMMA SameRowsMint == ASSUME UNCHANGED rows PROVE MintsOnly
BY DEF rows, MintsOnly

LEMMA FolderCommandMints == ASSUME NEW p \in Procs, FolderCommand(p) PROVE MintsOnly
<1>1. ASSUME CreateFolder(p) \/ RenameFolder(p) \/ DeleteFolder(p) PROVE MintsOnly
  BY <1>1, SameRowsMint DEF CreateFolder, RenameFolder, DeleteFolder, Start
<1>2. ASSUME MakeDir(p) \/ RenameDir(p) \/ BinDir(p) PROVE MintsOnly
  BY <1>2, SameRowsMint DEF MakeDir, RenameDir, BinDir
<1>3. ASSUME InsertFolder(p) PROVE MintsOnly
  BY <1>3 DEF InsertFolder, MintsOnly
<1>4. ASSUME UpdateFolder(p) \/ UpdateBelow(p) PROVE MintsOnly
  BY <1>4 DEF UpdateFolder, UpdateBelow, MintsOnly
<1>5. ASSUME BinFiles(p) \/ DropFolders(p) PROVE MintsOnly
  BY <1>5 DEF BinFiles, DropFolders, MintsOnly
<1> QED BY <1>1, <1>2, <1>3, <1>4, <1>5 DEF FolderCommand

LEMMA FileCommandMints == ASSUME NEW p \in Procs, FileCommand(p) PROVE MintsOnly
<1>1. ASSUME MoveFile(p) \/ RenameFile(p) \/ Ingest(p) \/ CopyFile(p) PROVE MintsOnly
  BY <1>1, SameRowsMint DEF MoveFile, RenameFile, Ingest, CopyFile, Start
<1>2. ASSUME MoveDisk(p) \/ RenameDisk(p) \/ Link(p) PROVE MintsOnly
  BY <1>2, SameRowsMint DEF MoveDisk, RenameDisk, Link
<1>3. ASSUME BlobOpen(p) \/ BlobWrite(p) \/ CopyOpen(p) \/ CopyWrite(p) PROVE MintsOnly
  BY <1>3, SameRowsMint DEF BlobOpen, BlobWrite, CopyOpen, CopyWrite
<1>4. ASSUME MoveRow(p) \/ RenameRow(p) PROVE MintsOnly
  BY <1>4 DEF MoveRow, RenameRow, MintsOnly
<1>5. ASSUME InsertFile(p) PROVE MintsOnly
  BY <1>5 DEF InsertFile, MintsOnly
<1> QED BY <1>1, <1>2, <1>3, <1>4, <1>5 DEF FileCommand

LEMMA BinCommandMints == ASSUME NEW p \in Procs, BinCommand(p) PROVE MintsOnly
<1>1. ASSUME DeleteFile(p) \/ Restore(p) PROVE MintsOnly
  BY <1>1, SameRowsMint DEF DeleteFile, Restore, Start
<1>2. ASSUME BinDisk(p) \/ RestoreDisk(p) \/ EmptyBin(p) PROVE MintsOnly
  BY <1>2, SameRowsMint DEF BinDisk, RestoreDisk, EmptyBin
<1>3. ASSUME BinRow(p) \/ RestoreRow(p) \/ PurgeRows(p) PROVE MintsOnly
  BY <1>3 DEF BinRow, RestoreRow, PurgeRows, MintsOnly
<1> QED BY <1>1, <1>2, <1>3 DEF BinCommand

\* A purged file and a deleted folder never come back, whatever late UPDATE of a restore,
\* a move or a rename still runs (fsops.rs writes rows by id and inserts under new uuids).
THEOREM RemovedRowsStay == Spec => RemovedStaysRemoved
<1>1. ASSUME StoreInv, [Next]_vars
      PROVE  [/\ \A f \in 1..(nextFile - 1) : f \in DOMAIN files' => f \in DOMAIN files
              /\ \A g \in 1..(nextFolder - 1) : g \in DOMAIN folders' => g \in DOMAIN folders]_vars
  <2>1. CASE Next
    <3>1. MintsOnly
      BY <2>1, FolderCommandMints, FileCommandMints, BinCommandMints, SameRowsMint
      DEF Next, StepFails, Tick, Crash
    <3>2. nextFile \in Nat /\ nextFolder \in Nat
      BY <1>1, StoreInvParts DEF RowsOK
    <3>3. nextFile \notin 1..(nextFile - 1) /\ nextFolder \notin 1..(nextFolder - 1)
      BY <3>2
    <3> QED BY <3>1, <3>3 DEF MintsOnly
  <2>2. CASE UNCHANGED vars
    BY <2>2
  <2> QED BY <1>1, <2>1, <2>2
<1> QED BY <1>1, StoreInit, StoreNext, PTL DEF Spec, RemovedStaysRemoved

-----------------------------------------------------------------------------
(* Live files are listed.  The folders table shrinks only in DropFolders;   *)
(* a command that will write a row's folder or its from has one listed.     *)

OneAtATime == \A p, q \in Procs : p = q

\* Either one command runs at a time, or no folder is ever deleted.
FoldersStay == OneAtATime \/ "delete_folder" \notin Ops

FolderWriters == FileInserts \cup {"moveDisk", "moveRow", "binDisk", "binRow"}
FromReaders == {"restoreDisk", "restoreRow"}
FolderDeleters == {"binDir", "binFiles", "dropFolders"}

\* What a command in flight needs of the rows.
Anchored(c) ==
  /\ c.pc \in FolderWriters => Listed(c.folder)
  /\ c.pc \in FromReaders /\ c.file \in DOMAIN files => Listed(files[c.file].from)
  /\ c.pc = "dropFolders" =>
       \A f \in DOMAIN files : Live(f) => files[f].folder \notin Doomed(c.folder, c.src)
  /\ c.pc \in FolderDeleters => "delete_folder" \in Ops

ListInv == LiveFilesListed /\ \A p \in Procs : Anchored(cmd[p])

LEMMA IdleAnchored == Anchored(Idle)
BY DEF Anchored, Idle, FolderWriters, FileInserts, FromReaders, FolderDeleters

\* A step that writes no row: only the locals of its command can disturb the invariant.
LEMMA SameRowsListed ==
  ASSUME CmdOK, ListInv, NEW p \in Procs, NEW c, cmd' = [cmd EXCEPT ![p] = c],
         Anchored(c), UNCHANGED <<folders, files>>
  PROVE  ListInv'
<1>1. \A q \in Procs : cmd'[q] = c \/ cmd'[q] = cmd[q]
  BY DEF CmdOK
<1>2. \A d : Listed(d)' <=> Listed(d)
  BY DEF Listed
<1>3. LiveFilesListed'
  BY <1>2 DEF ListInv, LiveFilesListed, Live
<1>4. ASSUME NEW q \in Procs PROVE Anchored(cmd[q])'
  <2>1. PICK e : e = cmd'[q]
    OBVIOUS
  <2>2. Anchored(e)
    BY <1>1, <2>1 DEF ListInv
  <2>3. Anchored(e)'
    BY <2>2 DEF Anchored, Listed, Live, Doomed
  <2> QED BY <2>1, <2>3 DEF Anchored, Live, Doomed
<1> QED BY <1>3, <1>4 DEF ListInv

\* A command that goes on with the same file and folder keeps its anchor.
Carries(c, d) ==
  /\ d.folder = c.folder /\ d.file = c.file
  /\ d.pc \in FolderWriters => c.pc \in FolderWriters
  /\ d.pc \in FromReaders => c.pc \in FromReaders
  /\ d.pc # "dropFolders"
  /\ d.pc \in FolderDeleters => c.pc \in FolderDeleters

LEMMA CarriesAnchor ==
  ASSUME NEW c, NEW d, Anchored(c), Carries(c, d)
  PROVE  Anchored(d)
BY DEF Anchored, Carries

LEMMA GotoListed ==
  ASSUME CmdOK, ListInv, NEW p \in Procs, NEW to, Goto(p, to), UNCHANGED <<folders, files>>,
         to \in FolderWriters => cmd[p].pc \in FolderWriters,
         to \in FromReaders => cmd[p].pc \in FromReaders,
         to \in FolderDeleters => cmd[p].pc \in FolderDeleters,
         to # "dropFolders"
  PROVE  ListInv'
<1> DEFINE c == [cmd[p] EXCEPT !.pc = to]
<1>1. cmd[p] \in Command /\ Anchored(cmd[p])
  BY DEF CmdOK, LocalsOK, ListInv
<1>2. c.pc = to /\ c.folder = cmd[p].folder /\ c.file = cmd[p].file
  BY <1>1 DEF Command
<1>3. Carries(cmd[p], c)
  BY <1>2 DEF Carries
<1>4. cmd' = [cmd EXCEPT ![p] = c]
  BY DEF Goto, CmdOK
<1> QED BY <1>1, <1>3, <1>4, CarriesAnchor, SameRowsListed

LEMMA DoneListed ==
  ASSUME CmdOK, ListInv, NEW p \in Procs, Done(p), UNCHANGED <<folders, files>>
  PROVE  ListInv'
BY IdleAnchored, SameRowsListed DEF Done

\* The step is one of the disk: its command ends, or goes on to the next of its steps.
LEMMA DiskStepListed ==
  ASSUME CmdOK, ListInv, NEW p \in Procs, NEW from, NEW to, At(p, from),
         Done(p) \/ Goto(p, to), UNCHANGED <<folders, files>>,
         \/ from \in FolderWriters /\ to \in FolderWriters
         \/ from \in FromReaders /\ to \in FromReaders
         \/ from = "binDir" /\ to = "binFiles"
         \/ to \in FolderInserts \cup {"updateFolder", "renameRow"}
  PROVE  ListInv'
<1>1. CASE Done(p)
  BY <1>1, DoneListed
<1>2. CASE Goto(p, to)
  <2>1. /\ to \in FolderWriters => from \in FolderWriters
        /\ to \in FromReaders => from \in FromReaders
        /\ to \in FolderDeleters => from \in FolderDeleters
        /\ to # "dropFolders"
    BY DEF FolderWriters, FileInserts, FromReaders, FolderDeleters, FolderInserts
  <2> QED BY <1>2, <2>1, GotoListed DEF At
<1> QED BY <1>1, <1>2

LEMMA Alone ==
  ASSUME CmdOK, ListInv, FoldersStay, NEW p \in Procs, NEW q \in Procs, q # p
  PROVE  cmd[q].pc \notin FolderDeleters
BY DEF ListInv, Anchored, FoldersStay, OneAtATime

\* A step that writes rows of files and ends its command.
LEMMA FilesStepListed ==
  ASSUME CmdOK, ListInv, FoldersStay, NEW p \in Procs, Done(p), UNCHANGED folders,
         \A f \in DOMAIN files' : ~files'[f].binned => Listed(files'[f].folder),
         \A f \in DOMAIN files' :
            \/ f \in DOMAIN files /\ files'[f].from = files[f].from
            \/ Listed(files'[f].from)
  PROVE  ListInv'
<1>1. \A d : Listed(d)' <=> Listed(d)
  BY DEF Listed
<1>2. LiveFilesListed'
  BY <1>1 DEF LiveFilesListed, Live
<1>3. ASSUME NEW q \in Procs PROVE Anchored(cmd[q])'
  <2>1. PICK e : e = cmd'[q]
    OBVIOUS
  <2>2. e.pc # "dropFolders" /\ Anchored(e)
    <3>1. CASE q = p
      BY <2>1, <3>1, IdleAnchored DEF Done, CmdOK, Idle
    <3>2. CASE q # p
      BY <2>1, <3>2, Alone DEF Done, CmdOK, ListInv, FolderDeleters
    <3> QED BY <3>1, <3>2
  <2>3. Anchored(e)'
    BY <1>1, <2>2 DEF Anchored
  <2> QED BY <2>1, <2>3 DEF Anchored, Live, Doomed
<1> QED BY <1>2, <1>3 DEF ListInv

\* A step that writes rows of folders and removes none.
LEMMA FoldersStepListed ==
  ASSUME CmdOK, ListInv, FoldersStay, NEW p \in Procs, NEW to, Done(p) \/ Goto(p, to),
         to = "updateBelow", UNCHANGED files, DOMAIN folders \subseteq DOMAIN folders'
  PROVE  ListInv'
<1>1. \A d : Listed(d) => Listed(d)'
  BY DEF Listed
<1>2. LiveFilesListed'
  BY <1>1 DEF ListInv, LiveFilesListed, Live
<1>3. ASSUME NEW q \in Procs PROVE Anchored(cmd[q])'
  <2>1. PICK e : e = cmd'[q]
    OBVIOUS
  <2>2. e.pc # "dropFolders" /\ Anchored(e)
    <3>1. CASE q = p /\ Done(p)
      BY <2>1, <3>1, IdleAnchored DEF Done, CmdOK, Idle
    <3>2. CASE q = p /\ Goto(p, to)
      <4>1. e.pc = "updateBelow"
        BY <2>1, <3>2 DEF Goto, CmdOK, LocalsOK, Command
      <4> QED BY <4>1 DEF Anchored, FolderWriters, FileInserts, FromReaders, FolderDeleters
    <3>3. CASE q # p
      <4>1. e = cmd[q]
        BY <2>1, <3>3 DEF Done, Goto, CmdOK
      <4> QED BY <3>3, <4>1, Alone DEF ListInv, FolderDeleters
    <3> QED BY <3>1, <3>2, <3>3
  <2>3. Anchored(e)'
    BY <1>1, <2>2 DEF Anchored
  <2> QED BY <2>1, <2>3 DEF Anchored, Live, Doomed
<1> QED BY <1>2, <1>3 DEF ListInv

\* Starting a command: what it will write is listed now.
LEMMA StartListed ==
  ASSUME CmdOK, ListInv, NEW p \in Procs, NEW op, NEW c, Start(p, op, c), Anchored(c)
  PROVE  ListInv'
BY SameRowsListed DEF Start, rows

LEMMA FolderStartsListed ==
  ASSUME CmdOK, ListInv, NEW p \in Procs,
         CreateFolder(p) \/ RenameFolder(p) \/ DeleteFolder(p)
  PROVE  ListInv'
<1> USE DEF Anchored, FolderWriters, FileInserts, FromReaders, FolderDeleters, Idle
<1>1. ASSUME CreateFolder(p) PROVE ListInv'
  <2>1. PICK d, n, s : Start(p, "create_folder",
          [Idle EXCEPT !.pc = "mkdir", !.folder = d, !.name = n, !.dst = s])
    BY <1>1 DEF CreateFolder
  <2> QED BY <2>1, StartListed
<1>2. ASSUME RenameFolder(p) PROVE ListInv'
  <2>1. PICK g, n, s, t : Start(p, "rename_folder",
          [Idle EXCEPT !.pc = "renameDir", !.folder = g, !.name = n, !.src = s, !.dst = t])
    BY <1>2 DEF RenameFolder
  <2> QED BY <2>1, StartListed
<1>3. ASSUME DeleteFolder(p) PROVE ListInv'
  <2>1. PICK g, s, e : Start(p, "delete_folder",
          [Idle EXCEPT !.pc = "binDir", !.folder = g, !.src = s, !.slot = e])
    BY <1>3 DEF DeleteFolder
  <2>2. "delete_folder" \in Ops
    BY <2>1 DEF Start
  <2> QED BY <2>1, <2>2, StartListed
<1> QED BY <1>1, <1>2, <1>3

LEMMA FileStartsListed ==
  ASSUME CmdOK, ListInv, NEW p \in Procs,
         MoveFile(p) \/ RenameFile(p) \/ Ingest(p) \/ CopyFile(p)
  PROVE  ListInv'
<1> USE DEF Anchored, FolderWriters, FileInserts, FromReaders, FolderDeleters, Idle
<1>1. ASSUME MoveFile(p) PROVE ListInv'
  <2>1. PICK d \in DOMAIN folders \cup {Root} : \E f, s, t : Start(p, "move_file",
          [Idle EXCEPT !.pc = "moveDisk", !.file = f, !.folder = d, !.src = s, !.dst = t])
    BY <1>1 DEF MoveFile
  <2>2. Listed(d)
    BY DEF Listed
  <2> QED BY <2>1, <2>2, StartListed
<1>2. ASSUME RenameFile(p) PROVE ListInv'
  <2>1. PICK f, n, s, t : Start(p, "rename_file",
          [Idle EXCEPT !.pc = "renameDisk", !.file = f, !.name = n, !.src = s, !.dst = t])
    BY <1>2 DEF RenameFile
  <2> QED BY <2>1, StartListed
<1>3. ASSUME Ingest(p) PROVE ListInv'
  <2>1. PICK d \in DOMAIN folders \cup {Root} :
          \E h, n, t : Start(p, "ingest",
            [Idle EXCEPT !.pc = IF h \in DOMAIN blobs THEN "link" ELSE "blobOpen",
                         !.hash = h, !.name = n, !.folder = d, !.dst = t])
    BY <1>3 DEF Ingest
  <2>2. Listed(d)
    BY DEF Listed
  <2> QED BY <2>1, <2>2, StartListed
<1>4. ASSUME CopyFile(p) PROVE ListInv'
  <2>1. PICK d \in DOMAIN folders \cup {Root} : \E h, n, t : Start(p, "copy_file",
          [Idle EXCEPT !.pc = "link", !.hash = h, !.name = n, !.folder = d, !.dst = t])
    BY <1>4 DEF CopyFile
  <2>2. Listed(d)
    BY DEF Listed
  <2> QED BY <2>1, <2>2, StartListed
<1> QED BY <1>1, <1>2, <1>3, <1>4

LEMMA BinStartsListed ==
  ASSUME CmdOK, ListInv, NEW p \in Procs,
         DeleteFile(p) \/ Restore(p) \/ EmptyBin(p)
  PROVE  ListInv'
<1> USE DEF Anchored, FolderWriters, FileInserts, FromReaders, FolderDeleters, Idle
<1>1. ASSUME DeleteFile(p) PROVE ListInv'
  <2>1. PICK d : /\ Listed(d)
                 /\ \E f, s, e : Start(p, "delete_file",
                      [Idle EXCEPT !.pc = "binDisk", !.file = f, !.folder = d, !.src = s, !.slot = e])
    BY <1>1 DEF DeleteFile
  <2> QED BY <2>1, StartListed
<1>2. ASSUME Restore(p) PROVE ListInv'
  <2>1. PICK f : /\ Listed(files[f].from)
                 /\ \E e, t : Start(p, "restore",
                      [Idle EXCEPT !.pc = "restoreDisk", !.file = f, !.slot = e, !.dst = t])
    BY <1>2 DEF Restore
  <2> QED BY <2>1, StartListed
<1>3. ASSUME EmptyBin(p) PROVE ListInv'
  BY <1>3, SameRowsListed DEF EmptyBin, rows
<1> QED BY <1>1, <1>2, <1>3

\* The steps on the disk.
LEMMA FolderDiskListed ==
  ASSUME CmdOK, ListInv, NEW p \in Procs, MakeDir(p) \/ RenameDir(p) \/ BinDir(p)
  PROVE  ListInv'
<1>1. CASE MakeDir(p)
  BY <1>1, DiskStepListed DEF MakeDir, rows, FolderInserts
<1>2. CASE RenameDir(p)
  BY <1>2, DiskStepListed DEF RenameDir, rows
<1>3. CASE BinDir(p)
  BY <1>3, DiskStepListed DEF BinDir, rows
<1> QED BY <1>1, <1>2, <1>3

LEMMA FileDiskListed ==
  ASSUME CmdOK, ListInv, NEW p \in Procs,
         MoveDisk(p) \/ RenameDisk(p) \/ BlobOpen(p) \/ Link(p) \/ CopyWrite(p)
  PROVE  ListInv'
<1> USE DEF FolderWriters, FileInserts
<1>1. CASE MoveDisk(p)
  <2>1. At(p, "moveDisk") /\ (Done(p) \/ Goto(p, "moveRow")) /\ UNCHANGED <<folders, files>>
    BY <1>1 DEF MoveDisk, rows
  <2> QED BY <2>1, DiskStepListed
<1>2. CASE RenameDisk(p)
  <2>1. At(p, "renameDisk") /\ (Done(p) \/ Goto(p, "renameRow")) /\ UNCHANGED <<folders, files>>
    BY <1>2 DEF RenameDisk, rows
  <2> QED BY <2>1, DiskStepListed
<1>3. CASE BlobOpen(p)
  <2>1. At(p, "blobOpen") /\ Goto(p, "blobWrite") /\ UNCHANGED <<folders, files>>
    BY <1>3 DEF BlobOpen, rows
  <2> QED BY <2>1, DiskStepListed
<1>4. CASE Link(p)
  <2>1. /\ At(p, "link") /\ UNCHANGED <<folders, files>>
        /\ Done(p) \/ Goto(p, "insertFile") \/ Goto(p, "copyOpen")
    BY <1>4 DEF Link, rows
  <2> QED BY <2>1, DiskStepListed
<1>5. CASE CopyWrite(p)
  <2>1. At(p, "copyWrite") /\ Goto(p, "insertFile") /\ UNCHANGED <<folders, files>>
    BY <1>5 DEF CopyWrite, rows
  <2> QED BY <2>1, DiskStepListed
<1> QED BY <1>1, <1>2, <1>3, <1>4, <1>5

LEMMA BinDiskListed ==
  ASSUME CmdOK, ListInv, NEW p \in Procs, BinDisk(p) \/ RestoreDisk(p)
  PROVE  ListInv'
<1>1. CASE BinDisk(p)
  <2>1. At(p, "binDisk") /\ (Done(p) \/ Goto(p, "binRow")) /\ UNCHANGED <<folders, files>>
    BY <1>1 DEF BinDisk, rows
  <2> QED BY <2>1, DiskStepListed DEF FolderWriters
<1>2. CASE RestoreDisk(p)
  <2>1. At(p, "restoreDisk") /\ (Done(p) \/ Goto(p, "restoreRow")) /\ UNCHANGED <<folders, files>>
    BY <1>2 DEF RestoreDisk, rows
  <2> QED BY <2>1, DiskStepListed DEF FromReaders
<1> QED BY <1>1, <1>2

\* The two steps that set a second local.
LEMMA LocalsSetListed ==
  ASSUME CmdOK, ListInv, NEW p \in Procs, BlobWrite(p) \/ CopyOpen(p)
  PROVE  ListInv'
<1>1. /\ cmd[p] \in Command /\ Anchored(cmd[p]) /\ cmd[p].pc \in FolderWriters
      /\ UNCHANGED <<folders, files>>
  BY DEF CmdOK, LocalsOK, ListInv, BlobWrite, CopyOpen, At, rows, FolderWriters, FileInserts
<1>2. CASE Done(p)
  BY <1>1, <1>2, DoneListed
<1>3. ASSUME NEW c, cmd' = [cmd EXCEPT ![p] = c], c.pc \in {"link", "copyWrite"},
             c.folder = cmd[p].folder, c.file = cmd[p].file
      PROVE  ListInv'
  <2>1. Carries(cmd[p], c)
    BY <1>1, <1>3 DEF Carries, FolderWriters, FileInserts, FromReaders, FolderDeleters
  <2> QED BY <1>1, <1>3, <2>1, CarriesAnchor, SameRowsListed
<1>4. CASE BlobWrite(p) /\ ~Done(p)
  <2> DEFINE c == [cmd[p] EXCEPT !.pc = "link", !.dst = PathIn(cmd[p].folder, cmd[p].name)]
  <2>1. cmd' = [cmd EXCEPT ![p] = c]
    BY <1>4 DEF BlobWrite, CmdOK
  <2>2. c.pc = "link" /\ c.folder = cmd[p].folder /\ c.file = cmd[p].file
    BY <1>1 DEF Command
  <2> QED BY <1>3, <2>1, <2>2
<1>5. CASE CopyOpen(p) /\ ~Done(p)
  <2>1. PICK i : cmd' = [cmd EXCEPT ![p].pc = "copyWrite", ![p].ino = i]
    BY <1>5 DEF CopyOpen
  <2> DEFINE c == [cmd[p] EXCEPT !.pc = "copyWrite", !.ino = i]
  <2>2. cmd' = [cmd EXCEPT ![p] = c]
    BY <2>1 DEF CmdOK
  <2>3. c.pc = "copyWrite" /\ c.folder = cmd[p].folder /\ c.file = cmd[p].file
    BY <1>1 DEF Command
  <2> QED BY <1>3, <2>2, <2>3
<1> QED BY <1>2, <1>4, <1>5

\* The steps on the rows.
LEMMA FolderRowListed ==
  ASSUME CmdOK, ListInv, FoldersStay, NEW p \in Procs,
         InsertFolder(p) \/ UpdateFolder(p) \/ UpdateBelow(p)
  PROVE  ListInv'
<1>1. (Done(p) \/ Goto(p, "updateBelow")) /\ files' = files
  BY DEF InsertFolder, UpdateFolder, UpdateBelow
<1>2. DOMAIN folders \subseteq DOMAIN folders'
  BY DEF InsertFolder, UpdateFolder, UpdateBelow
<1> QED BY <1>1, <1>2, FoldersStepListed

LEMMA FileRowListed ==
  ASSUME CmdOK, ListInv, FoldersStay, RowsOK, NEW p \in Procs,
         MoveRow(p) \/ RenameRow(p) \/ InsertFile(p) \/ BinRow(p) \/ RestoreRow(p) \/ PurgeRows(p)
  PROVE  ListInv'
<1>1. Done(p) /\ UNCHANGED folders
  BY DEF MoveRow, RenameRow, InsertFile, BinRow, RestoreRow, PurgeRows
<1>2. /\ Anchored(cmd[p]) /\ Listed(Root)
      /\ \A f \in DOMAIN files : files[f] \in File /\ (Live(f) => Listed(files[f].folder))
  BY DEF ListInv, LiveFilesListed, Listed, RowsOK
<1>3. \A f \in DOMAIN files' :
         /\ ~files'[f].binned => Listed(files'[f].folder)
         /\ \/ f \in DOMAIN files /\ files'[f].from = files[f].from
            \/ Listed(files'[f].from)
  <2> SUFFICES ASSUME NEW f \in DOMAIN files'
               PROVE  /\ ~files'[f].binned => Listed(files'[f].folder)
                      /\ \/ f \in DOMAIN files /\ files'[f].from = files[f].from
                         \/ Listed(files'[f].from)
    OBVIOUS
  <2>1. CASE f \in DOMAIN files /\ files'[f] = files[f]
    BY <1>2, <2>1 DEF Live
  <2>2. CASE InsertFile(p) /\ f = nextFile
    <3>1. Listed(cmd[p].folder)
      BY <1>2, <2>2 DEF InsertFile, At, Anchored, FolderWriters, FileInserts
    <3>2. files'[f].folder = cmd[p].folder /\ files'[f].from = Root
      BY <2>2 DEF InsertFile
    <3> QED BY <1>2, <3>1, <3>2
  <2>3. CASE f \in DOMAIN files /\ f = cmd[p].file /\ MoveRow(p)
    <3>1. Listed(cmd[p].folder)
      BY <1>2, <2>3 DEF MoveRow, At, Anchored, FolderWriters
    <3>2. files'[f].folder = cmd[p].folder /\ files'[f].from = files[f].from
      BY <1>2, <2>3 DEF MoveRow, File
    <3> QED BY <2>3, <3>1, <3>2
  <2>4. CASE f \in DOMAIN files /\ f = cmd[p].file /\ RenameRow(p)
    <3>1. /\ files'[f].folder = files[f].folder /\ files'[f].from = files[f].from
          /\ files'[f].binned = files[f].binned
      BY <1>2, <2>4 DEF RenameRow, File
    <3> QED BY <1>2, <2>4, <3>1 DEF Live
  <2>5. CASE f \in DOMAIN files /\ f = cmd[p].file /\ BinRow(p)
    <3>1. Listed(cmd[p].folder)
      BY <1>2, <2>5 DEF BinRow, At, Anchored, FolderWriters
    <3>2. files'[f].binned /\ files'[f].from = cmd[p].folder
      BY <1>2, <2>5 DEF BinRow, File
    <3> QED BY <3>1, <3>2
  <2>6. CASE f \in DOMAIN files /\ f = cmd[p].file /\ RestoreRow(p)
    <3>1. Listed(files[f].from)
      BY <1>2, <2>6 DEF RestoreRow, At, Anchored, FromReaders
    <3>2. files'[f].folder = files[f].from /\ files'[f].from = Root
      BY <1>2, <2>6 DEF RestoreRow, File
    <3> QED BY <1>2, <3>1, <3>2
  <2> QED BY <2>1, <2>2, <2>3, <2>4, <2>5, <2>6
          DEF MoveRow, RenameRow, InsertFile, BinRow, RestoreRow, PurgeRows
<1> QED BY <1>1, <1>3, FilesStepListed

\* Deleting a folder: its files are binned first, so that no live file is in a folder
\* whose row goes.
LEMMA DeletesAlone ==
  ASSUME ListInv, FoldersStay, NEW p \in Procs, cmd[p].pc \in FolderDeleters
  PROVE  Procs = {p}
BY DEF ListInv, Anchored, FoldersStay, OneAtATime

LEMMA BinFilesListed ==
  ASSUME CmdOK, ListInv, FoldersStay, RowsOK, NEW p \in Procs, BinFiles(p)
  PROVE  ListInv'
<1>1. /\ Procs = {p} /\ "delete_folder" \in Ops /\ UNCHANGED folders
      /\ cmd[p] \in Command /\ DOMAIN files' = DOMAIN files
      /\ \A f \in DOMAIN files : files[f] \in File
  BY DeletesAlone DEF BinFiles, At, FolderDeleters, ListInv, Anchored, CmdOK, LocalsOK, RowsOK
<1> DEFINE c == [cmd[p] EXCEPT !.pc = "dropFolders"]
           D == Doomed(cmd[p].folder, cmd[p].src)
<1>2. cmd'[p] = c /\ c.pc = "dropFolders" /\ c.folder = cmd[p].folder /\ c.src = cmd[p].src
  BY <1>1 DEF BinFiles, Goto, CmdOK, Command
<1>3. \A f \in DOMAIN files : ~files'[f].binned => Live(f) /\ files'[f] = files[f] /\ files[f].folder \notin D
  BY <1>1 DEF BinFiles, File, Live
<1>4. \A d : Listed(d)' <=> Listed(d)
  BY <1>1 DEF Listed
<1>5. LiveFilesListed'
  BY <1>1, <1>3, <1>4 DEF ListInv, LiveFilesListed, Live
<1>6. Anchored(c)'
  <2>1. ASSUME NEW f \in DOMAIN files', Live(f)'
        PROVE  (files[f].folder)' \notin Doomed(c.folder, c.src)'
    <3>1. files'[f].folder \notin D
      BY <1>1, <1>3, <2>1 DEF Live
    <3>2. Doomed(c.folder, c.src)' = D
      BY <1>1, <1>2 DEF Doomed
    <3> QED BY <3>1, <3>2
  <2> QED BY <1>1, <1>2, <2>1 DEF Anchored, FolderWriters, FileInserts, FromReaders, FolderDeleters
<1>7. ASSUME NEW q \in Procs PROVE Anchored(cmd[q])'
  <2>1. q = p /\ cmd'[q] = c
    BY <1>1, <1>2
  <2> QED BY <1>6, <2>1 DEF Anchored, Live, Doomed
<1> QED BY <1>5, <1>7 DEF ListInv

LEMMA DropFoldersListed ==
  ASSUME CmdOK, ListInv, FoldersStay, NEW p \in Procs, DropFolders(p)
  PROVE  ListInv'
<1> DEFINE D == Doomed(cmd[p].folder, cmd[p].src)
<1>1. /\ Procs = {p} /\ UNCHANGED files /\ DOMAIN folders' = DOMAIN folders \ D
      /\ \A f \in DOMAIN files : Live(f) => Listed(files[f].folder) /\ files[f].folder \notin D
  BY DeletesAlone
  DEF DropFolders, At, FolderDeleters, ListInv, LiveFilesListed, Anchored
<1>2. LiveFilesListed'
  BY <1>1 DEF LiveFilesListed, Live, Listed
<1>3. ASSUME NEW q \in Procs PROVE Anchored(cmd[q])'
  <2>1. cmd'[q] = Idle
    BY <1>1 DEF DropFolders, Done, CmdOK
  <2> QED BY <2>1 DEF Anchored, Idle, FolderWriters, FileInserts, FromReaders, FolderDeleters
<1> QED BY <1>2, <1>3 DEF ListInv

LEMMA EnvironmentListed ==
  ASSUME CmdOK, ListInv,
         (\E p \in Procs : StepFails(p)) \/ Tick \/ Crash \/ UNCHANGED vars
  PROVE  ListInv'
<1>1. ASSUME NEW p \in Procs, StepFails(p) PROVE ListInv'
  BY <1>1, DoneListed DEF StepFails, rows
<1>2. CASE Tick \/ UNCHANGED vars
  <2>1. UNCHANGED <<folders, files, cmd>>
    BY <1>2 DEF Tick, vars, rows
  <2> QED BY <2>1 DEF ListInv, LiveFilesListed, Anchored, Listed, Live, Doomed
<1>3. CASE Crash
  <2>1. UNCHANGED <<folders, files>> /\ \A q \in Procs : cmd'[q] = Idle
    BY <1>3 DEF Crash, rows
  <2>2. LiveFilesListed'
    BY <2>1 DEF ListInv, LiveFilesListed, Live, Listed
  <2>3. ASSUME NEW q \in Procs PROVE Anchored(cmd[q])'
    BY <2>1 DEF Anchored, Idle, FolderWriters, FileInserts, FromReaders, FolderDeleters
  <2> QED BY <2>2, <2>3 DEF ListInv
<1> QED BY <1>1, <1>2, <1>3

LEMMA ListInit == ASSUME Init PROVE ListInv
<1>1. \A p \in Procs : cmd[p] = Idle
  BY DEF Init
<1>2. LiveFilesListed
  BY DEF Init, LiveFilesListed
<1> QED BY <1>1, <1>2, IdleAnchored DEF ListInv

LEMMA ListNext ==
  ASSUME StoreInv, ListInv, FoldersStay, [Next]_vars
  PROVE  ListInv'
<1> USE StoreInvParts
<1>1. ASSUME NEW p \in Procs, FolderCommand(p) PROVE ListInv'
  BY <1>1, FolderStartsListed, FolderDiskListed, FolderRowListed, BinFilesListed, DropFoldersListed
  DEF FolderCommand
<1>2. ASSUME NEW p \in Procs, FileCommand(p) PROVE ListInv'
  BY <1>2, FileStartsListed, FileDiskListed, LocalsSetListed, FileRowListed DEF FileCommand
<1>3. ASSUME NEW p \in Procs, BinCommand(p) PROVE ListInv'
  BY <1>3, BinStartsListed, BinDiskListed, FileRowListed DEF BinCommand
<1> QED BY <1>1, <1>2, <1>3, EnvironmentListed DEF Next

\* No live file is ever in a folder without a row (delete_folder_to_bin bins the files of
\* the folders it drops before it drops them; restore_from_bin needs the folder's row), for
\* any names, careful or not, and faults anywhere, when commands run one at a time or no
\* folder is deleted.
THEOREM LiveFilesStayListed == FoldersStay => (Spec => []LiveFilesListed)
<1> SUFFICES ASSUME FoldersStay PROVE Spec => []LiveFilesListed
  OBVIOUS
<1>1. Init => StoreInv /\ ListInv
  BY StoreInit, ListInit
<1>2. StoreInv /\ ListInv /\ [Next]_vars => (StoreInv /\ ListInv)'
  BY StoreNext, ListNext
<1>3. StoreInv /\ ListInv => LiveFilesListed
  BY DEF ListInv
<1> QED BY <1>1, <1>2, <1>3, PTL DEF Spec

-----------------------------------------------------------------------------
(* Blobs hold their bytes.  With free names and no folders every path has   *)
(* one component, no two commands place a file at the same path, and the    *)
(* link of a blob never falls back to the copy that writes into an inode.   *)

Single(q) == q = <<>> \/ \E s : q = <<s>>
Flat(t) == \A q \in DOMAIN t : Single(q)

LEMMA SinglePrefix ==
  ASSUME NEW s, NEW q, Single(q), IsPrefix(<<s>>, q)
  PROVE  q = <<s>>
<1>1. Len(<<s>>) = 1 /\ SubSeq(<<s>>, 1, 1) = <<s>>
  <2>1. <<s>> \in Seq({s}) /\ Len(<<s>>) = 1
    OBVIOUS
  <2> QED BY <2>1, SubSeqFull
<1>2. CASE q = <<>>
  BY <1>1, <1>2 DEF IsPrefix
<1>3. ASSUME NEW u, q = <<u>> PROVE q = <<s>>
  BY <1>1, <1>3 DEF IsPrefix
<1> QED BY <1>2, <1>3 DEF Single

LEMMA FlatSubtree ==
  ASSUME NEW t, Flat(t), NEW s
  PROVE  DOMAIN Subtree(t, <<s>>) \subseteq {<<>>}
<1>1. Rest(<<s>>, <<s>>) = <<>>
  BY DEF Rest
<1>2. \A r \in Below(t, <<s>>) : r = <<s>>
  BY SinglePrefix DEF Below, Flat
<1> QED BY <1>1, <1>2 DEF Subtree

LEMMA FlatPrune ==
  ASSUME NEW t, Flat(t), NEW a
  PROVE  Flat(Prune(t, a)) /\ DOMAIN Prune(t, a) \subseteq DOMAIN t
BY DEF Flat, Prune

LEMMA FlatGraft ==
  ASSUME NEW t, Flat(t), NEW s, DOMAIN s \subseteq {<<>>}, NEW n
  PROVE  /\ Flat(Graft(t, <<n>>, s))
         /\ DOMAIN Graft(t, <<n>>, s) \subseteq DOMAIN t \cup {<<n>>}
<1>1. <<n>> \o <<>> = <<n>>
  <2>1. <<n>> \in Seq({n})
    OBVIOUS
  <2> QED BY <2>1, ConcatEmptySeq
<1>2. \A r \in DOMAIN s : <<n>> \o r = <<n>>
  BY <1>1
<1>3. DOMAIN Graft(t, <<n>>, s) \subseteq DOMAIN t \cup {<<n>>}
  BY <1>2 DEF Graft
<1> QED BY <1>3 DEF Flat, Single

LEMMA SingleFront == ASSUME NEW s PROVE Front(<<s>>) = <<>>
BY DEF Front

LEMMA FlatMkdir ==
  ASSUME NEW t, Flat(t)
  PROVE  /\ Flat(MkdirAll(t, <<>>))
         /\ DOMAIN MkdirAll(t, <<>>) = DOMAIN t \cup {<<>>}
<1>1. Prefixes(<<>>) = {<<>>}
  <2>1. Len(<<>>) = 0 /\ SubSeq(<<>>, 1, 0) = <<>>
    OBVIOUS
  <2>2. 0..0 = {0}
    OBVIOUS
  <2> QED BY <2>1, <2>2 DEF Prefixes
<1> QED BY <1>1 DEF MkdirAll, Flat, Single

\* A rename of one component to another leaves flat trees, with no path but the target's.
LEMMA FlatMove ==
  ASSUME NEW t, Flat(t), NEW a, NEW b
  PROVE  /\ Flat(Move(t, <<a>>, <<b>>))
         /\ DOMAIN Move(t, <<a>>, <<b>>) \subseteq DOMAIN t \cup {<<b>>}
<1> DEFINE u == Prune(Prune(t, <<b>>), <<a>>)
           s == Subtree(t, <<a>>)
<1>1. Flat(u) /\ DOMAIN u \subseteq DOMAIN t
  BY FlatPrune
<1>2. DOMAIN s \subseteq {<<>>}
  BY FlatSubtree
<1> HIDE DEF u, s
<1>3. Flat(Graft(u, <<b>>, s)) /\ DOMAIN Graft(u, <<b>>, s) \subseteq DOMAIN t \cup {<<b>>}
  BY <1>1, <1>2, FlatGraft
<1>4. Move(t, <<a>>, <<b>>) \in {t, Graft(u, <<b>>, s)}
  BY DEF Move, u, s
<1> QED BY <1>3, <1>4

LEMMA FlatRename ==
  ASSUME NEW s, Flat(s), NEW a, NEW t, Flat(t), NEW b
  PROVE  /\ Flat(RenamedFrom(s, <<a>>, t, <<b>>)) /\ Flat(RenamedTo(s, <<a>>, t, <<b>>))
         /\ DOMAIN RenamedFrom(s, <<a>>, t, <<b>>) \subseteq DOMAIN s
         /\ DOMAIN RenamedTo(s, <<a>>, t, <<b>>) \subseteq DOMAIN t \cup {<<b>>}
<1> DEFINE u == Prune(t, <<b>>)
           v == Subtree(s, <<a>>)
<1>1. Flat(u) /\ DOMAIN u \subseteq DOMAIN t
  BY FlatPrune
<1>2. DOMAIN v \subseteq {<<>>}
  BY FlatSubtree
<1> HIDE DEF u, v
<1>3. Flat(Graft(u, <<b>>, v)) /\ DOMAIN Graft(u, <<b>>, v) \subseteq DOMAIN t \cup {<<b>>}
  BY <1>1, <1>2, FlatGraft
<1>4. RenamedTo(s, <<a>>, t, <<b>>) \in {t, Graft(u, <<b>>, v)}
  BY DEF RenamedTo, u, v
<1>5. RenamedFrom(s, <<a>>, t, <<b>>) \in {s, Prune(s, <<a>>)}
  BY DEF RenamedFrom
<1> QED BY <1>3, <1>4, <1>5, FlatPrune

\* Users pick free names, no folder is ever made, and no write of a blob is cut short.
FreeFileNames ==
  /\ Careful /\ "blobWrite" \notin FaultPoints
  /\ Ops \cap {"create_folder", "rename_folder", "delete_folder"} = {}

\* The steps of file commands that are reached, and among them those still to take their
\* path, whose path nothing holds, and those still to put something at theirs.
FilePCs == {"idle", "blobOpen", "blobWrite", "link", "insertFile", "moveDisk", "moveRow",
            "renameDisk", "renameRow", "binDisk", "binRow", "restoreDisk", "restoreRow", "purgeRows"}
Taking == {"blobOpen", "blobWrite", "link"}
Placing == Taking \cup {"moveDisk", "renameDisk", "restoreDisk"}
Leaving == {"moveDisk", "renameDisk", "binDisk"}

PlaceOK(c) ==
  /\ c.pc \in FilePCs
  /\ c.pc \in Placing => \E s : c.dst = <<s>>
  /\ c.pc \in Leaving => \E s : c.src = <<s>>
  /\ c.pc \in Taking => c.folder = Root /\ c.dst = PathIn(Root, c.name) /\ c.dst \notin DOMAIN tree

OneBlobEach == \A g, h \in DOMAIN blobs : blobs[g] = blobs[h] => g = h
PlacesApart ==
  \A p, q \in Procs :
    p # q /\ cmd[p].pc \in Placing /\ cmd[q].pc \in Placing => cmd[p].dst # cmd[q].dst

BlobInv ==
  /\ DOMAIN folders = {} /\ Flat(tree) /\ Flat(bin)
  /\ OneBlobEach /\ BlobIntegrity
  /\ \A p \in Procs : PlaceOK(cmd[p])
  /\ PlacesApart

LEMMA IdlePlace == PlaceOK(Idle) /\ Idle.pc = "idle"
BY DEF PlaceOK, Idle, FilePCs, Placing, Taking, Leaving

\* The commands but p, after a step of p that at most fills p's own path of the tree.
LEMMA OthersKeepPlaces ==
  ASSUME CmdOK, BlobInv, NEW p \in Procs, NEW c, cmd' = [cmd EXCEPT ![p] = c],
         PlaceOK(c)', UNCHANGED folders,
         \A x \in DOMAIN tree' :
            \/ x \in DOMAIN tree \cup {<<>>}
            \/ x = cmd[p].dst /\ cmd[p].pc \in Placing,
         c.pc \in Placing =>
           \A q \in Procs \ {p} : cmd[q].pc \in Placing => cmd[q].dst # c.dst
  PROVE  (\A q \in Procs : PlaceOK(cmd[q])') /\ PlacesApart'
<1>1. cmd'[p] = c /\ \A q \in Procs \ {p} : cmd'[q] = cmd[q]
  BY DEF CmdOK
<1>2. PlacesApart'
  BY <1>1 DEF PlacesApart, BlobInv
<1>3. ASSUME NEW q \in Procs PROVE PlaceOK(cmd[q])'
  <2>1. CASE q = p
    BY <1>1, <2>1 DEF PlaceOK, PathIn, DirOf
  <2>2. CASE q # p
    <3>1. PICK e : e = cmd'[q]
      OBVIOUS
    <3>2. e = cmd[q] /\ PlaceOK(e)
      BY <1>1, <2>2, <3>1 DEF BlobInv
    <3>3. e.pc \in Taking => e.dst \notin DOMAIN tree'
      <4>1. SUFFICES ASSUME e.pc \in Taking PROVE e.dst \notin DOMAIN tree'
        OBVIOUS
      <4>2. e.dst # <<>> /\ e.dst \notin DOMAIN tree
        BY <3>2, <4>1 DEF PlaceOK, Placing
      <4>3. cmd[p].pc \in Placing => cmd[p].dst # e.dst
        BY <2>2, <3>2, <4>1 DEF BlobInv, PlacesApart, Placing
      <4> QED BY <4>2, <4>3
    <3>4. PlaceOK(e)'
      BY <3>2, <3>3 DEF PlaceOK, PathIn, DirOf, Root
    <3> QED BY <3>1, <3>4 DEF PlaceOK, PathIn, DirOf
  <2> QED BY <2>1, <2>2
<1> QED BY <1>2, <1>3

\* A step that leaves the blobs alone and is not the write of one.
LEMMA SameBlobsStep ==
  ASSUME CmdOK, BlobInv, NEW p \in Procs, NEW c, cmd' = [cmd EXCEPT ![p] = c],
         PlaceOK(c)', UNCHANGED <<folders, blobs, data>>, Flat(tree'), Flat(bin'),
         cmd[p].pc # "blobWrite",
         \A x \in DOMAIN tree' :
            \/ x \in DOMAIN tree \cup {<<>>}
            \/ x = cmd[p].dst /\ cmd[p].pc \in Placing,
         c.pc \in Placing =>
           \A q \in Procs \ {p} : cmd[q].pc \in Placing => cmd[q].dst # c.dst
  PROVE  BlobInv'
<1>1. (\A q \in Procs : PlaceOK(cmd[q])') /\ PlacesApart'
  BY OthersKeepPlaces
<1>2. \A q \in Procs : cmd[q].pc = "blobWrite" => cmd'[q] = cmd[q]
  BY DEF CmdOK
<1>3. BlobIntegrity'
  BY <1>2 DEF BlobIntegrity, BlobInv, Busy
<1>4. OneBlobEach'
  BY DEF BlobInv, OneBlobEach
<1> QED BY <1>1, <1>3, <1>4 DEF BlobInv

\* Starting a file command.
LEMMA StartKeepsBlobs ==
  ASSUME CmdOK, BlobInv, NEW p \in Procs, NEW op, NEW c, Start(p, op, c), PlaceOK(c),
         c.pc \in Placing => \A q \in Busy : cmd[q].dst # c.dst
  PROVE  BlobInv'
<1>1. UNCHANGED <<folders, tree, bin, blobs, data>> /\ cmd[p].pc = "idle"
  BY DEF Start, rows, disk, At
<1>2. PlaceOK(c)'
  BY <1>1 DEF PlaceOK, PathIn, DirOf
<1>3. c.pc \in Placing =>
        \A q \in Procs \ {p} : cmd[q].pc \in Placing => cmd[q].dst # c.dst
  BY DEF Busy, Placing, Taking
<1>4. Flat(tree)' /\ Flat(bin)'
  BY <1>1 DEF BlobInv
<1> QED BY <1>1, <1>2, <1>3, <1>4, SameBlobsStep DEF Start

LEMMA RootPath ==
  ASSUME BlobInv, NEW d, Listed(d), NEW n
  PROVE  d = Root /\ PathIn(d, n) = <<Sanitise[n]>>
<1>1. d = Root
  BY DEF BlobInv, Listed
<1>2. Append(<<>>, Sanitise[n]) = <<Sanitise[n]>>
  OBVIOUS
<1> QED BY <1>1, <1>2 DEF PathIn, DirOf

LEMMA FolderStartsBlobs ==
  ASSUME FreeFileNames, NEW p \in Procs
  PROVE  ~CreateFolder(p) /\ ~RenameFolder(p) /\ ~DeleteFolder(p)
BY DEF FreeFileNames, CreateFolder, RenameFolder, DeleteFolder, Start

LEMMA FileStartsBlobs ==
  ASSUME FreeFileNames, CmdOK, BlobInv, NEW p \in Procs,
         MoveFile(p) \/ RenameFile(p) \/ Ingest(p) \/ CopyFile(p)
  PROVE  BlobInv'
<1> USE DEF Placing, Leaving, Taking, FilePCs
<1>1. Listed(Root) /\ DOMAIN folders = {}
  BY DEF Listed, BlobInv
<1>2. \A d \in DOMAIN folders \cup {Root} : Listed(d) /\ d = Root
  BY <1>1
<1>3. \A t : Polite(t) => t \notin DOMAIN tree /\ \A q \in Busy : cmd[q].dst # t
  BY DEF Polite, FreeFileNames
<1>4. ASSUME NEW f, NEW n, NEW d, Listed(d), Listed(files[f].folder), Polite(PathIn(d, n)),
             NEW op, NEW c, Start(p, op, c), c.pc \in {"moveDisk", "renameDisk"},
             c.src = FilePath(f), c.dst = PathIn(d, n)
      PROVE  BlobInv'
  <2>1. FilePath(f) = <<Sanitise[files[f].name]>> /\ PathIn(d, n) = <<Sanitise[n]>>
    BY <1>4, RootPath DEF FilePath
  <2>2. PlaceOK(c)
    BY <1>4, <2>1 DEF PlaceOK
  <2> QED BY <1>3, <1>4, <2>2, StartKeepsBlobs
<1>5. ASSUME NEW n, NEW op, NEW h, NEW pc \in {"link", "blobOpen"}, Polite(PathIn(Root, n)),
             Start(p, op, [Idle EXCEPT !.pc = pc, !.hash = h, !.name = n, !.folder = Root,
                                       !.dst = PathIn(Root, n)])
      PROVE  BlobInv'
  <2> DEFINE c == [Idle EXCEPT !.pc = pc, !.hash = h, !.name = n, !.folder = Root,
                               !.dst = PathIn(Root, n)]
  <2>1. c.pc = pc /\ c.name = n /\ c.folder = Root /\ c.dst = PathIn(Root, n)
    BY DEF Idle
  <2>2. PathIn(Root, n) = <<Sanitise[n]>>
    BY <1>1, RootPath
  <2>3. PlaceOK(c)
    BY <1>3, <1>5, <2>1, <2>2 DEF PlaceOK
  <2> QED BY <1>3, <1>5, <2>1, <2>3, StartKeepsBlobs
<1>6. CASE MoveFile(p)
  <2>1. PICK f \in DOMAIN files, d \in DOMAIN folders \cup {Root} :
          /\ Listed(files[f].folder) /\ Polite(PathIn(d, files[f].name))
          /\ Start(p, "move_file",
               [Idle EXCEPT !.pc = "moveDisk", !.file = f, !.folder = d,
                            !.src = FilePath(f), !.dst = PathIn(d, files[f].name)])
    BY <1>6 DEF MoveFile
  <2> DEFINE c == [Idle EXCEPT !.pc = "moveDisk", !.file = f, !.folder = d,
                               !.src = FilePath(f), !.dst = PathIn(d, files[f].name)]
  <2>2. c.pc = "moveDisk" /\ c.src = FilePath(f) /\ c.dst = PathIn(d, files[f].name)
    BY DEF Idle
  <2> QED BY <1>2, <1>4, <2>1, <2>2
<1>7. CASE RenameFile(p)
  <2>1. PICK f \in DOMAIN files, n \in UserNames :
          /\ Listed(files[f].folder) /\ Polite(PathIn(files[f].folder, n))
          /\ Start(p, "rename_file",
               [Idle EXCEPT !.pc = "renameDisk", !.file = f, !.name = n,
                            !.src = FilePath(f), !.dst = PathIn(files[f].folder, n)])
    BY <1>7 DEF RenameFile
  <2> DEFINE c == [Idle EXCEPT !.pc = "renameDisk", !.file = f, !.name = n,
                               !.src = FilePath(f), !.dst = PathIn(files[f].folder, n)]
  <2>2. c.pc = "renameDisk" /\ c.src = FilePath(f) /\ c.dst = PathIn(files[f].folder, n)
    BY DEF Idle
  <2> QED BY <1>4, <2>1, <2>2
<1>8. CASE Ingest(p)
  <2>1. PICK h \in Contents, n \in UserNames :
          /\ Polite(PathIn(Root, n))
          /\ Start(p, "ingest",
               [Idle EXCEPT !.pc = IF h \in DOMAIN blobs THEN "link" ELSE "blobOpen",
                            !.hash = h, !.name = n, !.folder = Root, !.dst = PathIn(Root, n)])
    BY <1>1, <1>8 DEF Ingest
  <2> QED BY <1>5, <2>1
<1>9. CASE CopyFile(p)
  <2>1. PICK h, n :
          /\ Polite(PathIn(Root, n))
          /\ Start(p, "copy_file",
               [Idle EXCEPT !.pc = "link", !.hash = h, !.name = n,
                            !.folder = Root, !.dst = PathIn(Root, n)])
    BY <1>1, <1>9 DEF CopyFile
  <2> QED BY <1>5, <2>1
<1> QED BY <1>6, <1>7, <1>8, <1>9

LEMMA BinStartsBlobs ==
  ASSUME FreeFileNames, CmdOK, BlobInv, NEW p \in Procs,
         DeleteFile(p) \/ Restore(p) \/ EmptyBin(p)
  PROVE  BlobInv'
<1> USE DEF Placing, Leaving, Taking, FilePCs
<1>1. CASE DeleteFile(p)
  <2>1. PICK f \in DOMAIN files :
          /\ Listed(files[f].folder)
          /\ Start(p, "delete_file",
               [Idle EXCEPT !.pc = "binDisk", !.file = f, !.folder = files[f].folder,
                            !.src = FilePath(f), !.slot = <<now, Sanitise[files[f].name]>>])
    BY <1>1 DEF DeleteFile
  <2> DEFINE c == [Idle EXCEPT !.pc = "binDisk", !.file = f, !.folder = files[f].folder,
                               !.src = FilePath(f), !.slot = <<now, Sanitise[files[f].name]>>]
  <2>2. c.pc = "binDisk" /\ c.src = FilePath(f)
    BY DEF Idle
  <2>3. FilePath(f) = <<Sanitise[files[f].name]>>
    BY <2>1, RootPath DEF FilePath
  <2>4. PlaceOK(c) /\ c.pc \notin Placing
    BY <2>2, <2>3 DEF PlaceOK
  <2> QED BY <2>1, <2>4, StartKeepsBlobs
<1>2. CASE Restore(p)
  <2>1. PICK f, e :
          /\ Listed(files[f].from) /\ Polite(PathIn(files[f].from, files[f].name))
          /\ Start(p, "restore",
               [Idle EXCEPT !.pc = "restoreDisk", !.file = f, !.slot = e,
                            !.dst = PathIn(files[f].from, files[f].name)])
    BY <1>2 DEF Restore
  <2> DEFINE c == [Idle EXCEPT !.pc = "restoreDisk", !.file = f, !.slot = e,
                               !.dst = PathIn(files[f].from, files[f].name)]
  <2>2. c.pc = "restoreDisk" /\ c.dst = PathIn(files[f].from, files[f].name)
    BY DEF Idle
  <2>3. PathIn(files[f].from, files[f].name) = <<Sanitise[files[f].name]>>
    BY <2>1, RootPath
  <2>4. PlaceOK(c) /\ \A q \in Busy : cmd[q].dst # c.dst
    BY <2>1, <2>2, <2>3 DEF PlaceOK, Polite, FreeFileNames
  <2> QED BY <2>1, <2>4, StartKeepsBlobs
<1>3. CASE EmptyBin(p)
  <2> DEFINE c == [Idle EXCEPT !.pc = "purgeRows"]
  <2>1. c.pc = "purgeRows"
    BY DEF Idle
  <2>2. PlaceOK(c)'
    BY <2>1 DEF PlaceOK
  <2>3. /\ UNCHANGED <<folders, tree, blobs, data>> /\ cmd[p].pc = "idle"
        /\ cmd' = [cmd EXCEPT ![p] = c] /\ DOMAIN bin' \subseteq DOMAIN bin
    BY <1>3 DEF EmptyBin, rows, At
  <2>4. Flat(bin)' /\ Flat(tree)'
    BY <2>3 DEF BlobInv, Flat
  <2> QED BY <2>1, <2>2, <2>3, <2>4, SameBlobsStep
<1> QED BY <1>1, <1>2, <1>3

\* After its step on the disk a command has nothing more to place.
LEMMA PlacedStep ==
  ASSUME CmdOK, BlobInv, NEW p \in Procs, cmd[p].pc # "blobWrite",
         NEW to \in {"insertFile", "moveRow", "renameRow", "binRow", "restoreRow"},
         Done(p) \/ Goto(p, to), UNCHANGED <<folders, blobs, data>>, Flat(tree'), Flat(bin'),
         \A x \in DOMAIN tree' :
            \/ x \in DOMAIN tree \cup {<<>>}
            \/ x = cmd[p].dst /\ cmd[p].pc \in Placing
  PROVE  BlobInv'
<1>1. CASE Done(p)
  <2>1. PlaceOK(Idle)' /\ Idle.pc \notin Placing
    BY DEF PlaceOK, Idle, FilePCs, Placing, Taking, Leaving
  <2>2. cmd' = [cmd EXCEPT ![p] = Idle]
    BY <1>1 DEF Done
  <2> QED BY <2>1, <2>2, SameBlobsStep
<1>2. CASE Goto(p, to)
  <2> PICK c : c = [cmd[p] EXCEPT !.pc = to]
    OBVIOUS
  <2>1. c.pc = to
    BY DEF CmdOK, LocalsOK, Command
  <2>2. PlaceOK(c)' /\ c.pc \notin Placing
    BY <2>1 DEF PlaceOK, FilePCs, Placing, Taking, Leaving
  <2>3. cmd' = [cmd EXCEPT ![p] = c]
    BY <1>2 DEF Goto, CmdOK
  <2> QED BY <2>2, <2>3, SameBlobsStep
<1> QED BY <1>1, <1>2

LEMMA MovesKeepBlobs ==
  ASSUME CmdOK, BlobInv, NEW p \in Procs, MoveDisk(p) \/ RenameDisk(p)
  PROVE  BlobInv'
<1>1. /\ UNCHANGED <<folders, bin, blobs, data>>
      /\ cmd[p].pc \in {"moveDisk", "renameDisk"}
  BY DEF MoveDisk, RenameDisk, rows, At
<1>2. PlaceOK(cmd[p]) /\ Flat(tree) /\ Flat(bin)'
  BY <1>1 DEF BlobInv
<1>3. PICK a, b : cmd[p].src = <<a>> /\ cmd[p].dst = <<b>>
  BY <1>1, <1>2 DEF PlaceOK, Placing, Leaving
<1> DEFINE t == MkdirAll(tree, <<>>)
<1>4. Flat(t) /\ DOMAIN t = DOMAIN tree \cup {<<>>} /\ Front(<<b>>) = <<>>
  BY <1>2, FlatMkdir, SingleFront
<1> HIDE DEF t
<1>5. \/ tree' \in {tree, t}
      \/ tree' = Move(t, <<a>>, <<b>>)
      \/ tree' = Move(tree, <<a>>, <<b>>)
  BY <1>3, <1>4 DEF MoveDisk, RenameDisk, t
<1>6. Flat(tree') /\ DOMAIN tree' \subseteq DOMAIN tree \cup {<<>>} \cup {<<b>>}
  <2>1. CASE tree' \in {tree, t}
    BY <1>2, <1>4, <2>1
  <2>2. CASE tree' = Move(t, <<a>>, <<b>>)
    BY <1>4, <2>2, FlatMove
  <2>3. CASE tree' = Move(tree, <<a>>, <<b>>)
    BY <1>2, <2>3, FlatMove
  <2> QED BY <1>5, <2>1, <2>2, <2>3
<1>7. \A x \in DOMAIN tree' :
         \/ x \in DOMAIN tree \cup {<<>>}
         \/ x = cmd[p].dst /\ cmd[p].pc \in Placing
  BY <1>1, <1>3, <1>6 DEF Placing
<1>8. Done(p) \/ Goto(p, "moveRow") \/ Goto(p, "renameRow")
  BY DEF MoveDisk, RenameDisk
<1>9. cmd[p].pc # "blobWrite"
  BY <1>1
<1> QED BY <1>1, <1>2, <1>6, <1>7, <1>8, <1>9, PlacedStep

\* The link never finds its path taken.
LEMMA LinkKeepsBlobs ==
  ASSUME CmdOK, BlobInv, NEW p \in Procs, Link(p)
  PROVE  BlobInv'
<1>1. UNCHANGED <<folders, bin, blobs, data>> /\ cmd[p].pc = "link"
  BY DEF Link, rows, At
<1>2. PlaceOK(cmd[p]) /\ Flat(tree) /\ Flat(bin)'
  BY <1>1 DEF BlobInv
<1>3. PICK b : cmd[p].dst = <<b>>
  BY <1>1, <1>2 DEF PlaceOK, Placing, Taking
<1>4. <<b>> \notin DOMAIN tree
  BY <1>1, <1>2, <1>3 DEF PlaceOK, Taking
<1> DEFINE t == MkdirAll(tree, <<>>)
<1>5. Flat(t) /\ DOMAIN t = DOMAIN tree \cup {<<>>} /\ Front(<<b>>) = <<>>
  BY <1>2, FlatMkdir, SingleFront
<1> HIDE DEF t
<1>6. <<b>> \notin DOMAIN t
  BY <1>4, <1>5
<1>7. \/ Done(p) /\ tree' = tree
      \/ Goto(p, "insertFile") /\ \E i : tree' = AddFile(t, <<b>>, i)
  BY <1>3, <1>5, <1>6 DEF Link, t
<1>8. Flat(tree') /\ DOMAIN tree' \subseteq DOMAIN tree \cup {<<>>} \cup {<<b>>}
  BY <1>2, <1>5, <1>7 DEF AddFile, Flat, Single
<1>9. \A x \in DOMAIN tree' :
         \/ x \in DOMAIN tree \cup {<<>>}
         \/ x = cmd[p].dst /\ cmd[p].pc \in Placing
  BY <1>1, <1>3, <1>8 DEF Placing, Taking
<1>10. Done(p) \/ Goto(p, "insertFile")
  BY <1>7
<1>11. cmd[p].pc # "blobWrite"
  BY <1>1
<1> QED BY <1>1, <1>2, <1>8, <1>9, <1>10, <1>11, PlacedStep

LEMMA BinMovesKeepBlobs ==
  ASSUME CmdOK, BlobInv, NEW p \in Procs, BinDisk(p) \/ RestoreDisk(p)
  PROVE  BlobInv'
<1>1. UNCHANGED <<folders, blobs, data>>
  BY DEF BinDisk, RestoreDisk, rows
<1>2. PlaceOK(cmd[p]) /\ Flat(tree) /\ Flat(bin)
  BY DEF BlobInv
<1> PICK e : e = cmd[p].slot
  OBVIOUS
<1> DEFINE to == <<e>>
<1>3. CASE BinDisk(p)
  <2>1. cmd[p].pc = "binDisk" /\ (Done(p) \/ Goto(p, "binRow"))
    BY <1>3 DEF BinDisk, At
  <2>2. PICK a : cmd[p].src = <<a>>
    BY <1>2, <2>1 DEF PlaceOK, Leaving
  <2>3. \/ UNCHANGED <<tree, bin>>
        \/ tree' = RenamedFrom(tree, <<a>>, bin, to) /\ bin' = RenamedTo(tree, <<a>>, bin, to)
    BY <1>3, <2>2 DEF BinDisk
  <2>4. Flat(tree') /\ Flat(bin') /\ DOMAIN tree' \subseteq DOMAIN tree
    <3>1. CASE UNCHANGED <<tree, bin>>
      BY <1>2, <3>1
    <3>2. CASE tree' = RenamedFrom(tree, <<a>>, bin, to) /\ bin' = RenamedTo(tree, <<a>>, bin, to)
      <4>1. /\ Flat(RenamedFrom(tree, <<a>>, bin, to)) /\ Flat(RenamedTo(tree, <<a>>, bin, to))
            /\ DOMAIN RenamedFrom(tree, <<a>>, bin, to) \subseteq DOMAIN tree
        BY <1>2, FlatRename
      <4> QED BY <3>2, <4>1
    <3> QED BY <2>3, <3>1, <3>2
  <2>5. cmd[p].pc # "blobWrite"
    BY <2>1
  <2> QED BY <1>1, <2>1, <2>4, <2>5, PlacedStep
<1>4. CASE RestoreDisk(p)
  <2>1. cmd[p].pc = "restoreDisk" /\ (Done(p) \/ Goto(p, "restoreRow"))
    BY <1>4 DEF RestoreDisk, At
  <2>2. PICK b : cmd[p].dst = <<b>>
    BY <1>2, <2>1 DEF PlaceOK, Placing
  <2> DEFINE t == MkdirAll(tree, <<>>)
  <2>3. Flat(t) /\ DOMAIN t = DOMAIN tree \cup {<<>>} /\ Front(<<b>>) = <<>>
    BY <1>2, FlatMkdir, SingleFront
  <2> HIDE DEF t
  <2>4. \/ tree' \in {tree, t} /\ UNCHANGED bin
        \/ tree' = RenamedTo(bin, to, t, <<b>>) /\ bin' = RenamedFrom(bin, to, t, <<b>>)
    BY <1>4, <2>2, <2>3 DEF RestoreDisk, t
  <2>5. /\ Flat(tree') /\ Flat(bin')
        /\ DOMAIN tree' \subseteq DOMAIN tree \cup {<<>>} \cup {<<b>>}
    <3>1. CASE tree' \in {tree, t} /\ UNCHANGED bin
      BY <1>2, <2>3, <3>1
    <3>2. CASE tree' = RenamedTo(bin, to, t, <<b>>) /\ bin' = RenamedFrom(bin, to, t, <<b>>)
      <4>1. /\ Flat(RenamedTo(bin, to, t, <<b>>)) /\ Flat(RenamedFrom(bin, to, t, <<b>>))
            /\ DOMAIN RenamedTo(bin, to, t, <<b>>) \subseteq DOMAIN t \cup {<<b>>}
        BY <1>2, <2>3, FlatRename
      <4> QED BY <2>3, <3>2, <4>1
    <3> QED BY <2>4, <3>1, <3>2
  <2>6. \A x \in DOMAIN tree' :
           \/ x \in DOMAIN tree \cup {<<>>}
           \/ x = cmd[p].dst /\ cmd[p].pc \in Placing
    BY <2>1, <2>2, <2>5 DEF Placing
  <2>7. cmd[p].pc # "blobWrite"
    BY <2>1
  <2> QED BY <1>1, <2>1, <2>5, <2>6, <2>7, PlacedStep
<1> QED BY <1>3, <1>4

\* A command that only ends, or writes rows of files and ends.
LEMMA EndKeepsBlobs ==
  ASSUME CmdOK, BlobInv, NEW p \in Procs, Done(p), cmd[p].pc # "blobWrite",
         UNCHANGED <<folders, disk>>
  PROVE  BlobInv'
<1>1. UNCHANGED <<tree, bin, blobs, data>>
  BY DEF disk
<1>2. Flat(tree') /\ Flat(bin')
  BY <1>1 DEF BlobInv
<1> QED BY <1>1, <1>2, PlacedStep

LEMMA FileRowsKeepBlobs ==
  ASSUME CmdOK, BlobInv, NEW p \in Procs,
         MoveRow(p) \/ RenameRow(p) \/ InsertFile(p) \/ BinRow(p) \/ RestoreRow(p) \/ PurgeRows(p)
  PROVE  BlobInv'
<1>1. /\ Done(p) /\ UNCHANGED <<folders, disk>>
      /\ cmd[p].pc \in {"moveRow", "renameRow", "insertFile", "binRow", "restoreRow", "purgeRows"}
  BY DEF MoveRow, RenameRow, InsertFile, BinRow, RestoreRow, PurgeRows, At
<1>2. cmd[p].pc # "blobWrite"
  BY <1>1
<1> QED BY <1>1, <1>2, EndKeepsBlobs

\* Opening a blob tears it, and its writer is the witness that it is being written.
LEMMA BlobOpenKeepsBlobs ==
  ASSUME CmdOK, DiskOK, BlobInv, NEW p \in Procs, BlobOpen(p)
  PROVE  BlobInv'
<1> PICK h : h = cmd[p].hash
  OBVIOUS
<1> PICK c : c = [cmd[p] EXCEPT !.pc = "blobWrite"]
  OBVIOUS
<1>1. /\ UNCHANGED <<folders, tree, bin>> /\ cmd' = [cmd EXCEPT ![p] = c]
      /\ cmd[p].pc = "blobOpen" /\ PlaceOK(cmd[p]) /\ cmd[p] \in Command
  BY DEF BlobOpen, rows, At, Goto, CmdOK, LocalsOK, BlobInv
<1>2. /\ c.pc = "blobWrite" /\ c.hash = h /\ c.dst = cmd[p].dst
      /\ c.folder = cmd[p].folder /\ c.name = cmd[p].name
  BY <1>1 DEF Command
<1>3. PlaceOK(c)'
  BY <1>1, <1>2 DEF PlaceOK, PathIn, DirOf, Root, FilePCs, Placing, Taking, Leaving
<1>4. \A q \in Procs \ {p} : cmd[q].pc \in Placing => cmd[q].dst # c.dst
  BY <1>1, <1>2 DEF BlobInv, PlacesApart, Placing, Taking
<1>5. (\A q \in Procs : PlaceOK(cmd[q])') /\ PlacesApart'
  BY <1>1, <1>3, <1>4, OthersKeepPlaces
<1>6. /\ cmd'[p] = c /\ \A q \in Procs : cmd[q].pc = "blobWrite" => cmd'[q] = cmd[q]
  BY <1>1 DEF CmdOK
<1>7. \A g \in DOMAIN blobs : blobs[g] \in 1..Len(data)
  BY DEF DiskOK, Inodes
<1>8. OneBlobEach /\ BlobIntegrity
  BY DEF BlobInv
<1>9. DOMAIN data = 1..Len(data) /\ Len(data) \in Nat
  BY DEF DiskOK
<1>10. CASE h \in DOMAIN blobs /\ data' = [data EXCEPT ![blobs[h]] = Torn] /\ UNCHANGED blobs
  <2>1. OneBlobEach'
    BY <1>8, <1>10 DEF OneBlobEach
  <2>2. \A g \in DOMAIN blobs \ {h} : data'[blobs[g]] = data[blobs[g]]
    BY <1>7, <1>8, <1>9, <1>10 DEF OneBlobEach
  <2>3. ASSUME NEW g \in DOMAIN blobs'
        PROVE  \/ data'[blobs'[g]] = g
               \/ \E q \in Procs : cmd'[q].hash = g /\ cmd'[q].pc = "blobWrite"
    <3>1. CASE g = h
      BY <1>2, <1>6, <3>1
    <3>2. CASE g # h
      <4>1. blobs'[g] = blobs[g] /\ g \in DOMAIN blobs /\ data'[blobs[g]] = data[blobs[g]]
        BY <1>10, <2>2, <3>2
      <4>2. \/ data[blobs[g]] = g
            \/ \E q \in Procs : cmd[q].hash = g /\ cmd[q].pc = "blobWrite"
        BY <1>8, <4>1 DEF BlobIntegrity, Busy
      <4> QED BY <1>6, <4>1, <4>2
    <3> QED BY <3>1, <3>2
  <2>4. BlobIntegrity'
    BY <2>3 DEF BlobIntegrity, Busy
  <2> QED BY <1>1, <1>5, <2>1, <2>4 DEF BlobInv
<1>11. CASE /\ h \notin DOMAIN blobs /\ data' = Append(data, Torn)
            /\ blobs' = [g \in DOMAIN blobs \cup {h} |-> IF g = h THEN Len(data) + 1 ELSE blobs[g]]
  <2>1. /\ DOMAIN blobs' = DOMAIN blobs \cup {h} /\ blobs'[h] = Len(data) + 1
        /\ \A g \in DOMAIN blobs : g # h /\ blobs'[g] = blobs[g]
    BY <1>11
  <2>2. Len(data) + 1 \notin 1..Len(data)
    BY <1>9
  <2>3. OneBlobEach'
    BY <1>7, <1>8, <2>1, <2>2 DEF OneBlobEach
  <2>4. \A i \in 1..Len(data) : data'[i] = data[i]
    BY <1>11 DEF DiskOK
  <2>5. \A g \in DOMAIN blobs : data'[blobs'[g]] = data[blobs[g]]
    BY <1>7, <2>1, <2>4
  <2>6. ASSUME NEW g \in DOMAIN blobs'
        PROVE  \/ data'[blobs'[g]] = g
               \/ \E q \in Procs : cmd'[q].hash = g /\ cmd'[q].pc = "blobWrite"
    <3>1. CASE g = h
      BY <1>2, <1>6, <3>1
    <3>2. CASE g \in DOMAIN blobs
      BY <1>6, <1>8, <2>5, <3>2 DEF BlobIntegrity, Busy
    <3> QED BY <2>1, <3>1, <3>2
  <2>7. BlobIntegrity'
    BY <2>6 DEF BlobIntegrity, Busy
  <2> QED BY <1>1, <1>5, <2>3, <2>7 DEF BlobInv
<1> QED BY <1>10, <1>11 DEF BlobOpen

\* Writing a blob mends it, and touches no other.
LEMMA BlobWriteKeepsBlobs ==
  ASSUME CmdOK, DiskOK, BlobsHeld, BlobInv, NEW p \in Procs, BlobWrite(p)
  PROVE  BlobInv'
<1> PICK h : h = cmd[p].hash
  OBVIOUS
<1> PICK c : c = [cmd[p] EXCEPT !.pc = "link"]
  OBVIOUS
<1>1. /\ UNCHANGED <<folders, tree, bin, blobs>>
      /\ cmd[p].pc = "blobWrite" /\ PlaceOK(cmd[p]) /\ cmd[p] \in Command
      /\ h \in DOMAIN blobs /\ data' = [data EXCEPT ![blobs[h]] = h]
  BY DEF BlobWrite, rows, At, CmdOK, LocalsOK, BlobInv, BlobsHeld, HoldsBlob
<1>2. /\ c.pc = "link" /\ c.dst = cmd[p].dst
      /\ c.folder = cmd[p].folder /\ c.name = cmd[p].name
  BY <1>1 DEF Command
<1>3. cmd[p].folder = Root /\ cmd[p].dst = PathIn(Root, cmd[p].name)
  BY <1>1 DEF PlaceOK, Taking
<1>4. cmd' = [cmd EXCEPT ![p] = c]
  <2>1. Listed(cmd[p].folder)
    BY <1>3 DEF Listed
  <2>2. cmd' = [cmd EXCEPT ![p].pc = "link", ![p].dst = PathIn(cmd[p].folder, cmd[p].name)]
    BY <2>1 DEF BlobWrite
  <2>3. [cmd[p] EXCEPT !.pc = "link", !.dst = PathIn(cmd[p].folder, cmd[p].name)] = c
    BY <1>1, <1>3 DEF Command
  <2> QED BY <2>2, <2>3 DEF CmdOK
<1>5. PlaceOK(c)'
  BY <1>1, <1>2 DEF PlaceOK, PathIn, DirOf, Root, FilePCs, Placing, Taking, Leaving
<1>6. \A q \in Procs \ {p} : cmd[q].pc \in Placing => cmd[q].dst # c.dst
  BY <1>1, <1>2 DEF BlobInv, PlacesApart, Placing, Taking
<1>7. (\A q \in Procs : PlaceOK(cmd[q])') /\ PlacesApart'
  BY <1>1, <1>4, <1>5, <1>6, OthersKeepPlaces
<1>8. \A q \in Procs \ {p} : cmd'[q] = cmd[q]
  BY <1>4 DEF CmdOK
<1>9. /\ OneBlobEach /\ BlobIntegrity /\ DOMAIN data = 1..Len(data)
      /\ \A g \in DOMAIN blobs : blobs[g] \in 1..Len(data)
  BY DEF DiskOK, Inodes, BlobInv
<1>10. OneBlobEach'
  BY <1>1, <1>9 DEF OneBlobEach
<1>11. data'[blobs[h]] = h /\ \A g \in DOMAIN blobs \ {h} : data'[blobs[g]] = data[blobs[g]]
  BY <1>1, <1>9 DEF OneBlobEach
<1>12. ASSUME NEW g \in DOMAIN blobs'
       PROVE  \/ data'[blobs'[g]] = g
              \/ \E q \in Procs : cmd'[q].hash = g /\ cmd'[q].pc = "blobWrite"
  <2>1. CASE g = h
    BY <1>1, <1>11, <2>1
  <2>2. CASE g # h
    <3>1. \/ data[blobs[g]] = g
          \/ \E q \in Procs : cmd[q].hash = g /\ cmd[q].pc = "blobWrite"
      BY <1>1, <1>9 DEF BlobIntegrity, Busy
    <3>2. \A q \in Procs : cmd[q].hash = g => q # p
      BY <2>2
    <3> QED BY <1>1, <1>8, <1>11, <2>2, <3>1, <3>2
  <2> QED BY <2>1, <2>2
<1>13. BlobIntegrity'
  BY <1>12 DEF BlobIntegrity, Busy
<1> QED BY <1>1, <1>7, <1>10, <1>13 DEF BlobInv

LEMMA EnvironmentKeepsBlobs ==
  ASSUME FreeFileNames, CmdOK, BlobInv,
         (\E p \in Procs : StepFails(p)) \/ Tick \/ Crash \/ UNCHANGED vars
  PROVE  BlobInv'
<1>1. ASSUME NEW p \in Procs, StepFails(p) PROVE BlobInv'
  <2>1. Done(p) /\ UNCHANGED <<folders, disk>> /\ cmd[p].pc # "blobWrite"
    BY <1>1 DEF StepFails, rows, FreeFileNames
  <2> QED BY <2>1, EndKeepsBlobs
<1>2. CASE Tick \/ UNCHANGED vars
  <2>1. UNCHANGED <<folders, tree, bin, blobs, data, cmd>>
    BY <1>2 DEF Tick, vars, rows, disk
  <2>2. BlobIntegrity' /\ OneBlobEach' /\ PlacesApart'
    BY <2>1 DEF BlobInv, BlobIntegrity, Busy, OneBlobEach, PlacesApart
  <2>3. \A q \in Procs : PlaceOK(cmd[q])'
    BY <2>1 DEF BlobInv, PlaceOK, PathIn, DirOf
  <2> QED BY <2>1, <2>2, <2>3 DEF BlobInv
<1>3. CASE Crash
  <2>1. /\ UNCHANGED <<folders, tree, bin, blobs, data>> /\ \A q \in Procs : cmd'[q] = Idle
        /\ \A q \in Procs : cmd[q].pc # "blobWrite"
    BY <1>3 DEF Crash, rows, disk, Busy, FreeFileNames
  <2>2. BlobIntegrity' /\ OneBlobEach'
    BY <2>1 DEF BlobInv, BlobIntegrity, Busy, OneBlobEach
  <2>3. Idle.pc = "idle"
    BY DEF Idle
  <2>4. PlacesApart' /\ \A q \in Procs : PlaceOK(cmd[q])'
    BY <2>1, <2>3 DEF PlacesApart, PlaceOK, FilePCs, Placing, Taking, Leaving
  <2> QED BY <2>1, <2>2, <2>4 DEF BlobInv
<1> QED BY <1>1, <1>2, <1>3

LEMMA BlobInit == ASSUME Init PROVE BlobInv
<1>1. /\ DOMAIN folders = {} /\ DOMAIN tree = {<<>>} /\ DOMAIN bin = {<<>>} /\ DOMAIN blobs = {}
      /\ \A p \in Procs : cmd[p] = Idle
  BY DEF Init, EmptyTree
<1>2. Flat(tree) /\ Flat(bin)
  BY <1>1 DEF Flat, Single
<1>3. OneBlobEach /\ BlobIntegrity
  BY <1>1 DEF OneBlobEach, BlobIntegrity
<1>4. PlacesApart /\ \A p \in Procs : PlaceOK(cmd[p])
  BY <1>1, IdlePlace DEF PlacesApart, Placing, Taking
<1> QED BY <1>1, <1>2, <1>3, <1>4 DEF BlobInv

LEMMA UnreachedSteps ==
  ASSUME FreeFileNames, BlobInv, NEW p \in Procs
  PROVE  ~FolderCommand(p) /\ ~CopyOpen(p) /\ ~CopyWrite(p)
<1>1. cmd[p].pc \in FilePCs
  BY DEF BlobInv, PlaceOK
<1>2. ~CopyOpen(p) /\ ~CopyWrite(p)
  BY <1>1 DEF FilePCs, CopyOpen, CopyWrite, At
<1>3. ~MakeDir(p) /\ ~InsertFolder(p) /\ ~RenameDir(p) /\ ~UpdateFolder(p) /\ ~UpdateBelow(p)
  BY <1>1 DEF FilePCs, MakeDir, InsertFolder, RenameDir, UpdateFolder, UpdateBelow, At
<1>4. ~BinDir(p) /\ ~BinFiles(p) /\ ~DropFolders(p)
  BY <1>1 DEF FilePCs, BinDir, BinFiles, DropFolders, At
<1> QED BY <1>2, <1>3, <1>4, FolderStartsBlobs DEF FolderCommand

LEMMA BlobNext ==
  ASSUME FreeFileNames, StoreInv, BlobInv, [Next]_vars
  PROVE  BlobInv'
<1> USE StoreInvParts
<1>1. ASSUME NEW p \in Procs, FileCommand(p) PROVE BlobInv'
  BY <1>1, UnreachedSteps, FileStartsBlobs, MovesKeepBlobs, LinkKeepsBlobs, BlobOpenKeepsBlobs,
     BlobWriteKeepsBlobs, FileRowsKeepBlobs
  DEF FileCommand
<1>2. ASSUME NEW p \in Procs, BinCommand(p) PROVE BlobInv'
  BY <1>2, BinStartsBlobs, BinMovesKeepBlobs, FileRowsKeepBlobs DEF BinCommand
<1> QED BY <1>1, <1>2, UnreachedSteps, EnvironmentKeepsBlobs DEF Next

\* A blob that no ingest is writing holds the bytes of its hash (fsops.rs:4), for any number
\* of file commands in flight, ingests of the same bytes among them, and faults anywhere but
\* in the write of a blob, as long as users pick free names and there are no folders:
\* hard_link then never fails on a taken name, and the fallback that copies into the inode of
\* another file is never reached.
THEOREM BlobsHoldTheirBytes == FreeFileNames => (Spec => []BlobIntegrity)
<1> SUFFICES ASSUME FreeFileNames PROVE Spec => []BlobIntegrity
  OBVIOUS
<1>1. Init => StoreInv /\ BlobInv
  BY StoreInit, BlobInit
<1>2. StoreInv /\ BlobInv /\ [Next]_vars => (StoreInv /\ BlobInv)'
  BY StoreNext, BlobNext
<1>3. StoreInv /\ BlobInv => BlobIntegrity
  BY DEF BlobInv
<1> QED BY <1>1, <1>2, <1>3, PTL DEF Spec
=============================================================================
