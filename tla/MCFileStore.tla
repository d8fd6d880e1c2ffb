---------------------------- MODULE MCFileStore -----------------------------
(***************************************************************************)
(* Small instances of FileStore.  Names are strings; "b:" and "b?" stand   *)
(* for two names that sanitise() maps to one path component.               *)
(***************************************************************************)
EXTENDS FileStore

MCNames == {"a", "ab", "b:", "b?", "Copy of a"}
MCDiskNames == {"a", "ab", "b_", "Copy of a"}
MCSanitise ==
  [n \in MCNames |-> IF n \in {"b:", "b?"} THEN "b_" ELSE n]
MCCopyName == [n \in {"a"} |-> "Copy of a"]

\* LIKE 'a%' also matches "ab".
MCStartsLike == {<<d, d>> : d \in MCDiskNames} \cup {<<"a", "ab">>}
\* No name of the instance is a prefix of another.
MCPrefixFree == {<<d, d>> : d \in MCDiskNames}

AllCommands == AllOps
FileOps == AllOps \ {"create_folder", "rename_folder", "delete_folder"}
LateOps == AllOps \ {"copy_file"}

\* The contents are interchangeable.
MCSymmetry == Permutations(Contents)
\* So are the commands in flight.
MCProcSymmetry == Permutations(Procs)

\* The steps of the commands on one file whose failure costs that file alone: not the write
\* of a blob, whose damage every later file of the same bytes shares, and not empty_bin's
\* DELETE, without which every binned row is left without its entry.
FilePoints == {"moveDisk", "moveRow", "renameDisk", "renameRow", "blobOpen", "link", "copyOpen",
               "copyWrite", "insertFile", "binDisk", "binRow", "restoreDisk", "restoreRow"}
=============================================================================
