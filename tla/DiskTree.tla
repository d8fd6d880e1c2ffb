------------------------------ MODULE DiskTree ------------------------------
(***************************************************************************)
(* The calls src-tauri/src/fsops.rs makes on the file system, as operators *)
(* on trees.  A tree maps the paths that exist to nodes; a path is the     *)
(* sequence of its components below some root, so <<>> is the root itself. *)
(* A node is Dir or the number of an inode: two paths with the same number *)
(* are hard links of one file.  The rules are those of the POSIX targets   *)
(* (deb, appimage, dmg): rename(2) replaces a file or an empty directory,  *)
(* and does nothing when both names are links of the same inode.           *)
(***************************************************************************)
EXTENDS Naturals, SequencesExt

Dir == 0

IsDir(t, p)  == p \in DOMAIN t /\ t[p] = Dir
IsFile(t, p) == p \in DOMAIN t /\ t[p] # Dir

EmptyTree == [p \in {<<>>} |-> Dir]

\* The paths at or below p, the tree they form, and what is left without them.
Below(t, p)   == {q \in DOMAIN t : IsPrefix(p, q)}
Rest(r, p)    == SubSeq(r, Len(p) + 1, Len(r))
Subtree(t, p) ==
  [q \in {Rest(r, p) : r \in Below(t, p)} |-> t[CHOOSE r \in Below(t, p) : Rest(r, p) = q]]
Prune(t, p)   == [q \in DOMAIN t \ Below(t, p) |-> t[q]]
Graft(t, p, s) ==
  [q \in DOMAIN t \cup {p \o r : r \in DOMAIN s} |->
     IF q \in DOMAIN t THEN t[q] ELSE s[CHOOSE r \in DOMAIN s : p \o r = q]]

\* create_dir_all: every missing prefix becomes a directory; a file in the way is an error.
CanMkdirAll(t, p) == \A q \in Prefixes(p) : ~IsFile(t, q)
MkdirAll(t, p) ==
  [q \in DOMAIN t \cup Prefixes(p) |-> IF q \in DOMAIN t THEN t[q] ELSE Dir]

\* hard_link and the creation of a file: one more name for inode i.
AddFile(t, p, i) == [q \in DOMAIN t \cup {p} |-> IF q = p THEN i ELSE t[q]]

\* May rename put the tree s at path p of t?
CanPlace(s, t, p) ==
  /\ p # <<>> /\ IsDir(t, Front(p))
  /\ \/ p \notin DOMAIN t
     \/ IsFile(s, <<>>) /\ IsFile(t, p)
     \/ IsDir(s, <<>>) /\ IsDir(t, p) /\ Below(t, p) = {p}

\* Both names are links of one inode: rename succeeds and changes nothing.
SameFile(s, a, t, b) == IsFile(s, a) /\ IsFile(t, b) /\ s[a] = t[b]

CanRename(s, a, t, b) == a \in DOMAIN s /\ CanPlace(Subtree(s, a), t, b)

\* rename(a, b) between two trees: what becomes of the source and of the target.
RenamedFrom(s, a, t, b) == IF SameFile(s, a, t, b) THEN s ELSE Prune(s, a)
RenamedTo(s, a, t, b) ==
  IF SameFile(s, a, t, b) THEN t ELSE Graft(Prune(t, b), b, Subtree(s, a))

\* rename(a, b) inside one tree.
CanMove(t, a, b) ==
  \/ a = b /\ a \in DOMAIN t
  \/ ~IsPrefix(a, b) /\ CanRename(t, a, t, b)
Move(t, a, b) ==
  IF a = b \/ SameFile(t, a, t, b)
    THEN t
    ELSE Graft(Prune(Prune(t, b), a), b, Subtree(t, a))
=============================================================================
