----------------------- MODULE FileStoreMirrorProofs ------------------------
(***************************************************************************)
(* fsops.rs:3, "Files under vault/files/ mirror what the UI shows", and    *)
(* vault.rs:22, "bin/ soft-deleted (restorable)", for one careful user     *)
(* whose names do not start one another: what holds as long as nothing     *)
(* fails, and how much of it the commands that fail can undo.              *)
(***************************************************************************)
EXTENDS FileStoreTreeProofs, FiniteSetTheorems

-----------------------------------------------------------------------------
(* The invariant: the rows as they will be when the command in flight is    *)
(* done are mirrored by the tree and the bin as they are now.               *)

\* The tables as they will be when the command in flight is done.
FoldersDue(F, n, c) ==
  IF c.pc = "insertFolder"
    THEN [g \in DOMAIN F \cup {n} |->
            IF g = n THEN [name |-> c.name, parent |-> c.folder, path |-> c.dst] ELSE F[g]]
    ELSE Settled(F, c)

RowDue(r, c) ==
  CASE c.pc = "moveRow"    -> [r EXCEPT !.folder = c.folder]
    [] c.pc = "renameRow"  -> [r EXCEPT !.name = c.name]
    [] c.pc = "binRow"     -> [r EXCEPT !.binned = TRUE, !.from = c.folder]
    [] c.pc = "restoreRow" -> [r EXCEPT !.binned = FALSE, !.folder = r.from, !.from = Root]
RowSteps == {"moveRow", "renameRow", "binRow", "restoreRow"}

FilesDue(F, G, n, c) ==
  IF c.pc = "insertFile"
    THEN [f \in DOMAIN G \cup {n} |->
            IF f = n THEN [hash |-> c.hash, name |-> c.name, folder |-> c.folder,
                           from |-> Root, binned |-> FALSE]
            ELSE G[f]]
  ELSE IF c.pc = "binFiles"
    THEN [f \in DOMAIN G |->
            IF G[f].folder \in DoomedOf(F, c.folder, c.src)
              THEN [G[f] EXCEPT !.binned = TRUE, !.from = G[f].folder] ELSE G[f]]
  ELSE IF c.pc = "purgeRows"
    THEN [f \in {g \in DOMAIN G : ~G[g].binned} |-> G[f]]
  ELSE IF c.pc \in RowSteps
    THEN [f \in DOMAIN G |-> IF f = c.file THEN RowDue(G[f], c) ELSE G[f]]
  ELSE G

\* The tree t, with contents D, mirrors the rows but for what failed commands left: the rows
\* X, which have no file, and the paths Y, which have no row.
Alive(G, f) == f \in DOMAIN G /\ ~G[f].binned
Filed(F, G, t, D, X, f) ==
  IF f \in X THEN RowPath(F, G, f) \notin DOMAIN t
  ELSE IsFile(t, RowPath(F, G, f)) /\ D[t[RowPath(F, G, f)]] = G[f].hash
InPlace(F, G, t, D, X) ==
  \A f \in DOMAIN G : Alive(G, f) => Has(F, G[f].folder) /\ Filed(F, G, t, D, X, f)
RowsApart(F, G) ==
  \A f, g \in DOMAIN G : Alive(G, f) /\ Alive(G, g) /\ RowPath(F, G, f) = RowPath(F, G, g) => f = g
InAFolder(F, q) == \E d : Has(F, d) /\ \E n \in DiskNames : q = Append(PathOf(F, d), n)
NothingElse(F, G, t, Y) ==
  \A q \in DOMAIN t : \/ q = <<>> \/ q \in FolderPaths(F)
                      \/ \E f \in DOMAIN G : Alive(G, f) /\ q = RowPath(F, G, f)
                      \/ q \in Y /\ InAFolder(F, q)
Mirrors(F, G, t, D, X, Y) ==
  /\ InPlace(F, G, t, D, X) /\ RowsApart(F, G) /\ NothingElse(F, G, t, Y)
  /\ OnDisk(F, t) /\ IsDir(t, <<>>)

\* The bin s holds the files of the binned rows that can be restored; nothing in it looks
\* like the file of a row of X.
Kept(F, G, f) == f \in DOMAIN G /\ G[f].binned /\ Has(F, G[f].from)
IsEntry(G, s, D, f, e) ==
  /\ e \in Slots /\ e[2] = Sanitise[G[f].name]
  /\ IsFile(s, <<e>>) /\ D[s[<<e>>]] = G[f].hash
Holds(F, G, s, D, X) ==
  /\ \A f \in DOMAIN G : Kept(F, G, f) =>
       IF f \in X THEN \A e \in Slots : <<e>> \in DOMAIN s => e[2] # Sanitise[G[f].name]
       ELSE \E e \in Slots : IsEntry(G, s, D, f, e)
  /\ \A f, g \in DOMAIN G :
       Kept(F, G, f) /\ Kept(F, G, g) /\ Sanitise[G[f].name] = Sanitise[G[g].name] => f = g
EntriesApart(s) ==
  /\ \A e, d \in Slots : <<e>> \in DOMAIN s /\ <<d>> \in DOMAIN s /\ e[2] = d[2] => e = d
  /\ \A e \in Slots, q \in DOMAIN s : IsFile(s, <<e>>) /\ IsPrefix(<<e>>, q) => q = <<e>>

Minted(G, n) == \A f \in DOMAIN G : G[f].folder < n /\ G[f].from < n

BlobsGood(B, D, c) ==
  /\ \A h \in DOMAIN B :
       IF c.pc = "blobWrite" /\ c.hash = h THEN D[B[h]] = Torn ELSE D[B[h]] = h
  /\ c.pc = "blobOpen" => c.hash \notin DOMAIN B

Arriving == {"mkdir", "renameDir", "blobOpen", "blobWrite", "link", "moveDisk", "renameDisk", "restoreDisk"}
Departing == {"moveDisk", "renameDisk", "binDisk"}
Binning == {"binDir", "binDisk"}
Ready(F, G, t, s, D, c, X) ==
  /\ c.pc \notin {"copyOpen", "copyWrite"}
  /\ c.pc \in Arriving => /\ c.dst \notin DOMAIN t
                          /\ \A f : Alive(G, f) => RowPath(F, G, f) # c.dst
  /\ c.pc \in Departing => Alive(G, c.file) /\ c.src = RowPath(F, G, c.file)
  /\ c.pc \in Binning => /\ c.slot \in Slots
                         /\ \A e \in Slots : <<e>> \in DOMAIN s => e[2] # c.slot[2]
                         /\ \A f : Kept(F, G, f) => Sanitise[G[f].name] # c.slot[2]
  /\ c.pc = "binDisk" => c.folder = G[c.file].folder /\ c.slot[2] = Sanitise[G[c.file].name]
  /\ c.pc = "restoreDisk" => /\ Kept(F, G, c.file)
                             /\ IF c.file \in X THEN c.slot = Nil ELSE IsEntry(G, s, D, c.file, c.slot)

-----------------------------------------------------------------------------
(* Trees that differ in one file.                                           *)

Agree(t, u) == DOMAIN u = DOMAIN t /\ \A q \in DOMAIN t : u[q] = t[q]
Without(t, a, u) == DOMAIN u = DOMAIN t \ {a} /\ \A q \in DOMAIN u : u[q] = t[q]
With(t, b, i, u) ==
  /\ DOMAIN u = DOMAIN t \cup {b} /\ u[b] = i
  /\ \A q \in DOMAIN t : q # b => u[q] = t[q]
Leaf(t, a) == a \in DOMAIN t /\ \A q \in DOMAIN t : IsPrefix(a, q) => q = a

LEMMA LeafSubtree ==
  ASSUME NEW S, NEW t, DOMAIN t \subseteq Seq(S), NEW a \in Seq(S), Leaf(t, a)
  PROVE  DOMAIN Subtree(t, a) = {<<>>} /\ Subtree(t, a)[<<>>] = t[a]
<1>1. a \o <<>> = a /\ <<>> \in Seq(S)
  BY ConcatEmptySeq, EmptySeq
<1>2. ASSUME NEW r \in DOMAIN Subtree(t, a) PROVE r = <<>>
  <2>1. r \in Seq(S) /\ a \o r \in DOMAIN t
    BY <1>2, SubtreeEffect
  <2>2. IsPrefix(a, a \o r)
    BY <2>1, ConcatPrefix
  <2>3. a \o r = a \o <<>>
    BY <1>1, <2>1, <2>2 DEF Leaf
  <2> QED BY <1>1, <2>1, <2>3, ConcatCancel
<1>3. <<>> \in DOMAIN Subtree(t, a)
  BY <1>1, SubtreeEffect DEF Leaf
<1>4. Subtree(t, a)[<<>>] = t[a \o <<>>]
  BY <1>3, SubtreeEffect
<1> QED BY <1>1, <1>2, <1>3, <1>4

LEMMA LeafPruned ==
  ASSUME NEW S, NEW t, DOMAIN t \subseteq Seq(S), NEW a \in Seq(S), Leaf(t, a)
  PROVE  Without(t, a, Prune(t, a))
<1>1. IsPrefix(a, a)
  BY PrefixOrder
<1>2. Below(t, a) = {a}
  BY <1>1 DEF Below, Leaf
<1> QED BY <1>2 DEF Prune, Without

LEMMA LeafMoved ==
  ASSUME NEW S, NEW t, DOMAIN t \subseteq Seq(S), NEW a \in Seq(S), NEW b \in Seq(S),
         Leaf(t, a), Clear(t, b)
  PROVE  \E u : Without(t, a, u) /\ With(u, b, t[a], Move(t, a, b))
<1>1. IsPrefix(a, a) /\ IsPrefix(b, b)
  BY PrefixOrder
<1>2. a # b /\ ~SameFile(t, a, t, b)
  BY <1>1 DEF Leaf, Clear, SameFile, IsFile
<1>3. PICK s, m : s = Subtree(t, a) /\ m = Move(t, a, b)
  OBVIOUS
<1>4. Placed(S, t, {a}, b, s, m)
  BY <1>2, <1>3, MoveEffect
<1>5. DOMAIN s = {<<>>} /\ s[<<>>] = t[a]
  BY <1>3, LeafSubtree
<1>6. b \o <<>> = b
  BY ConcatEmptySeq
<1>7. m[b] = t[a] /\ b \in DOMAIN m
  BY <1>4, <1>5, <1>6 DEF Placed
<1>8. \A q \in DOMAIN t : ~IsPrefix(b, q) /\ (IsPrefix(a, q) <=> q = a)
  BY <1>1 DEF Leaf, Clear
<1>9. \A q \in DOMAIN t \ {a} : q \in DOMAIN m /\ m[q] = t[q]
  BY <1>4, <1>8 DEF Placed
<1>10. \A q \in DOMAIN m : q \in DOMAIN t \ {a} \/ q = b
  <2> SUFFICES ASSUME NEW q \in DOMAIN m PROVE q \in DOMAIN t \ {a} \/ q = b
    OBVIOUS
  <2>1. CASE q \in DOMAIN t /\ ~IsPrefix(a, q)
    BY <1>1, <2>1
  <2>2. CASE \E r \in DOMAIN s : q = b \o r
    BY <1>5, <1>6, <2>2
  <2> QED BY <1>4, <2>1, <2>2 DEF Placed
<1>11. PICK u : u = [q \in DOMAIN t \ {a} |-> t[q]]
  OBVIOUS
<1>12. Without(t, a, u)
  BY <1>11 DEF Without
<1>13. With(u, b, t[a], m)
  BY <1>7, <1>9, <1>10, <1>11 DEF With
<1> QED BY <1>3, <1>12, <1>13

LEMMA LeafRenamed ==
  ASSUME NEW S, NEW s, DOMAIN s \subseteq Seq(S), NEW a \in Seq(S), Leaf(s, a),
         NEW t, DOMAIN t \subseteq Seq(S), NEW b \in Seq(S), Clear(t, b)
  PROVE  /\ With(t, b, s[a], RenamedTo(s, a, t, b))
         /\ Without(s, a, RenamedFrom(s, a, t, b))
<1>1. IsPrefix(a, a) /\ IsPrefix(b, b)
  BY PrefixOrder
<1>2. ~SameFile(s, a, t, b)
  BY <1>1 DEF Clear, SameFile, IsFile
<1>3. PICK v, m : v = Subtree(s, a) /\ m = RenamedTo(s, a, t, b)
  OBVIOUS
<1>4. Placed(S, t, {}, b, v, m) /\ RenamedFrom(s, a, t, b) = Prune(s, a)
  BY <1>2, <1>3, RenameEffect
<1>5. DOMAIN v = {<<>>} /\ v[<<>>] = s[a]
  BY <1>3, LeafSubtree
<1>6. b \o <<>> = b
  BY ConcatEmptySeq
<1>7. m[b] = s[a] /\ b \in DOMAIN m
  BY <1>4, <1>5, <1>6 DEF Placed
<1>8. \A q \in DOMAIN t : q \in DOMAIN m /\ m[q] = t[q]
  BY <1>4 DEF Placed, Clear
<1>9. \A q \in DOMAIN m : q \in DOMAIN t \/ q = b
  BY <1>4, <1>5, <1>6 DEF Placed
<1>10. With(t, b, s[a], m)
  BY <1>7, <1>8, <1>9 DEF With
<1>11. Without(s, a, Prune(s, a))
  BY LeafPruned
<1> QED BY <1>3, <1>4, <1>10, <1>11
-----------------------------------------------------------------------------
(* A tree that mirrors the rows, when one file or one row changes.          *)

\* But for f, the live rows of G and H are the same.
SameBut(G, H, f) ==
  \A g : g # f => /\ Alive(H, g) <=> Alive(G, g)
                  /\ Alive(G, g) => /\ H[g].folder = G[g].folder /\ H[g].name = G[g].name
                                    /\ H[g].hash = G[g].hash

LEMMA AgreeMirrors ==
  ASSUME NEW F, NEW G, NEW t, NEW D, NEW X, NEW Y, Mirrors(F, G, t, D, X, Y), NEW u, Agree(t, u)
  PROVE  Mirrors(F, G, u, D, X, Y)
BY DEF Agree, Mirrors, InPlace, Filed, NothingElse, OnDisk, IsDir, IsFile

LEMMA FileLeaves ==
  ASSUME NEW F, NEW G, NEW t, NEW D, NEW X, NEW Y, Mirrors(F, G, t, D, X, Y),
         NEW f, Alive(G, f), NEW H, SameBut(G, H, f), ~Alive(H, f),
         NEW u, Without(t, RowPath(F, G, f), u)
  PROVE  Mirrors(F, H, u, D, X, Y)
<1> PICK a : a = RowPath(F, G, f)
  OBVIOUS
<1>1. \A g : Alive(H, g) => /\ Alive(G, g) /\ g # f /\ RowPath(F, H, g) = RowPath(F, G, g)
                            /\ H[g].folder = G[g].folder /\ H[g].hash = G[g].hash
  BY DEF SameBut, RowPath
<1>2. ~IsDir(t, a) /\ \A g : Alive(H, g) => RowPath(F, H, g) # a
  BY <1>1 DEF Mirrors, InPlace, Filed, RowsApart, Alive, IsDir, IsFile
<1>3. InPlace(F, H, u, D, X)
  BY <1>1, <1>2 DEF Mirrors, InPlace, Filed, Without, IsFile, Alive
<1>4. RowsApart(F, H)
  BY <1>1 DEF Mirrors, RowsApart, Alive
<1>5. NothingElse(F, H, u, Y)
  <2> SUFFICES ASSUME NEW q \in DOMAIN u, q # <<>>, q \notin FolderPaths(F), ~(q \in Y /\ InAFolder(F, q))
               PROVE  \E g \in DOMAIN H : Alive(H, g) /\ q = RowPath(F, H, g)
    BY DEF NothingElse
  <2>1. q \in DOMAIN t /\ q # a
    BY DEF Without
  <2>2. PICK g \in DOMAIN G : Alive(G, g) /\ q = RowPath(F, G, g)
    BY <2>1 DEF Mirrors, NothingElse
  <2>3. Alive(H, g)
    BY <2>1, <2>2 DEF SameBut
  <2> QED BY <1>1, <2>2, <2>3 DEF Alive
<1>6. OnDisk(F, u)
  BY <1>2 DEF Mirrors, OnDisk, IsDir, Without
<1>7. IsDir(u, <<>>)
  BY <1>2 DEF Mirrors, IsDir, Without
<1> QED BY <1>3, <1>4, <1>5, <1>6, <1>7 DEF Mirrors

LEMMA FileComes ==
  ASSUME NEW F, NEW G, NEW t, NEW D, NEW X, NEW Y, Mirrors(F, G, t, D, X, Y),
         NEW f, f \notin X, ~Alive(G, f), NEW H, SameBut(G, H, f), Alive(H, f), Has(F, H[f].folder),
         NEW b, b = RowPath(F, H, f), b \notin DOMAIN t, \A g : Alive(G, g) => RowPath(F, G, g) # b,
         NEW i, i # Dir, D[i] = H[f].hash, NEW u, With(t, b, i, u)
  PROVE  Mirrors(F, H, u, D, X, Y)
<1>1. \A g : g # f /\ Alive(H, g) =>
               /\ Alive(G, g) /\ RowPath(F, H, g) = RowPath(F, G, g) /\ RowPath(F, H, g) # b
               /\ H[g].folder = G[g].folder /\ H[g].hash = G[g].hash
  BY DEF SameBut, RowPath
<1>2. \A q \in DOMAIN t : q \in DOMAIN u /\ q # b /\ u[q] = t[q]
  BY DEF With
<1>3. IsFile(u, b) /\ u[b] = i
  BY DEF With, IsFile
<1>4. \A q : q \in DOMAIN u /\ q # b => q \in DOMAIN t
  BY DEF With
<1>5. InPlace(F, H, u, D, X)
  <2> SUFFICES ASSUME NEW g \in DOMAIN H, Alive(H, g)
               PROVE  /\ Has(F, H[g].folder)
                      /\ IF g \in X THEN RowPath(F, H, g) \notin DOMAIN u
                         ELSE IsFile(u, RowPath(F, H, g)) /\ D[u[RowPath(F, H, g)]] = H[g].hash
    BY DEF InPlace, Filed
  <2>1. CASE g = f
    BY <1>3, <2>1
  <2>2. CASE g # f
    <3>1. /\ Has(F, G[g].folder)
          /\ IF g \in X THEN RowPath(F, G, g) \notin DOMAIN t
             ELSE IsFile(t, RowPath(F, G, g)) /\ D[t[RowPath(F, G, g)]] = G[g].hash
      BY <1>1, <2>2 DEF Mirrors, InPlace, Filed, Alive
    <3> QED BY <1>1, <1>2, <1>4, <2>2, <3>1 DEF IsFile
  <2> QED BY <2>1, <2>2
<1>6. RowsApart(F, H)
  <2> SUFFICES ASSUME NEW g, NEW h, Alive(H, g), Alive(H, h), RowPath(F, H, g) = RowPath(F, H, h)
               PROVE  g = h
    BY DEF RowsApart
  <2>1. CASE g # f /\ h # f
    BY <1>1, <2>1 DEF Mirrors, RowsApart, Alive
  <2>2. CASE g = f \/ h = f
    BY <1>1, <2>2
  <2> QED BY <2>1, <2>2
<1>7. NothingElse(F, H, u, Y)
  <2> SUFFICES ASSUME NEW q \in DOMAIN u, q # <<>>, q \notin FolderPaths(F), ~(q \in Y /\ InAFolder(F, q))
               PROVE  \E g \in DOMAIN H : Alive(H, g) /\ q = RowPath(F, H, g)
    BY DEF NothingElse
  <2>1. CASE q = b
    BY <2>1 DEF Alive
  <2>2. CASE q # b
    <3>1. PICK g \in DOMAIN G : Alive(G, g) /\ q = RowPath(F, G, g)
      BY <2>2 DEF Mirrors, NothingElse, With
    <3>2. Alive(H, g) /\ g # f
      BY <3>1 DEF SameBut
    <3> QED BY <1>1, <3>1, <3>2 DEF Alive
  <2> QED BY <2>1, <2>2
<1>8. OnDisk(F, u) /\ IsDir(u, <<>>)
  BY <1>2 DEF Mirrors, OnDisk, IsDir
<1> QED BY <1>5, <1>6, <1>7, <1>8 DEF Mirrors

\* A row of X comes without a file.
LEMMA RowComes ==
  ASSUME NEW F, NEW G, NEW t, NEW D, NEW X, NEW Y, Mirrors(F, G, t, D, X, Y),
         NEW f \in X, ~Alive(G, f), NEW H, SameBut(G, H, f), Alive(H, f), Has(F, H[f].folder),
         NEW b, b = RowPath(F, H, f), b \notin DOMAIN t, \A g : Alive(G, g) => RowPath(F, G, g) # b
  PROVE  Mirrors(F, H, t, D, X, Y)
<1>1. \A g : g # f /\ Alive(H, g) =>
               /\ Alive(G, g) /\ RowPath(F, H, g) = RowPath(F, G, g) /\ RowPath(F, H, g) # b
               /\ H[g].folder = G[g].folder /\ H[g].hash = G[g].hash
  BY DEF SameBut, RowPath
<1>2. InPlace(F, H, t, D, X)
  BY <1>1 DEF Mirrors, InPlace, Filed, Alive
<1>3. RowsApart(F, H)
  <2> SUFFICES ASSUME NEW g, NEW h, Alive(H, g), Alive(H, h), RowPath(F, H, g) = RowPath(F, H, h)
               PROVE  g = h
    BY DEF RowsApart
  <2>1. CASE g # f /\ h # f
    BY <1>1, <2>1 DEF Mirrors, RowsApart, Alive
  <2>2. CASE g = f \/ h = f
    BY <1>1, <2>2
  <2> QED BY <2>1, <2>2
<1>4. NothingElse(F, H, t, Y)
  <2>1. \A g \in DOMAIN G : Alive(G, g) => g \in DOMAIN H /\ Alive(H, g) /\ RowPath(F, H, g) = RowPath(F, G, g)
    BY <1>1 DEF SameBut, Alive
  <2> QED BY <2>1 DEF Mirrors, NothingElse
<1> QED BY <1>2, <1>3, <1>4 DEF Mirrors

\* The file of a live row goes, and the row is one of those that have none.
LEMMA RowDrifts ==
  ASSUME NEW F, NEW G, NEW t, NEW D, NEW X, NEW Y, Mirrors(F, G, t, D, X, Y),
         NEW f, Alive(G, f), NEW u, Without(t, RowPath(F, G, f), u)
  PROVE  Mirrors(F, G, u, D, X \cup {f}, Y)
<1> PICK a : a = RowPath(F, G, f)
  OBVIOUS
<1>1. ~IsDir(t, a) /\ \A g : Alive(G, g) /\ g # f => RowPath(F, G, g) # a
  BY DEF Mirrors, InPlace, Filed, RowsApart, Alive, IsDir, IsFile
<1>2. InPlace(F, G, u, D, X \cup {f})
  BY <1>1 DEF Mirrors, InPlace, Filed, Without, IsFile
<1>3. NothingElse(F, G, u, Y)
  BY DEF Mirrors, NothingElse, Without
<1>4. OnDisk(F, u) /\ IsDir(u, <<>>)
  BY <1>1 DEF Mirrors, OnDisk, IsDir, Without
<1> QED BY <1>2, <1>3, <1>4 DEF Mirrors

\* A file comes that no row has.
LEMMA StrayComes ==
  ASSUME NEW F, NEW G, NEW t, NEW D, NEW X, NEW Y, Mirrors(F, G, t, D, X, Y),
         NEW b, b \notin DOMAIN t, InAFolder(F, b), \A g : Alive(G, g) => RowPath(F, G, g) # b,
         NEW i, NEW u, With(t, b, i, u)
  PROVE  Mirrors(F, G, u, D, X, Y \cup {b})
<1>1. \A q \in DOMAIN t : q \in DOMAIN u /\ q # b /\ u[q] = t[q]
  BY DEF With
<1>2. \A q : q \in DOMAIN u /\ q # b => q \in DOMAIN t
  BY DEF With
<1>3. InPlace(F, G, u, D, X)
  BY <1>1, <1>2 DEF Mirrors, InPlace, Filed, IsFile
<1>4. NothingElse(F, G, u, Y \cup {b})
  BY <1>2 DEF Mirrors, NothingElse
<1>5. OnDisk(F, u) /\ IsDir(u, <<>>)
  BY <1>1 DEF Mirrors, OnDisk, IsDir
<1> QED BY <1>3, <1>4, <1>5 DEF Mirrors

\* A row that takes another path with its file.
LEMMA FileGoes ==
  ASSUME NEW F, NEW G, NEW t, NEW D, NEW X, NEW Y, Mirrors(F, G, t, D, X, Y),
         NEW f, f \notin X, Alive(G, f), NEW H, SameBut(G, H, f), Alive(H, f), Has(F, H[f].folder),
         H[f].hash = G[f].hash,
         NEW a, a = RowPath(F, G, f), NEW b, b = RowPath(F, H, f), b \notin DOMAIN t,
         \A g : Alive(G, g) => RowPath(F, G, g) # b,
         NEW m, \E u : Without(t, a, u) /\ With(u, b, t[a], m)
  PROVE  Mirrors(F, H, m, D, X, Y)
<1>1. PICK u : Without(t, a, u) /\ With(u, b, t[a], m)
  OBVIOUS
<1>2. PICK K : K = [g \in DOMAIN G \ {f} |-> G[g]]
  OBVIOUS
<1>3. SameBut(G, K, f) /\ ~Alive(K, f) /\ SameBut(K, H, f)
  BY <1>2 DEF SameBut, Alive
<1>4. Mirrors(F, K, u, D, X, Y)
  BY <1>1, <1>3, FileLeaves
<1>5. t[a] # Dir /\ D[t[a]] = H[f].hash
  BY DEF Mirrors, InPlace, Filed, IsFile, Alive
<1>6. b \notin DOMAIN u /\ \A g : Alive(K, g) => RowPath(F, K, g) # b
  BY <1>1, <1>3 DEF Without, SameBut, RowPath
<1> QED BY <1>1, <1>3, <1>4, <1>5, <1>6, FileComes

\* What is at no folder's path has nothing below it.
LEMMA NothingBelow ==
  ASSUME NEW F, NEW G, RowsTyped(F, G), Closed(F), NEW t, NEW D, NEW X, NEW Y, Mirrors(F, G, t, D, X, Y),
         NEW a \in Paths, a # <<>>, a \notin FolderPaths(F), NEW q \in DOMAIN t, IsPrefix(a, q)
  PROVE  q = a
<1>1. CASE q = <<>>
  <2>1. Len(a) \in Nat \ {0}
    BY EmptySeq DEF Paths
  <2> QED BY <1>1, <2>1 DEF IsPrefix
<1>2. CASE q \in FolderPaths(F)
  BY <1>2, NoneBelow DEF FolderPaths
<1>3. CASE \E f \in DOMAIN G : Alive(G, f) /\ q = RowPath(F, G, f)
  <2>1. PICK f \in DOMAIN G : Alive(G, f) /\ q = RowPath(F, G, f)
    BY <1>3
  <2>2. Has(F, G[f].folder)
    BY <2>1 DEF Mirrors, InPlace, Filed
  <2>3. PICK k \in Paths, m \in DiskNames : k = PathOf(F, G[f].folder) /\ m = Sanitise[G[f].name]
    BY <2>2, RowTypes, NamesAssumption
  <2>4. a = q \/ IsPrefix(a, k)
    BY <2>1, <2>3, PrefixAppend DEF RowPath, Paths
  <2>5. ~IsPrefix(a, k)
    BY <2>2, <2>3, PrefixOfListed
  <2> QED BY <2>4, <2>5
<1>4. CASE InAFolder(F, q)
  <2>1. PICK d, m : Has(F, d) /\ m \in DiskNames /\ q = Append(PathOf(F, d), m)
    BY <1>4 DEF InAFolder
  <2>2. PICK k \in Paths : k = PathOf(F, d)
    BY <2>1, RowTypes
  <2>3. a = q \/ IsPrefix(a, k)
    BY <2>1, <2>2, PrefixAppend DEF Paths
  <2>4. ~IsPrefix(a, k)
    BY <2>1, <2>2, PrefixOfListed
  <2> QED BY <2>3, <2>4
<1> QED BY <1>1, <1>2, <1>3, <1>4 DEF Mirrors, NothingElse

\* create_dir_all of a folder that is there does nothing.
LEMMA FolderIsMade ==
  ASSUME NEW F, NEW G, RowsTyped(F, G), Closed(F), NEW t, DOMAIN t \subseteq TreePaths,
         NEW D, NEW X, NEW Y, Mirrors(F, G, t, D, X, Y), NEW d, Has(F, d), NEW k, k = PathOf(F, d)
  PROVE  CanMkdirAll(t, k) /\ Agree(t, MkdirAll(t, k))
<1>1. k \in Paths /\ k \in TreePaths
  BY RowTypes, PathsInTrees
<1>2. ASSUME NEW q \in Paths, IsPrefix(q, k) PROVE IsDir(t, q)
  <2>1. CASE q = <<>>
    BY <2>1 DEF Mirrors
  <2>2. CASE q # <<>>
    <3>1. q \in FolderPaths(F)
      BY <1>2, <2>2, PrefixOfListed
    <3> QED BY <3>1 DEF Mirrors, OnDisk, FolderPaths
  <2> QED BY <2>1, <2>2
<1>3. \A q \in Prefixes(k) : q \in Paths /\ IsPrefix(q, k)
  BY <1>1, PrefixesOf DEF Paths
<1>4. CanMkdirAll(t, k)
  BY <1>2, <1>3 DEF CanMkdirAll, IsDir, IsFile
<1>5. Prefixes(k) \subseteq DOMAIN t
  BY <1>2, <1>3 DEF IsDir
<1>6. Agree(t, MkdirAll(t, k))
  BY <1>5 DEF Agree, MkdirAll
<1> QED BY <1>4, <1>6
-----------------------------------------------------------------------------
(* A tree that mirrors the rows, when a folder comes, is renamed or goes.    *)

LEMMA LiveFile ==
  ASSUME NEW F, NEW G, NEW t, NEW D, NEW X, NEW Y, Mirrors(F, G, t, D, X, Y), NEW f, Alive(G, f)
  PROVE  f \in DOMAIN G /\ Has(F, G[f].folder) /\ Filed(F, G, t, D, X, f)
BY DEF Mirrors, InPlace, Alive

\* The path of a live row is in Paths and is no folder's.
LEMMA LivePaths ==
  ASSUME NEW F, NEW G, RowsTyped(F, G), GoodFolders(F, G), NEW f, Alive(G, f), Has(F, G[f].folder)
  PROVE  /\ PathOf(F, G[f].folder) \in Paths /\ Sanitise[G[f].name] \in DiskNames
         /\ RowPath(F, G, f) = Append(PathOf(F, G[f].folder), Sanitise[G[f].name])
         /\ RowPath(F, G, f) \in Paths /\ RowPath(F, G, f) # <<>> /\ RowPath(F, G, f) \notin FolderPaths(F)
<1> PICK k, x : k = PathOf(F, G[f].folder) /\ x = Sanitise[G[f].name]
  OBVIOUS
<1>1. f \in DOMAIN G /\ Shows(F, G, f)
  BY DEF Shows, Alive
<1>2. RowPath(F, G, f) \notin FolderPaths(F)
  BY <1>1 DEF Apart, GoodFolders
<1>3. k \in Paths /\ x \in DiskNames
  BY <1>1, RowTypes, NamesAssumption
<1>4. RowPath(F, G, f) = Append(k, x)
  BY DEF RowPath
<1>5. Append(k, x) \in Paths /\ Append(k, x) # <<>>
  BY <1>3, PrefixAppend DEF Paths
<1> QED BY <1>2, <1>3, <1>4, <1>5

LEMMA FolderComes ==
  ASSUME NEW F, NEW G, RowsTyped(F, G), GoodFolders(F, G),
         NEW t, DOMAIN t \subseteq TreePaths, NEW D, NEW X, NEW Y, Mirrors(F, G, t, D, X, Y),
         NEW d, Has(F, d), NEW n \in DiskNames, NEW p, p = Append(PathOf(F, d), n),
         p \notin DOMAIN t, \A f : Alive(G, f) => RowPath(F, G, f) # p, CanMkdirAll(t, p),
         NEW g, g \notin DOMAIN F, g # Root,
         NEW E, DOMAIN E = DOMAIN F \cup {g}, \A h \in DOMAIN F : E[h] = F[h], E[g].path = p
  PROVE  Mirrors(E, G, MkdirAll(t, p), D, X, Y)
<1>1. PICK k \in Paths : k = PathOf(F, d)
  BY RowTypes
<1>2. /\ p \in Paths /\ p \in TreePaths
      /\ \A q \in Paths : IsPrefix(q, p) => q = p \/ IsPrefix(q, k)
  <2>1. p \in Paths
    BY <1>1, PrefixAppend DEF Paths
  <2>2. \A q \in Paths : IsPrefix(q, p) => q = p \/ IsPrefix(q, k)
    BY <1>1, PrefixAppend DEF Paths
  <2> QED BY <2>1, <2>2, PathsInTrees
<1>3. PICK m : m = MkdirAll(t, p)
  OBVIOUS
<1>4. /\ \A q \in DOMAIN t : q \in DOMAIN m /\ m[q] = t[q]
      /\ DOMAIN m = DOMAIN t \cup Prefixes(p)
  BY <1>2, <1>3, MkdirAllEffect DEF TreePaths, MkdirAll
<1>5. IsDir(m, p)
  <2>1. IsPrefix(p, p)
    BY <1>2, PrefixOrder DEF TreePaths
  <2> QED BY <1>2, <1>3, <2>1, MkdirAllEffect DEF TreePaths
<1>6. \A q \in DOMAIN m : q \in DOMAIN t \/ q = p \/ q = <<>> \/ q \in FolderPaths(F)
  <2> SUFFICES ASSUME NEW q \in Prefixes(p), q # p, q # <<>> PROVE q \in FolderPaths(F)
    BY <1>4
  <2>1. q \in Paths /\ IsPrefix(q, p)
    BY <1>2, PrefixesOf DEF Paths
  <2>2. IsPrefix(q, k)
    BY <1>2, <2>1
  <2> QED BY <1>1, <2>1, <2>2, PrefixOfListed DEF GoodFolders
<1>7. FolderPaths(E) = FolderPaths(F) \cup {p}
  BY DEF FolderPaths
<1>8. \A f : Alive(G, f) => /\ f \in DOMAIN G /\ RowPath(E, G, f) = RowPath(F, G, f) /\ Has(E, G[f].folder)
                            /\ IF f \in X THEN RowPath(F, G, f) \notin DOMAIN t
                               ELSE /\ RowPath(F, G, f) \in DOMAIN t /\ t[RowPath(F, G, f)] # Dir
                                    /\ D[t[RowPath(F, G, f)]] = G[f].hash
  BY DEF Mirrors, InPlace, Filed, IsFile, Alive, Has, RowPath, PathOf
<1>9. InPlace(E, G, m, D, X)
  <2> SUFFICES ASSUME NEW f, Alive(G, f)
               PROVE  IF f \in X THEN RowPath(F, G, f) \notin DOMAIN m
                      ELSE IsFile(m, RowPath(F, G, f)) /\ D[m[RowPath(F, G, f)]] = G[f].hash
    BY <1>8 DEF InPlace, Filed
  <2>1. CASE f \in X
    <3>1. RowPath(F, G, f) # <<>> /\ RowPath(F, G, f) \notin FolderPaths(F)
      BY LiveFile, LivePaths
    <3> QED BY <1>6, <1>8, <2>1, <3>1
  <2>2. CASE f \notin X
    BY <1>4, <1>8, <2>2 DEF IsFile
  <2> QED BY <2>1, <2>2
<1>10. RowsApart(E, G)
  BY <1>8 DEF Mirrors, RowsApart
<1>11. NothingElse(E, G, m, Y)
  <2>1. \A q : InAFolder(F, q) => InAFolder(E, q)
    BY DEF InAFolder, Has, PathOf
  <2> QED BY <1>6, <1>7, <1>8, <2>1 DEF Mirrors, NothingElse
<1>12. OnDisk(E, m) /\ IsDir(m, <<>>)
  BY <1>4, <1>5 DEF Mirrors, OnDisk, IsDir
<1> QED BY <1>3, <1>9, <1>10, <1>11, <1>12 DEF Mirrors

MovedAll(Y, a, b) == {Moved(q, a, b) : q \in Y}

LEMMA FolderMoves ==
  ASSUME NEW F, NEW G, RowsTyped(F, G), GoodFolders(F, G),
         NEW t, DOMAIN t \subseteq TreePaths, NEW D, NEW X, NEW Y, Mirrors(F, G, t, D, X, Y),
         NEW d, NEW n, NEW a, NEW b, Sibling(F, G, d, n, a, b), b \notin DOMAIN t,
         NEW E, RenamedRows(F, E, d, n, a, b)
  PROVE  Mirrors(E, G, Move(t, a, b), D, X, MovedAll(Y, a, b))
<1>1. /\ a \in Paths /\ b \in Paths /\ a # b /\ b # <<>> /\ a # <<>>
      /\ a \in TreePaths /\ b \in TreePaths /\ b \notin FolderPaths(F)
      /\ \A g \in DOMAIN F : F[g].path \in Paths
  <2>1. /\ a \in Paths /\ b \in Paths /\ a # b /\ b # <<>> /\ a # <<>>
    BY SiblingFacts
  <2>2. \A g \in DOMAIN F : F[g].path \in Paths
    BY RowTypes
  <2> QED BY <2>1, <2>2, PathsInTrees DEF Sibling
<1>2. \A q \in DOMAIN t : ~IsPrefix(b, q)
  BY <1>1, NothingBelow DEF GoodFolders
<1>3. ~SameFile(t, a, t, b)
  BY DEF IsFile, SameFile
<1>4. PICK m, s : m = Move(t, a, b) /\ s = Subtree(t, a)
  OBVIOUS
<1>5. Placed(Components, t, {a}, b, s, m)
  BY <1>1, <1>3, <1>4, MoveEffect DEF TreePaths
<1>6. /\ \A r \in TreePaths : a \o r \in DOMAIN t => r \in DOMAIN s
      /\ \A r \in DOMAIN s : r \in TreePaths /\ a \o r \in DOMAIN t /\ s[r] = t[a \o r]
  BY <1>1, <1>4, SubtreeEffect DEF TreePaths
<1>7. ASSUME NEW q \in Paths, q \in DOMAIN t
      PROVE  Moved(q, a, b) \in DOMAIN m /\ m[Moved(q, a, b)] = t[q]
  <2>1. CASE IsPrefix(a, q)
    <3>1. PICK r \in Paths : r = Rest(q, a) /\ a \o r = q
      BY <1>1, <2>1, PrefixRest DEF Paths
    <3>2. r \in DOMAIN s /\ s[r] = t[q]
      BY <1>6, <1>7, <3>1, PathsInTrees
    <3>3. b \o r \in DOMAIN m /\ m[b \o r] = t[q]
      BY <1>5, <3>2 DEF Placed
    <3> QED BY <2>1, <3>1, <3>3 DEF Moved
  <2>2. CASE ~IsPrefix(a, q)
    BY <1>2, <1>5, <1>7, <2>2 DEF Placed, Moved
  <2> QED BY <2>1, <2>2
<1>8. ASSUME NEW f, Alive(G, f)
      PROVE  /\ f \in DOMAIN G /\ Has(E, G[f].folder)
             /\ RowPath(E, G, f) = Moved(RowPath(F, G, f), a, b)
             /\ RowPath(F, G, f) \in Paths /\ ~IsPrefix(b, RowPath(F, G, f))
             /\ Filed(F, G, t, D, X, f)
  <2>1. PICK k, x : k = PathOf(F, G[f].folder) /\ x = Sanitise[G[f].name]
    OBVIOUS
  <2>2. /\ Has(F, G[f].folder) /\ k \in Paths /\ x \in DiskNames
        /\ RowPath(F, G, f) = Append(k, x)
        /\ RowPath(F, G, f) \in Paths /\ RowPath(F, G, f) \notin FolderPaths(F)
        /\ Filed(F, G, t, D, X, f)
    BY <1>8, <2>1, LiveFile, LivePaths
  <2>3. Has(E, G[f].folder) /\ PathOf(E, G[f].folder) = Moved(k, a, b)
    BY <2>1, <2>2, RenamedPaths
  <2>4. Append(k, x) # a
    BY <2>2 DEF Sibling, FolderPaths
  <2>5. Moved(Append(k, x), a, b) = Append(Moved(k, a, b), x)
    BY <1>1, <2>2, <2>4, MovedAppend
  <2>6. RowPath(E, G, f) = Append(Moved(k, a, b), x)
    BY <2>1, <2>3 DEF RowPath
  <2>7. ~IsPrefix(b, Append(k, x))
    <3>1. Append(k, x) # b
      BY <1>8, <2>2 DEF Sibling, Shows, Alive
    <3>2. ~IsPrefix(b, k)
      BY <2>1, <2>2, SiblingFacts
    <3> QED BY <1>1, <2>2, <3>1, <3>2, PrefixAppend DEF Paths
  <2> QED BY <1>8, <2>2, <2>3, <2>5, <2>6, <2>7 DEF Alive
<1>9. ASSUME NEW q \in DOMAIN m
      PROVE  \E x \in DOMAIN t : q = Moved(x, a, b)
  <2>1. CASE q \in DOMAIN t /\ ~IsPrefix(a, q)
    BY <2>1 DEF Moved
  <2>2. CASE \E r \in DOMAIN s : q = b \o r
    <3>1. PICK r \in DOMAIN s : q = b \o r
      BY <2>2
    <3>2. r \in Seq(Components) /\ a \in Seq(Components) /\ a \o r \in DOMAIN t
      BY <1>1, <1>6, <3>1 DEF TreePaths
    <3>3. IsPrefix(a, a \o r) /\ Rest(a \o r, a) = r
      BY <3>2, ConcatPrefix
    <3>4. Moved(a \o r, a, b) = q
      BY <3>1, <3>3 DEF Moved
    <3> QED BY <3>2, <3>4
  <2> QED BY <1>5, <1>9, <2>1, <2>2 DEF Placed
<1>10. RowsApart(E, G)
  <2> SUFFICES ASSUME NEW f, NEW g, Alive(G, f), Alive(G, g), RowPath(E, G, f) = RowPath(E, G, g)
               PROVE  f = g
    BY DEF RowsApart
  <2>1. PICK q \in Paths, r \in Paths : q = RowPath(F, G, f) /\ r = RowPath(F, G, g)
    BY <1>8
  <2>2. ~IsPrefix(b, q) /\ ~IsPrefix(b, r) /\ Moved(q, a, b) = Moved(r, a, b)
    BY <1>8, <2>1
  <2>3. q = r
    BY <1>1, <2>2, MovedApart
  <2> QED BY <2>1, <2>3 DEF Mirrors, RowsApart, Alive
<1>11. ASSUME NEW q \in DOMAIN t, q # <<>>
       PROVE  /\ q \in Paths
              /\ \/ Moved(q, a, b) \in FolderPaths(E)
                 \/ \E f \in DOMAIN G : Alive(G, f) /\ Moved(q, a, b) = RowPath(E, G, f)
                 \/ q \in Y /\ InAFolder(E, Moved(q, a, b))
  <2>1. CASE q \in FolderPaths(F)
    BY <1>1, <2>1 DEF FolderPaths, RenamedRows
  <2>2. CASE q \notin FolderPaths(F) /\ \E f \in DOMAIN G : Alive(G, f) /\ q = RowPath(F, G, f)
    <3>1. PICK f \in DOMAIN G : Alive(G, f) /\ q = RowPath(F, G, f)
      BY <2>2
    <3> QED BY <1>8, <3>1
  <2>3. CASE q \notin FolderPaths(F) /\ q \in Y /\ InAFolder(F, q)
    <3>1. PICK g, x : Has(F, g) /\ x \in DiskNames /\ q = Append(PathOf(F, g), x)
      BY <2>3 DEF InAFolder
    <3>2. PICK k \in Paths : k = PathOf(F, g)
      BY <3>1, RowTypes
    <3>3. q = Append(k, x) /\ q \in Paths /\ q # a
      BY <2>3, <3>1, <3>2, PrefixAppend DEF Paths, Sibling, FolderPaths
    <3>4. Moved(q, a, b) = Append(Moved(k, a, b), x)
      <4>1. a \in Paths /\ b \in Paths
        BY <1>1
      <4>2. x \in DiskNames /\ Append(k, x) # a
        BY <3>1, <3>3
      <4>3. Moved(Append(k, x), a, b) = Append(Moved(k, a, b), x)
        BY <3>2, <4>1, <4>2, MovedAppend
      <4> QED BY <3>3, <4>3
    <3>5. Has(E, g) /\ PathOf(E, g) = Moved(k, a, b)
      BY <3>1, <3>2, RenamedPaths
    <3> QED BY <2>3, <3>1, <3>3, <3>4, <3>5 DEF InAFolder
  <2> QED BY <1>11, <2>1, <2>2, <2>3 DEF Mirrors, NothingElse
<1>12. NothingElse(E, G, m, MovedAll(Y, a, b))
  <2> SUFFICES ASSUME NEW q \in DOMAIN m, q # <<>>
               PROVE  \/ q \in FolderPaths(E) \/ \E f \in DOMAIN G : Alive(G, f) /\ q = RowPath(E, G, f)
                      \/ q \in MovedAll(Y, a, b) /\ InAFolder(E, q)
    BY DEF NothingElse
  <2>1. PICK x \in DOMAIN t : q = Moved(x, a, b)
    BY <1>9
  <2>2. x # <<>>
    <3>1. ~IsPrefix(a, <<>>)
      BY <1>1, EmptySeq DEF IsPrefix, Paths
    <3> QED BY <2>1, <3>1 DEF Moved
  <2> QED BY <1>11, <2>1, <2>2 DEF MovedAll
<1>13. OnDisk(E, m)
  BY <1>4, FolderDirsMoved DEF Mirrors
<1>14. IsDir(m, <<>>)
  <2>1. <<>> \in DOMAIN t /\ t[<<>>] = Dir
    BY DEF Mirrors, IsDir
  <2>2. ~IsPrefix(a, <<>>)
    BY <1>1, EmptySeq DEF IsPrefix, Paths
  <2> QED BY <1>2, <1>5, <2>1, <2>2 DEF Placed, IsDir
<1>15. ASSUME NEW q \in DOMAIN t, NEW r \in Paths, ~IsPrefix(b, r), Moved(q, a, b) = Moved(r, a, b)
       PROVE  q = r
  <2>1. q \in Paths
    <3>1. <<>> \in Paths
      BY EmptySeq DEF Paths
    <3> QED BY <1>11, <3>1
  <2> QED BY <1>1, <1>2, <1>15, <2>1, MovedApart
<1>16. InPlace(E, G, m, D, X)
  <2> SUFFICES ASSUME NEW f, Alive(G, f), NEW q, q = RowPath(F, G, f)
               PROVE  IF f \in X THEN Moved(q, a, b) \notin DOMAIN m
                      ELSE IsFile(m, Moved(q, a, b)) /\ D[m[Moved(q, a, b)]] = G[f].hash
    BY <1>8 DEF InPlace, Filed
  <2>1. CASE f \in X
    BY <1>8, <1>9, <1>15, <2>1 DEF Filed
  <2>2. CASE f \notin X
    BY <1>7, <1>8, <2>2 DEF IsFile, Filed
  <2> QED BY <2>1, <2>2
<1> QED BY <1>4, <1>10, <1>12, <1>13, <1>14, <1>16 DEF Mirrors
\* No name of the disk starts another: LIKE 'a%' then matches a and what is below it.
NamesApart == \A a, b \in DiskNames : <<a, b>> \in StartsLike => a = b

LEMMA LikeExact ==
  ASSUME NamesApart, NEW a \in Paths, NEW q \in Paths, LikePath(a, q)
  PROVE  IsPrefix(a, q)
<1> USE DEF Paths
<1>1. /\ Len(a) \in Nat \ {0} /\ Len(q) \in Nat /\ Len(a) <= Len(q)
      /\ SubSeq(q, 1, Len(a) - 1) = SubSeq(a, 1, Len(a) - 1)
      /\ <<Last(a), q[Len(a)]>> \in StartsLike
  BY EmptySeq DEF LikePath, Front
<1>2. PICK k \in Nat : k = Len(a) - 1 /\ k <= Len(a) /\ k <= Len(q)
  <2>1. Len(a) - 1 \in Nat /\ Len(a) - 1 <= Len(a) /\ Len(a) - 1 <= Len(q)
    BY <1>1
  <2> QED BY <2>1
<1>3. (\A i \in 1..k : a[i] \in DiskNames) /\ \A i \in 1..k : q[i] \in DiskNames
  BY <1>2, <1>2
<1>4. \A i \in 1..(k - 1 + 1) : SubSeq(a, 1, k)[i] = a[1 + i - 1]
  BY <1>3, SubSeqProperties
<1>5. \A i \in 1..(k - 1 + 1) : SubSeq(q, 1, k)[i] = q[1 + i - 1]
  BY <1>3, SubSeqProperties
<1>6. PICK x : x = SubSeq(a, 1, k) /\ x = SubSeq(q, 1, k)
  BY <1>1, <1>2
<1>7. \A i \in 1..k : a[i] = q[i]
  BY <1>4, <1>5, <1>6
<1>8. a[Len(a)] = q[Len(a)]
  <2>1. Last(a) = a[Len(a)] /\ a[Len(a)] \in DiskNames /\ q[Len(a)] \in DiskNames
    BY <1>1 DEF Last
  <2> QED BY <1>1, <2>1 DEF NamesApart
<1>9. \A i \in 1..Len(a) : a[i] = q[i]
  BY <1>1, <1>2, <1>7, <1>8
<1> QED BY <1>1, <1>9, PrefixFrom

LEMMA NoFolderAtTop ==
  ASSUME NEW F, NEW G, RowsTyped(F, G), GoodFolders(F, G), NEW d \in DOMAIN F
  PROVE  F[d].path # <<>>
<1>1. /\ Has(F, F[d].parent) /\ F[d].path = Append(PathOf(F, F[d].parent), Sanitise[F[d].name])
      /\ F[d].name \in Names
  BY RowTypes DEF Coherent, GoodFolders
<1>2. PathOf(F, F[d].parent) \in Paths /\ Sanitise[F[d].name] \in DiskNames
  BY <1>1, RowTypes, NamesAssumption
<1> QED BY <1>1, <1>2, PrefixAppend DEF Paths

\* What is doomed with a folder, then, is that folder and the folders inside it.
LEMMA DoomedBelow ==
  ASSUME NamesApart, NEW F, NEW G, RowsTyped(F, G), GoodFolders(F, G),
         NEW d \in DOMAIN F, NEW a, a = F[d].path, NEW g \in DOMAIN F
  PROVE  g \in DoomedOf(F, d, a) <=> IsPrefix(a, F[g].path)
<1>1. a \in Paths /\ F[g].path \in Paths
  BY RowTypes
<1>2. a # <<>>
  BY NoFolderAtTop
<1>3. IsPrefix(a, a)
  BY <1>1, PrefixOrder DEF Paths
<1> QED BY <1>1, <1>2, <1>3, LikeExact, LikeBelow DEF DoomedOf

\* E and H are the rows F and G without folder d and what is inside it.
FolderBinned(F, G, d, a, E, H) ==
  /\ DOMAIN E = DOMAIN F \ DoomedOf(F, d, a) /\ \A g \in DOMAIN E : E[g] = F[g]
  /\ DOMAIN H = DOMAIN G
  /\ \A f \in DOMAIN G : IF G[f].folder \in DoomedOf(F, d, a) THEN H[f].binned ELSE H[f] = G[f]

LEMMA FolderGoes ==
  ASSUME NamesApart, NEW F, NEW G, RowsTyped(F, G), GoodFolders(F, G),
         NEW t, DOMAIN t \subseteq TreePaths, NEW D, NEW X, NEW Y, Mirrors(F, G, t, D, X, Y),
         NEW d \in DOMAIN F, NEW a, a = F[d].path,
         NEW E, NEW H, FolderBinned(F, G, d, a, E, H)
  PROVE  Mirrors(E, H, Prune(t, a), D, X, Y)
<1> USE DEF FolderBinned
<1>1. a \in Paths /\ a # <<>> /\ \A g \in DOMAIN F : F[g].path \in Paths
  BY RowTypes, NoFolderAtTop
<1>2. \A g \in DOMAIN F : g \in DOMAIN E <=> ~IsPrefix(a, F[g].path)
  BY DoomedBelow
<1>3. PICK u : u = Prune(t, a)
  OBVIOUS
<1>4. DOMAIN u = {q \in DOMAIN t : ~IsPrefix(a, q)} /\ \A q \in DOMAIN u : u[q] = t[q]
  BY <1>3 DEF Prune, Below
<1>5. ~IsPrefix(a, <<>>)
  BY <1>1, EmptySeq DEF IsPrefix, Paths
<1>6. ASSUME NEW f, Alive(G, f)
      PROVE  Alive(H, f) <=> ~IsPrefix(a, RowPath(F, G, f))
  <2>1. PICK k, x : k = PathOf(F, G[f].folder) /\ x = Sanitise[G[f].name]
    OBVIOUS
  <2>2. /\ Has(F, G[f].folder) /\ k \in Paths /\ x \in DiskNames
        /\ RowPath(F, G, f) = Append(k, x) /\ RowPath(F, G, f) \notin FolderPaths(F)
    BY <1>6, <2>1, LiveFile, LivePaths
  <2>3. IsPrefix(a, RowPath(F, G, f)) <=> IsPrefix(a, k)
    <3>1. IsPrefix(a, Append(k, x)) <=> a = Append(k, x) \/ IsPrefix(a, k)
      BY <1>1, <2>2, PrefixAppend DEF Paths
    <3>2. a # Append(k, x)
      BY <2>2 DEF FolderPaths
    <3> QED BY <2>2, <3>1, <3>2
  <2>4. G[f].folder \in DoomedOf(F, d, a) <=> IsPrefix(a, k)
    <3>1. CASE G[f].folder = Root
      BY <1>5, <2>1, <3>1, RowTypes DEF PathOf, DoomedOf
    <3>2. CASE G[f].folder # Root
      BY <2>1, <2>2, <3>2, DoomedBelow DEF PathOf, Has
    <3> QED BY <3>1, <3>2
  <2>5. f \in DOMAIN G /\ ~G[f].binned /\ f \in DOMAIN H
    BY <1>6 DEF Alive
  <2> QED BY <2>3, <2>4, <2>5 DEF Alive
<1>7. ASSUME NEW f, Alive(H, f)
      PROVE  /\ f \in DOMAIN G /\ Alive(G, f) /\ H[f] = G[f] /\ Has(E, G[f].folder)
             /\ RowPath(E, H, f) = RowPath(F, G, f)
  <2>1. f \in DOMAIN G /\ H[f] = G[f] /\ Alive(G, f) /\ G[f].folder \notin DoomedOf(F, d, a)
    BY <1>7 DEF Alive
  <2>2. Has(F, G[f].folder)
    BY <2>1, LiveFile
  <2>3. Has(E, G[f].folder) /\ PathOf(E, G[f].folder) = PathOf(F, G[f].folder)
    BY <2>1, <2>2 DEF Has, PathOf
  <2> QED BY <2>1, <2>3 DEF RowPath
<1>8. ASSUME NEW f, Alive(H, f)
      PROVE  IF f \in X THEN RowPath(F, G, f) \notin DOMAIN u
             ELSE IsFile(u, RowPath(F, G, f)) /\ D[u[RowPath(F, G, f)]] = G[f].hash
  <2>1. Filed(F, G, t, D, X, f)
    BY <1>7, <1>8, LiveFile
  <2>2. ~IsPrefix(a, RowPath(F, G, f))
    BY <1>6, <1>7, <1>8
  <2> QED BY <1>4, <2>1, <2>2 DEF IsFile, Filed
<1>9. InPlace(E, H, u, D, X)
  BY <1>7, <1>8 DEF InPlace, Filed
<1>10. RowsApart(E, H)
  BY <1>7 DEF Mirrors, RowsApart
<1>11. NothingElse(E, H, u, Y)
  <2> SUFFICES ASSUME NEW q \in DOMAIN u, q # <<>>, q \notin FolderPaths(E)
               PROVE  \/ \E f \in DOMAIN H : Alive(H, f) /\ q = RowPath(E, H, f)
                      \/ q \in Y /\ InAFolder(E, q)
    BY DEF NothingElse
  <2>1. q \in DOMAIN t /\ ~IsPrefix(a, q)
    BY <1>4
  <2>2. q \notin FolderPaths(F)
    BY <1>2, <2>1 DEF FolderPaths
  <2>3. CASE \E f \in DOMAIN G : Alive(G, f) /\ q = RowPath(F, G, f)
    <3>1. PICK f \in DOMAIN G : Alive(G, f) /\ q = RowPath(F, G, f)
      BY <2>3
    <3>2. Alive(H, f)
      BY <1>6, <2>1, <3>1
    <3> QED BY <1>7, <3>1, <3>2 DEF Alive
  <2>4. CASE q \in Y /\ InAFolder(F, q)
    <3>1. PICK g, x : Has(F, g) /\ x \in DiskNames /\ q = Append(PathOf(F, g), x)
      BY <2>4 DEF InAFolder
    <3>2. PICK k \in Paths : k = PathOf(F, g)
      BY <3>1, RowTypes
    <3>3. ~IsPrefix(a, k)
      BY <1>1, <2>1, <3>1, <3>2, PrefixAppend DEF Paths
    <3>4. Has(E, g) /\ PathOf(E, g) = k
      BY <1>2, <3>1, <3>2, <3>3 DEF Has, PathOf
    <3> QED BY <2>4, <3>1, <3>2, <3>4 DEF InAFolder
  <2> QED BY <2>1, <2>2, <2>3, <2>4 DEF Mirrors, NothingElse
<1>12. OnDisk(E, u)
  BY <1>2, <1>4 DEF Mirrors, OnDisk, IsDir
<1>13. IsDir(u, <<>>)
  BY <1>4, <1>5 DEF Mirrors, IsDir
<1> QED BY <1>3, <1>9, <1>10, <1>11, <1>12, <1>13 DEF Mirrors
-----------------------------------------------------------------------------
(* The bin, when an entry comes or goes.                                    *)

LEMMA FewerKept ==
  ASSUME NEW F, NEW G, NEW s, NEW D, NEW X, Holds(F, G, s, D, X), NEW E, NEW H,
         \A f : Kept(E, H, f) => Kept(F, G, f) /\ H[f].name = G[f].name /\ H[f].hash = G[f].hash,
         NEW u, \A e \in Slots : <<e>> \in DOMAIN s => <<e>> \in DOMAIN u /\ u[<<e>>] = s[<<e>>],
         \A e \in Slots : <<e>> \in DOMAIN u =>
           <<e>> \in DOMAIN s \/ \A f : Kept(F, G, f) => Sanitise[G[f].name] # e[2]
  PROVE  Holds(E, H, u, D, X)
<1>1. ASSUME NEW f, Kept(E, H, f)
      PROVE  IF f \in X THEN \A e \in Slots : <<e>> \in DOMAIN u => e[2] # Sanitise[H[f].name]
             ELSE \E e \in Slots : IsEntry(H, u, D, f, e)
  <2>1. Kept(F, G, f) /\ H[f].name = G[f].name /\ H[f].hash = G[f].hash /\ f \in DOMAIN G
    BY <1>1 DEF Kept
  <2>2. CASE f \in X
    <3>1. \A e \in Slots : <<e>> \in DOMAIN s => e[2] # Sanitise[G[f].name]
      BY <2>1, <2>2 DEF Holds
    <3> QED BY <2>1, <2>2, <3>1
  <2>3. CASE f \notin X
    <3>1. PICK e \in Slots : IsEntry(G, s, D, f, e)
      BY <2>1, <2>3 DEF Holds
    <3> QED BY <2>1, <2>3, <3>1 DEF IsEntry, IsFile
  <2> QED BY <2>2, <2>3
<1>2. ASSUME NEW f, NEW g, Kept(E, H, f), Kept(E, H, g), Sanitise[H[f].name] = Sanitise[H[g].name]
      PROVE  f = g
  <2>1. /\ Kept(F, G, f) /\ H[f].name = G[f].name /\ f \in DOMAIN G
        /\ Kept(F, G, g) /\ H[g].name = G[g].name /\ g \in DOMAIN G
    BY <1>2 DEF Kept
  <2> QED BY <1>2, <2>1 DEF Holds
<1> QED BY <1>1, <1>2 DEF Holds

LEMMA EntryPath ==
  ASSUME NEW e \in Slots
  PROVE  <<e>> \in Seq(Components) /\ <<e>> \o <<>> = <<e>>
<1>1. e \in Components
  BY DEF Components
<1>2. <<e>> \in Seq(Components)
  BY <1>1
<1> QED BY <1>2, ConcatEmptySeq

LEMMA EntriesDiffer ==
  ASSUME NEW e \in Slots, NEW d \in Slots, e # d
  PROVE  <<e>> # <<d>> /\ ~IsPrefix(<<e>>, <<d>>)
<1>1. PICK x \in Seq(Components), y \in Seq(Components) : x = <<e>> /\ y = <<d>>
  BY EntryPath
<1>2. Len(x) = 1 /\ Len(y) = 1 /\ x # y
  BY <1>1
<1>3. IsPrefix(x, y) /\ Len(y) <= Len(x) => x = y
  BY PrefixOrder
<1> QED BY <1>1, <1>2, <1>3

\* What is at a of the tree t becomes an entry of the bin s.
LEMMA EntryComes ==
  ASSUME NEW t, DOMAIN t \subseteq TreePaths, NEW a \in TreePaths, a \in DOMAIN t,
         IsFile(t, a) => Leaf(t, a),
         NEW s, DOMAIN s \subseteq TreePaths, EntriesApart(s),
         NEW e \in Slots, \A d \in Slots : <<d>> \in DOMAIN s => d[2] # e[2],
         NEW m, m = RenamedTo(t, a, s, <<e>>)
  PROVE  /\ \A d \in Slots : <<d>> \in DOMAIN s => <<d>> \in DOMAIN m /\ m[<<d>>] = s[<<d>>]
         /\ \A d \in Slots : <<d>> \in DOMAIN m => d = e \/ <<d>> \in DOMAIN s
         /\ <<e>> \in DOMAIN m /\ m[<<e>>] = t[a] /\ EntriesApart(m)
<1>1. <<e>> \in Seq(Components) /\ <<e>> \o <<>> = <<e>> /\ <<e>> \notin DOMAIN s
  BY EntryPath
<1>2. ~SameFile(t, a, s, <<e>>)
  BY <1>1 DEF SameFile, IsFile
<1>3. PICK v : v = Subtree(t, a)
  OBVIOUS
<1>4. Placed(Components, s, {}, <<e>>, v, m)
  BY <1>1, <1>2, <1>3, RenameEffect DEF TreePaths
<1>5. <<>> \in DOMAIN v /\ v[<<>>] = t[a]
  <2>1. a \o <<>> = a /\ <<>> \in Seq(Components)
    BY ConcatEmptySeq, EmptySeq DEF TreePaths
  <2>2. a \o <<>> \in DOMAIN t
    BY <2>1
  <2>3. <<>> \in DOMAIN v
    BY <1>3, <2>1, <2>2, SubtreeEffect DEF TreePaths
  <2>4. \A r \in DOMAIN v : v[r] = t[a \o r]
    BY <1>3, SubtreeEffect DEF TreePaths
  <2> QED BY <2>1, <2>3, <2>4
<1>6. DOMAIN v \subseteq Seq(Components)
  BY <1>3, SubtreeEffect DEF TreePaths
<1>7. \A d \in Slots : <<d>> \in DOMAIN s => <<d>> \in DOMAIN m /\ m[<<d>>] = s[<<d>>]
  <2> SUFFICES ASSUME NEW d \in Slots, <<d>> \in DOMAIN s
               PROVE  <<d>> \in DOMAIN m /\ m[<<d>>] = s[<<d>>]
    OBVIOUS
  <2>1. ~IsPrefix(<<e>>, <<d>>)
    BY <1>1, EntriesDiffer
  <2> QED BY <1>4, <2>1 DEF Placed
<1>8. <<e>> \in DOMAIN m /\ m[<<e>>] = t[a]
  BY <1>1, <1>4, <1>5 DEF Placed
<1>9. ASSUME NEW d \in Slots, <<d>> \in DOMAIN m, d # e PROVE <<d>> \in DOMAIN s
  <2>1. ASSUME NEW r \in DOMAIN v, <<d>> = <<e>> \o r PROVE FALSE
    <3>1. IsPrefix(<<e>>, <<e>> \o r)
      BY <1>1, <1>6, ConcatPrefix
    <3> QED BY <1>9, <2>1, <3>1, EntriesDiffer
  <2> QED BY <1>4, <1>9, <2>1 DEF Placed
<1>10. ASSUME NEW d \in Slots, NEW c \in Slots, <<d>> \in DOMAIN m, <<c>> \in DOMAIN m, d[2] = c[2]
       PROVE  d = c
  <2>1. CASE d # e /\ c # e
    BY <1>9, <1>10, <2>1 DEF EntriesApart
  <2>2. CASE d = e \/ c = e
    BY <1>9, <1>10, <2>2
  <2> QED BY <2>1, <2>2
<1>11. ASSUME NEW d \in Slots, NEW q \in DOMAIN m, IsFile(m, <<d>>), IsPrefix(<<d>>, q)
       PROVE  q = <<d>>
  <2>1. CASE q \in DOMAIN s /\ ~IsPrefix(<<e>>, q)
    <3>1. d # e
      BY <1>11, <2>1
    <3>2. IsFile(s, <<d>>)
      BY <1>7, <1>9, <1>11, <3>1 DEF IsFile
    <3> QED BY <1>11, <2>1, <3>2 DEF EntriesApart
  <2>2. CASE \E r \in DOMAIN v : q = <<e>> \o r
    <3>1. PICK r \in Seq(Components) : r \in DOMAIN v /\ q = <<e>> \o r
      BY <1>6, <2>2
    <3>2. q \in Seq(Components) /\ IsPrefix(<<e>>, q)
      BY <1>1, <3>1, ConcatPrefix
    <3>3. d = e
      <4>1. <<d>> \in Seq(Components)
        BY EntryPath
      <4>2. IsPrefix(<<d>>, <<e>>) \/ IsPrefix(<<e>>, <<d>>)
        BY <1>1, <1>11, <3>2, <4>1, PrefixOrder
      <4> QED BY <4>2, EntriesDiffer
    <3>4. IsFile(t, a)
      BY <1>8, <1>11, <3>3 DEF IsFile
    <3>5. r = <<>>
      BY <1>3, <3>1, <3>4, LeafSubtree DEF TreePaths
    <3> QED BY <1>1, <3>1, <3>3, <3>5
  <2> QED BY <1>4, <2>1, <2>2 DEF Placed
<1>12. EntriesApart(m)
  BY <1>10, <1>11 DEF EntriesApart
<1> QED BY <1>7, <1>8, <1>9, <1>12

\* But for f, the rows that G and H keep are the same.
SameKept(F, G, H, f) ==
  \A g : g # f => /\ Kept(F, H, g) <=> Kept(F, G, g)
                  /\ Kept(F, G, g) => H[g].name = G[g].name /\ H[g].hash = G[g].hash

LEMMA RowIsKept ==
  ASSUME NEW F, NEW G, NEW s, NEW D, NEW X, Holds(F, G, s, D, X),
         NEW f, f \notin X, NEW H, SameKept(F, G, H, f), f \in DOMAIN H,
         NEW e \in Slots, e[2] = Sanitise[H[f].name],
         \A g : Kept(F, G, g) => Sanitise[G[g].name] # e[2],
         NEW m, \A d \in Slots : <<d>> \in DOMAIN s => <<d>> \in DOMAIN m /\ m[<<d>>] = s[<<d>>],
         \A d \in Slots : <<d>> \in DOMAIN m => d = e \/ <<d>> \in DOMAIN s,
         IsFile(m, <<e>>), D[m[<<e>>]] = H[f].hash
  PROVE  Holds(F, H, m, D, X)
<1>1. ASSUME NEW g, g # f, Kept(F, H, g)
      PROVE  /\ Sanitise[H[g].name] # e[2]
             /\ IF g \in X THEN \A d \in Slots : <<d>> \in DOMAIN m => d[2] # Sanitise[H[g].name]
                ELSE \E d \in Slots : IsEntry(H, m, D, g, d)
  <2>1. /\ Kept(F, G, g) /\ g \in DOMAIN G /\ H[g].name = G[g].name /\ H[g].hash = G[g].hash
        /\ Sanitise[G[g].name] # e[2]
    BY <1>1 DEF SameKept, Kept
  <2>2. CASE g \in X
    <3>1. \A d \in Slots : <<d>> \in DOMAIN s => d[2] # Sanitise[G[g].name]
      BY <2>1, <2>2 DEF Holds
    <3> QED BY <2>1, <2>2, <3>1
  <2>3. CASE g \notin X
    <3>1. PICK d \in Slots : IsEntry(G, s, D, g, d)
      BY <2>1, <2>3 DEF Holds
    <3> QED BY <2>1, <2>3, <3>1 DEF IsEntry, IsFile
  <2> QED BY <2>1, <2>2, <2>3
<1>2. IsEntry(H, m, D, f, e)
  BY DEF IsEntry
<1>3. ASSUME NEW g, NEW h, Kept(F, H, g), Kept(F, H, h), Sanitise[H[g].name] = Sanitise[H[h].name]
      PROVE  g = h
  <2>1. CASE g = f \/ h = f
    BY <1>1, <1>3, <2>1
  <2>2. CASE g # f /\ h # f
    <3>1. /\ Kept(F, G, g) /\ g \in DOMAIN G /\ H[g].name = G[g].name
          /\ Kept(F, G, h) /\ h \in DOMAIN G /\ H[h].name = G[h].name
      BY <1>3, <2>2 DEF SameKept, Kept
    <3> QED BY <1>3, <3>1 DEF Holds
  <2> QED BY <2>1, <2>2
<1> QED BY <1>1, <1>2, <1>3 DEF Holds

\* A row of X comes to the bin without an entry.
LEMMA RowIsKeptBare ==
  ASSUME NEW F, NEW G, NEW s, NEW D, NEW X, Holds(F, G, s, D, X),
         NEW f \in X, NEW H, SameKept(F, G, H, f), f \in DOMAIN H,
         \A g : Kept(F, G, g) => Sanitise[G[g].name] # Sanitise[H[f].name],
         \A d \in Slots : <<d>> \in DOMAIN s => d[2] # Sanitise[H[f].name]
  PROVE  Holds(F, H, s, D, X)
<1>1. ASSUME NEW g, g # f, Kept(F, H, g)
      PROVE  /\ Kept(F, G, g) /\ g \in DOMAIN G /\ H[g].name = G[g].name /\ H[g].hash = G[g].hash
             /\ Sanitise[H[g].name] # Sanitise[H[f].name]
  BY <1>1 DEF SameKept, Kept
<1>2. ASSUME NEW g, g # f, Kept(F, H, g)
      PROVE  IF g \in X THEN \A d \in Slots : <<d>> \in DOMAIN s => d[2] # Sanitise[H[g].name]
             ELSE \E d \in Slots : IsEntry(H, s, D, g, d)
  <2>1. CASE g \in X
    <3>1. \A d \in Slots : <<d>> \in DOMAIN s => d[2] # Sanitise[G[g].name]
      BY <1>1, <1>2, <2>1 DEF Holds
    <3> QED BY <1>1, <1>2, <2>1, <3>1
  <2>2. CASE g \notin X
    <3>1. PICK d \in Slots : IsEntry(G, s, D, g, d)
      BY <1>1, <1>2, <2>2 DEF Holds
    <3> QED BY <1>1, <1>2, <2>2, <3>1 DEF IsEntry
  <2> QED BY <2>1, <2>2
<1>3. ASSUME NEW g, NEW h, Kept(F, H, g), Kept(F, H, h), Sanitise[H[g].name] = Sanitise[H[h].name]
      PROVE  g = h
  <2>1. CASE g = f \/ h = f
    BY <1>1, <1>3, <2>1
  <2>2. CASE g # f /\ h # f
    BY <1>1, <1>3, <2>2 DEF Holds
  <2> QED BY <2>1, <2>2
<1> QED BY <1>2, <1>3 DEF Holds

\* An entry goes: what the other kept rows have is still there.
LEMMA OthersKeepEntries ==
  ASSUME NEW F, NEW G, NEW s, NEW D, NEW X, Holds(F, G, s, D, X),
         NEW f, Kept(F, G, f), NEW e, IsEntry(G, s, D, f, e), NEW u, Without(s, <<e>>, u),
         NEW g, Kept(F, G, g), g # f
  PROVE  IF g \in X THEN \A d \in Slots : <<d>> \in DOMAIN u => d[2] # Sanitise[G[g].name]
         ELSE \E d \in Slots : IsEntry(G, u, D, g, d)
<1>1. e \in Slots /\ e[2] = Sanitise[G[f].name] /\ f \in DOMAIN G /\ g \in DOMAIN G
  BY DEF IsEntry, Kept
<1>2. CASE g \in X
  <2>1. \A d \in Slots : <<d>> \in DOMAIN s => d[2] # Sanitise[G[g].name]
    BY <1>1, <1>2 DEF Holds
  <2> QED BY <1>2, <2>1 DEF Without
<1>3. CASE g \notin X
  <2>1. PICK d \in Slots : IsEntry(G, s, D, g, d)
    BY <1>1, <1>3 DEF Holds
  <2>2. d # e
    BY <1>1, <2>1 DEF Holds, IsEntry
  <2>3. <<d>> # <<e>>
    BY <1>1, <2>2, EntriesDiffer
  <2>4. <<d>> \in DOMAIN u /\ u[<<d>>] = s[<<d>>]
    BY <2>1, <2>3 DEF IsEntry, IsFile, Without
  <2> QED BY <1>3, <2>1, <2>4 DEF IsEntry, IsFile
<1> QED BY <1>2, <1>3

LEMMA EntryGoes ==
  ASSUME NEW F, NEW G, NEW s, NEW D, NEW X, Holds(F, G, s, D, X), EntriesApart(s),
         NEW f, Kept(F, G, f), NEW e, IsEntry(G, s, D, f, e),
         NEW H, SameKept(F, G, H, f), ~Kept(F, H, f), NEW u, Without(s, <<e>>, u)
  PROVE  Holds(F, H, u, D, X) /\ EntriesApart(u)
<1>1. ASSUME NEW g, Kept(F, H, g)
      PROVE  /\ g # f /\ Kept(F, G, g) /\ g \in DOMAIN G
             /\ H[g].name = G[g].name /\ H[g].hash = G[g].hash
  BY <1>1 DEF SameKept, Kept
<1>2. ASSUME NEW g, Kept(F, H, g)
      PROVE  IF g \in X THEN \A d \in Slots : <<d>> \in DOMAIN u => d[2] # Sanitise[H[g].name]
             ELSE \E d \in Slots : IsEntry(H, u, D, g, d)
  <2>1. IF g \in X THEN \A d \in Slots : <<d>> \in DOMAIN u => d[2] # Sanitise[G[g].name]
        ELSE \E d \in Slots : IsEntry(G, u, D, g, d)
    BY <1>1, <1>2, OthersKeepEntries
  <2> QED BY <1>1, <1>2, <2>1 DEF IsEntry
<1>3. Holds(F, H, u, D, X)
  BY <1>1, <1>2 DEF Holds, Kept
<1>4. EntriesApart(u)
  BY DEF EntriesApart, Without, IsFile
<1> QED BY <1>3, <1>4

\* The entry of a kept row goes, and the row is one of those that have none.
LEMMA EntryIsLost ==
  ASSUME NEW F, NEW G, NEW s, NEW D, NEW X, Holds(F, G, s, D, X), EntriesApart(s),
         NEW f, Kept(F, G, f), NEW e, IsEntry(G, s, D, f, e), NEW u, Without(s, <<e>>, u)
  PROVE  Holds(F, G, u, D, X \cup {f})
<1>1. ASSUME NEW g, Kept(F, G, g)
      PROVE  IF g \in X \cup {f} THEN \A d \in Slots : <<d>> \in DOMAIN u => d[2] # Sanitise[G[g].name]
             ELSE \E d \in Slots : IsEntry(G, u, D, g, d)
  <2>1. CASE g = f
    <3>1. e \in Slots /\ e[2] = Sanitise[G[f].name] /\ <<e>> \in DOMAIN s
      BY DEF IsEntry, IsFile
    <3>2. \A d \in Slots : <<d>> \in DOMAIN u => d # e /\ <<d>> \in DOMAIN s
      BY DEF Without
    <3> QED BY <2>1, <3>1, <3>2 DEF EntriesApart
  <2>2. CASE g # f
    <3>1. IF g \in X THEN \A d \in Slots : <<d>> \in DOMAIN u => d[2] # Sanitise[G[g].name]
          ELSE \E d \in Slots : IsEntry(G, u, D, g, d)
      BY <1>1, <2>2, OthersKeepEntries
    <3> QED BY <2>2, <3>1
  <2> QED BY <2>1, <2>2
<1> QED BY <1>1 DEF Holds

-----------------------------------------------------------------------------
(* The bytes: what holds a content keeps it.                                *)

KeepsBytes(N, D, C) == \A i \in N : D[i] # Torn => C[i] = D[i]

LEMMA BytesKept ==
  ASSUME NEW X, NEW Y, NEW F, NEW G, RowsTyped(F, G), NEW N, NEW D, NEW C, KeepsBytes(N, D, C),
         NEW t, \A q \in DOMAIN t : t[q] \in N \cup {Dir},
         NEW s, \A q \in DOMAIN s : s[q] \in N \cup {Dir}
  PROVE  /\ Mirrors(F, G, t, D, X, Y) => Mirrors(F, G, t, C, X, Y)
         /\ Holds(F, G, s, D, X) => Holds(F, G, s, C, X)
<1>1. \A f \in DOMAIN G : G[f].hash # Torn
  BY ValuesAssumption DEF RowsTyped, File
<1>2. ASSUME InPlace(F, G, t, D, X) PROVE InPlace(F, G, t, C, X)
  BY <1>1, <1>2 DEF InPlace, Filed, IsFile, KeepsBytes
<1>3. ASSUME NEW f \in DOMAIN G, NEW e, IsEntry(G, s, D, f, e) PROVE IsEntry(G, s, C, f, e)
  BY <1>1, <1>3 DEF IsEntry, IsFile, KeepsBytes
<1>4. Holds(F, G, s, D, X) => Holds(F, G, s, C, X)
  BY <1>3 DEF Holds
<1> QED BY <1>2, <1>4 DEF Mirrors

-----------------------------------------------------------------------------
(* The invariant over the state, and what a step has to show of it.         *)

AllGood(B, D) == \A h \in DOMAIN B : D[B[h]] = h

\* What the trees, rows and blobs are between two changes of the disk.
Calm(F, n, G, t, s, B, D, X, Y) ==
  /\ Mirrors(F, G, t, D, X, Y) /\ Holds(F, G, s, D, X) /\ EntriesApart(s) /\ Minted(G, n) /\ AllGood(B, D)

\* A command between the disk and the row of a file: if it stops there, one row more has no
\* file, or one file more has no row.
CutPCs == {"moveRow", "renameRow", "insertFile", "binRow", "restoreRow"}
CutShort(F, nF, G, nG, t, s, B, D, X, Y) ==
  \E f \in 0..(nG - 1) : \E q : Calm(F, nF, G, t, s, B, D, X \cup {f}, Y \cup {q})

MirrorAt(F, nF, G, nG, t, s, B, D, c, X, Y) ==
  LET E == FoldersDue(F, nF, c)  H == FilesDue(F, G, nG, c) IN
  /\ Mirrors(E, H, t, D, X, Y) /\ Holds(E, H, s, D, X) /\ EntriesApart(s) /\ Minted(H, nF)
  /\ BlobsGood(B, D, c) /\ Ready(F, G, t, s, D, c, X)
  /\ c.pc \in CutPCs => CutShort(F, nF, G, nG, t, s, B, D, X, Y)
MirrorWith(X, Y) == MirrorAt(folders, nextFolder, files, nextFile, tree, bin, blobs, data, cmd[Solo], X, Y)

\* One command at a time on free names, and names apart.
MirrorWorld == OneCareful /\ NamesApart

DuePCs == {"insertFolder", "insertFile", "binFiles", "purgeRows"} \cup Renaming \cup Deleting \cup RowSteps

LEMMA NothingDue ==
  ASSUME NEW F, NEW G, NEW n, NEW m, NEW c, c.pc \notin DuePCs
  PROVE  FoldersDue(F, n, c) = F /\ FilesDue(F, G, m, c) = G
BY DEF DuePCs, FoldersDue, FilesDue, Settled

LEMMA BlobsSettled ==
  ASSUME NEW B, NEW D, NEW c, c.pc \notin {"blobOpen", "blobWrite"}
  PROVE  BlobsGood(B, D, c) <=> AllGood(B, D)
BY DEF BlobsGood, AllGood

LEMMA CalmAt ==
  ASSUME NEW F, NEW nF, NEW G, NEW nG, NEW t, NEW s, NEW B, NEW D, NEW c,
         NEW X, NEW Y, Calm(FoldersDue(F, nF, c), nF, FilesDue(F, G, nG, c), t, s, B, D, X, Y),
         c.pc \notin {"blobOpen", "blobWrite"}, Ready(F, G, t, s, D, c, X),
         c.pc \in CutPCs => CutShort(F, nF, G, nG, t, s, B, D, X, Y)
  PROVE  MirrorAt(F, nF, G, nG, t, s, B, D, c, X, Y)
BY BlobsSettled DEF MirrorAt, Calm

LEMMA NothingToReady ==
  ASSUME NEW X, NEW Y, NEW F, NEW G, NEW t, NEW s, NEW D, NEW c,
         c.pc \in DuePCs \cup {"idle"}
  PROVE  Ready(F, G, t, s, D, c, X)
BY DEF Ready, DuePCs, Renaming, Deleting, RowSteps, Arriving, Departing, Binning

\* The step of the only command leads to MirrorAt of the new state and these locals.
LEMMA MirrorStep ==
  ASSUME StoreInv, OneCareful, NEW p \in Procs, NEW c, cmd' = [cmd EXCEPT ![p] = c],
         NEW X, NEW Y, MirrorAt(folders', nextFolder', files', nextFile', tree', bin', blobs', data', c, X, Y)
  PROVE  MirrorWith(X, Y)'
<1>1. cmd'[Solo] = c
  BY OnlySolo, CommandIsTyped
<1> QED BY <1>1 DEF MirrorWith

\* A command ends.
LEMMA MirrorDone ==
  ASSUME StoreInv, OneCareful, NEW p \in Procs, Done(p),
         NEW X, NEW Y, Calm(folders', nextFolder', files', tree', bin', blobs', data', X, Y)
  PROVE  MirrorWith(X, Y)'
<1> PICK F, nF, G, nG, t, s, B, D : /\ F = folders' /\ nF = nextFolder' /\ G = files' /\ nG = nextFile'
                                    /\ t = tree' /\ s = bin' /\ B = blobs' /\ D = data'
  OBVIOUS
<1>1. Idle.pc \notin DuePCs /\ Idle.pc \in DuePCs \cup {"idle"} /\ Idle.pc \notin {"blobOpen", "blobWrite"}
  BY IdleIsIdle DEF DuePCs, Renaming, Deleting, RowSteps
<1>2. FoldersDue(F, nF, Idle) = F /\ FilesDue(F, G, nG, Idle) = G
  BY <1>1, NothingDue
<1>3. Calm(F, nF, G, t, s, B, D, X, Y)
  OBVIOUS
<1>4. Ready(F, G, t, s, D, Idle, X)
  BY <1>1, NothingToReady
<1>5. Idle.pc \notin CutPCs
  BY IdleIsIdle DEF CutPCs
<1>6. MirrorAt(F, nF, G, nG, t, s, B, D, Idle, X, Y)
  BY <1>1, <1>2, <1>3, <1>4, <1>5, CalmAt
<1>7. MirrorAt(folders', nextFolder', files', nextFile', tree', bin', blobs', data', Idle, X, Y)
  BY <1>6
<1> QED BY <1>7, MirrorStep DEF Done

\* A command goes on.
SameLocals(c, d) ==
  /\ c.src = d.src /\ c.dst = d.dst /\ c.folder = d.folder /\ c.name = d.name
  /\ c.file = d.file /\ c.hash = d.hash /\ c.slot = d.slot

LEMMA MirrorGoto ==
  ASSUME StoreInv, OneCareful, NEW p \in Procs, NEW to, Goto(p, to),
         NEW X, NEW Y, \A c : c.pc = to /\ SameLocals(c, cmd[p]) =>
           MirrorAt(folders', nextFolder', files', nextFile', tree', bin', blobs', data', c, X, Y)
  PROVE  MirrorWith(X, Y)'
<1>1. cmd[p] \in Command
  BY CommandIsTyped
<1>2. PICK c : c = [cmd[p] EXCEPT !.pc = to]
  OBVIOUS
<1>3. c.pc = to /\ SameLocals(c, cmd[p])
  BY <1>1, <1>2 DEF Command, SameLocals
<1>4. cmd' = [cmd EXCEPT ![p] = c]
  BY <1>2, CommandIsTyped DEF Goto
<1> QED BY <1>3, <1>4, MirrorStep

\* What the invariant says before a step that finds nothing due.
LEMMA MirrorBefore ==
  ASSUME StoreInv, OneCareful, TreeInv, NEW X, NEW Y, MirrorWith(X, Y),
         NEW p \in Procs, cmd[p].pc \notin DuePCs
  PROVE  /\ Mirrors(folders, files, tree, data, X, Y) /\ Holds(folders, files, bin, data, X)
         /\ EntriesApart(bin) /\ Minted(files, nextFolder)
         /\ BlobsGood(blobs, data, cmd[p]) /\ Ready(folders, files, tree, bin, data, cmd[p], X)
         /\ cmd[p].pc \notin {"blobOpen", "blobWrite"} =>
              Calm(folders, nextFolder, files, tree, bin, blobs, data, X, Y)
         /\ GoodFolders(folders, files) /\ RowsTyped(folders, files)
         /\ HoldsTarget(folders, files, tree, cmd[p]) /\ TreePathsOK
<1>1. p = Solo
  BY OnlySolo
<1>2. FoldersDue(folders, nextFolder, cmd[p]) = folders /\ FilesDue(folders, files, nextFile, cmd[p]) = files
  BY NothingDue
<1>3. /\ Mirrors(folders, files, tree, data, X, Y) /\ Holds(folders, files, bin, data, X)
      /\ EntriesApart(bin) /\ Minted(files, nextFolder)
      /\ BlobsGood(blobs, data, cmd[p]) /\ Ready(folders, files, tree, bin, data, cmd[p], X)
  BY <1>1, <1>2 DEF MirrorWith, MirrorAt
<1>4. cmd[p].pc \notin {"blobOpen", "blobWrite"} =>
         Calm(folders, nextFolder, files, tree, bin, blobs, data, X, Y)
  BY <1>3, BlobsSettled DEF Calm
<1>5. cmd[p].pc \notin Renaming \cup Deleting
  BY DEF DuePCs
<1>6. /\ GoodFolders(folders, files) /\ RowsTyped(folders, files)
      /\ HoldsTarget(folders, files, tree, cmd[p]) /\ TreePathsOK
  BY <1>5, WholeBefore
<1> QED BY <1>3, <1>4, <1>6

\* A command starts.
LEMMA MirrorStart ==
  ASSUME StoreInv, OneCareful, TreeInv, NEW X, NEW Y, MirrorWith(X, Y),
         NEW p \in Procs, NEW op, NEW c, Start(p, op, c),
         c.pc \notin DuePCs, BlobsGood(blobs, data, c), Ready(folders, files, tree, bin, data, c, X)
  PROVE  MirrorWith(X, Y)'
<1>1. cmd[p].pc = "idle" /\ cmd[p].pc \notin DuePCs
  BY DEF Start, At, DuePCs, Renaming, Deleting, RowSteps
<1>2. Mirrors(folders, files, tree, data, X, Y) /\ Holds(folders, files, bin, data, X)
      /\ EntriesApart(bin) /\ Minted(files, nextFolder)
  BY <1>1, MirrorBefore
<1>3. FoldersDue(folders, nextFolder, c) = folders /\ FilesDue(folders, files, nextFile, c) = files
  BY NothingDue
<1>4. c.pc \notin CutPCs
  BY DEF CutPCs, DuePCs, RowSteps
<1>5. MirrorAt(folders, nextFolder, files, nextFile, tree, bin, blobs, data, c, X, Y)
  BY <1>2, <1>3, <1>4 DEF MirrorAt
<1>6. UNCHANGED <<folders, nextFolder, files, nextFile, tree, bin, blobs, data>>
  BY DEF Start, rows, disk
<1>7. MirrorAt(folders', nextFolder', files', nextFile', tree', bin', blobs', data', c, X, Y)
  BY <1>5, <1>6
<1> QED BY <1>7, MirrorStep DEF Start

\* A step fails and changes nothing, or makes a directory that was there.
LEMMA MirrorGivesUp ==
  ASSUME StoreInv, OneCareful, TreeInv, NEW X, NEW Y, MirrorWith(X, Y),
         NEW p \in Procs, cmd[p].pc \notin DuePCs,
         cmd[p].pc \notin {"blobOpen", "blobWrite"}, Done(p),
         UNCHANGED <<folders, nextFolder, files, nextFile, bin, blobs, data>>, Agree(tree, tree')
  PROVE  MirrorWith(X, Y)'
<1> PICK t : t = tree'
  OBVIOUS
<1>1. Calm(folders, nextFolder, files, tree, bin, blobs, data, X, Y)
  BY MirrorBefore
<1>2. Calm(folders, nextFolder, files, t, bin, blobs, data, X, Y)
  BY <1>1, AgreeMirrors DEF Calm
<1>3. Calm(folders', nextFolder', files', tree', bin', blobs', data', X, Y)
  BY <1>2
<1> QED BY <1>3, MirrorDone
-----------------------------------------------------------------------------
(* Commands start ready.                                                    *)

LEMMA CalmAtIdle ==
  ASSUME StoreInv, OneCareful, TreeInv, NEW X, NEW Y, MirrorWith(X, Y), NEW p \in Procs, At(p, "idle")
  PROVE  /\ Calm(folders, nextFolder, files, tree, bin, blobs, data, X, Y)
         /\ GoodFolders(folders, files) /\ RowsTyped(folders, files)
<1>1. cmd[p].pc \notin DuePCs /\ cmd[p].pc \notin {"blobOpen", "blobWrite"}
  BY DEF At, DuePCs, Renaming, Deleting, RowSteps
<1> QED BY <1>1, MirrorBefore

LEMMA FreeSlot ==
  ASSUME StoreInv, OneCareful, NEW n \in Names, PoliteBin(n)
  PROVE  /\ <<now, Sanitise[n]>> \in Slots
         /\ \A e \in Slots : <<e>> \in DOMAIN bin => e[2] # Sanitise[n]
         /\ \A f : Kept(folders, files, f) => Sanitise[files[f].name] # Sanitise[n]
<1>1. now \in 1..MaxTime /\ Sanitise[n] \in DiskNames
  BY StoreInvParts, NamesAssumption DEF ClockOK
<1>2. BinMatches(n) = {} /\ \A f \in DOMAIN files : files[f].binned => Sanitise[files[f].name] # Sanitise[n]
  BY DEF PoliteBin, OneCareful
<1> QED BY <1>1, <1>2 DEF BinMatches, Slots, Kept

LEMMA ArrivalReady ==
  ASSUME NEW X, NEW Y, NEW F, NEW G, NEW t, NEW s, NEW D, NEW c,
         c.pc \in Arriving \ (Departing \cup Binning \cup {"restoreDisk"}), c.dst \notin DOMAIN t,
         \A f : Alive(G, f) => RowPath(F, G, f) # c.dst
  PROVE  Ready(F, G, t, s, D, c, X)
BY DEF Ready, Arriving, Departing, Binning

LEMMA PoliteTarget ==
  ASSUME OneCareful, NEW X, NEW Y, Mirrors(folders, files, tree, data, X, Y), NEW b, Polite(b)
  PROVE  b \notin DOMAIN tree /\ \A f : Alive(files, f) => RowPath(folders, files, f) # b
<1>1. b \notin DOMAIN tree /\ \A f \in DOMAIN files : Live(f) /\ Listed(files[f].folder) => FilePath(f) # b
  BY DEF OneCareful, Polite
<1>2. ASSUME NEW f, Alive(files, f) PROVE RowPath(folders, files, f) # b
  <2>1. f \in DOMAIN files /\ Live(f) /\ Listed(files[f].folder)
    BY <1>2, LiveFile DEF Live, Alive, Listed, Has
  <2>2. FilePath(f) = RowPath(folders, files, f)
    BY DEF FilePath, PathIn, DirOf, RowPath, PathOf
  <2> QED BY <1>1, <2>1, <2>2
<1> QED BY <1>1, <1>2

LEMMA MirrorStartArriving ==
  ASSUME StoreInv, OneCareful, TreeInv, NEW X, NEW Y, MirrorWith(X, Y),
         NEW p \in Procs, NEW op, NEW c, Start(p, op, c),
         c.pc \in {"mkdir", "renameDir", "link", "blobOpen"}, Polite(c.dst),
         c.pc = "blobOpen" => c.hash \notin DOMAIN blobs
  PROVE  MirrorWith(X, Y)'
<1>1. AllGood(blobs, data) /\ Mirrors(folders, files, tree, data, X, Y)
  BY CalmAtIdle DEF Start, Calm
<1>2. BlobsGood(blobs, data, c)
  BY <1>1 DEF AllGood, BlobsGood
<1>3. c.pc \notin DuePCs
  BY DEF DuePCs, Renaming, Deleting, RowSteps
<1>4. c.dst \notin DOMAIN tree /\ \A f : Alive(files, f) => RowPath(folders, files, f) # c.dst
  BY <1>1, PoliteTarget
<1>5. Ready(folders, files, tree, bin, data, c, X)
  BY <1>4, ArrivalReady DEF Arriving, Departing, Binning
<1> QED BY <1>2, <1>3, <1>5, MirrorStart

LEMMA FolderStartsMirror ==
  ASSUME StoreInv, OneCareful, TreeInv, NEW X, NEW Y, MirrorWith(X, Y), NEW p \in Procs,
         CreateFolder(p) \/ RenameFolder(p) \/ DeleteFolder(p)
  PROVE  MirrorWith(X, Y)'
<1>1. ASSUME CreateFolder(p) PROVE MirrorWith(X, Y)'
  <2>1. PICK d, n :
          /\ Polite(PathIn(d, n))
          /\ Start(p, "create_folder",
               [Idle EXCEPT !.pc = "mkdir", !.folder = d, !.name = n, !.dst = PathIn(d, n)])
    BY <1>1 DEF CreateFolder
  <2>2. PICK c : c = [Idle EXCEPT !.pc = "mkdir", !.folder = d, !.name = n, !.dst = PathIn(d, n)]
    OBVIOUS
  <2>3. c.pc = "mkdir" /\ c.dst = PathIn(d, n)
    BY <2>2 DEF Idle
  <2> QED BY <2>1, <2>2, <2>3, MirrorStartArriving
<1>2. ASSUME RenameFolder(p) PROVE MirrorWith(X, Y)'
  <2>1. PICK g, n, to :
          /\ Polite(to)
          /\ Start(p, "rename_folder",
               [Idle EXCEPT !.pc = "renameDir", !.folder = g, !.name = n,
                            !.src = folders[g].path, !.dst = to])
    BY <1>2 DEF RenameFolder
  <2>2. PICK c : c = [Idle EXCEPT !.pc = "renameDir", !.folder = g, !.name = n,
                                  !.src = folders[g].path, !.dst = to]
    OBVIOUS
  <2>3. c.pc = "renameDir" /\ c.dst = to
    BY <2>2 DEF Idle
  <2> QED BY <2>1, <2>2, <2>3, MirrorStartArriving
<1>3. ASSUME DeleteFolder(p) PROVE MirrorWith(X, Y)'
  <2>1. PICK g \in DOMAIN folders :
          /\ PoliteBin(folders[g].name)
          /\ Start(p, "delete_folder",
               [Idle EXCEPT !.pc = "binDir", !.folder = g, !.src = folders[g].path,
                            !.slot = <<now, Sanitise[folders[g].name]>>])
    BY <1>3 DEF DeleteFolder
  <2>2. PICK e, n : n = folders[g].name /\ e = <<now, Sanitise[n]>>
    OBVIOUS
  <2>3. n \in Names
    BY <2>2, RowsAreTyped, RowTypes
  <2>4. /\ e \in Slots /\ \A d \in Slots : <<d>> \in DOMAIN bin => d[2] # e[2]
        /\ \A f : Kept(folders, files, f) => Sanitise[files[f].name] # e[2]
    BY <2>1, <2>2, <2>3, FreeSlot
  <2>5. PICK c : c = [Idle EXCEPT !.pc = "binDir", !.folder = g, !.src = folders[g].path, !.slot = e]
    OBVIOUS
  <2>6. c.pc = "binDir" /\ c.slot = e
    BY <2>5 DEF Idle
  <2>7. Ready(folders, files, tree, bin, data, c, X)
    BY <2>4, <2>6 DEF Ready, Arriving, Departing, Binning
  <2>8. BlobsGood(blobs, data, c)
    BY <2>1, <2>6, CalmAtIdle, BlobsSettled DEF Start, Calm
  <2>9. c.pc \notin DuePCs
    BY <2>6 DEF DuePCs, Renaming, Deleting, RowSteps
  <2> QED BY <2>1, <2>2, <2>5, <2>7, <2>8, <2>9, MirrorStart
<1> QED BY <1>1, <1>2, <1>3

LEMMA FileStartsMirror ==
  ASSUME StoreInv, OneCareful, TreeInv, NEW X, NEW Y, MirrorWith(X, Y), NEW p \in Procs,
         MoveFile(p) \/ RenameFile(p) \/ Ingest(p) \/ CopyFile(p)
  PROVE  MirrorWith(X, Y)'
<1>1. ASSUME NEW f, NEW op, NEW c, NEW to, Live(f), Polite(to), Start(p, op, c),
             c.pc \in {"moveDisk", "renameDisk"}, c.file = f, c.src = FilePath(f), c.dst = to
      PROVE  MirrorWith(X, Y)'
  <2>1. Alive(files, f) /\ FilePath(f) = RowPath(folders, files, f)
    BY <1>1 DEF Live, Alive, FilePath, PathIn, DirOf, RowPath, PathOf
  <2>2. to \notin DOMAIN tree /\ \A g : Alive(files, g) => RowPath(folders, files, g) # to
    BY <1>1, CalmAtIdle, PoliteTarget DEF Start, Calm
  <2>3. Ready(folders, files, tree, bin, data, c, X)
    BY <1>1, <2>1, <2>2 DEF Ready, Departing, Binning
  <2>4. BlobsGood(blobs, data, c)
    BY <1>1, CalmAtIdle, BlobsSettled DEF Start, Calm
  <2>5. c.pc \notin DuePCs
    BY <1>1 DEF DuePCs, Renaming, Deleting, RowSteps
  <2> QED BY <1>1, <2>3, <2>4, <2>5, MirrorStart
<1>2. ASSUME MoveFile(p) PROVE MirrorWith(X, Y)'
  <2>1. PICK f, d, to :
          /\ Live(f) /\ Polite(to)
          /\ Start(p, "move_file",
               [Idle EXCEPT !.pc = "moveDisk", !.file = f, !.folder = d,
                            !.src = FilePath(f), !.dst = to])
    BY <1>2 DEF MoveFile
  <2>2. PICK c : c = [Idle EXCEPT !.pc = "moveDisk", !.file = f, !.folder = d,
                                  !.src = FilePath(f), !.dst = to]
    OBVIOUS
  <2>3. c.pc = "moveDisk" /\ c.file = f /\ c.src = FilePath(f) /\ c.dst = to
    BY <2>2 DEF Idle
  <2> QED BY <1>1, <2>1, <2>2, <2>3
<1>3. ASSUME RenameFile(p) PROVE MirrorWith(X, Y)'
  <2>1. PICK f, n, to :
          /\ Live(f) /\ Polite(to)
          /\ Start(p, "rename_file",
               [Idle EXCEPT !.pc = "renameDisk", !.file = f, !.name = n,
                            !.src = FilePath(f), !.dst = to])
    BY <1>3 DEF RenameFile
  <2>2. PICK c : c = [Idle EXCEPT !.pc = "renameDisk", !.file = f, !.name = n,
                                  !.src = FilePath(f), !.dst = to]
    OBVIOUS
  <2>3. c.pc = "renameDisk" /\ c.file = f /\ c.src = FilePath(f) /\ c.dst = to
    BY <2>2 DEF Idle
  <2> QED BY <1>1, <2>1, <2>2, <2>3
<1>4. ASSUME Ingest(p) PROVE MirrorWith(X, Y)'
  <2>1. PICK h, n, d, to :
          /\ Polite(to)
          /\ Start(p, "ingest",
               [Idle EXCEPT !.pc = IF h \in DOMAIN blobs THEN "link" ELSE "blobOpen",
                            !.hash = h, !.name = n, !.folder = d, !.dst = to])
    BY <1>4 DEF Ingest
  <2>2. PICK c : c = [Idle EXCEPT !.pc = IF h \in DOMAIN blobs THEN "link" ELSE "blobOpen",
                                  !.hash = h, !.name = n, !.folder = d, !.dst = to]
    OBVIOUS
  <2>3. /\ c.pc = IF h \in DOMAIN blobs THEN "link" ELSE "blobOpen"
        /\ c.hash = h /\ c.dst = to
    BY <2>2 DEF Idle
  <2>4. /\ c.pc \in {"mkdir", "renameDir", "link", "blobOpen"}
        /\ c.pc = "blobOpen" => c.hash \notin DOMAIN blobs
    BY <2>3
  <2>5. Polite(c.dst)
    BY <2>1, <2>3
  <2>6. Start(p, "ingest", c)
    BY <2>1, <2>2
  <2> QED BY <2>4, <2>5, <2>6, MirrorStartArriving
<1>5. ASSUME CopyFile(p) PROVE MirrorWith(X, Y)'
  <2>1. PICK h, n, d, to :
          /\ Polite(to)
          /\ Start(p, "copy_file",
               [Idle EXCEPT !.pc = "link", !.hash = h, !.name = n, !.folder = d, !.dst = to])
    BY <1>5 DEF CopyFile
  <2>2. PICK c : c = [Idle EXCEPT !.pc = "link", !.hash = h, !.name = n, !.folder = d, !.dst = to]
    OBVIOUS
  <2>3. c.pc = "link" /\ c.dst = to
    BY <2>2 DEF Idle
  <2> QED BY <2>1, <2>2, <2>3, MirrorStartArriving
<1> QED BY <1>2, <1>3, <1>4, <1>5

\* Restoring finds the entry of the row, if it has one: names are apart in the bin.
LEMMA NewestEntry ==
  ASSUME NEW f \in DOMAIN files, files[f].binned, Listed(files[f].from),
         NEW X, Holds(folders, files, bin, data, X), EntriesApart(bin), NEW e \in Newest(files[f].name)
  PROVE  /\ Kept(folders, files, f)
         /\ IF f \in X THEN e = Nil ELSE IsEntry(files, bin, data, f, e)
<1>1. Kept(folders, files, f)
  BY DEF Kept, Listed, Has
<1>2. CASE f \in X
  <2>1. \A d \in Slots : <<d>> \in DOMAIN bin => d[2] # Sanitise[files[f].name]
    BY <1>1, <1>2 DEF Holds
  <2>2. BinMatches(files[f].name) = {}
    BY <2>1 DEF BinMatches
  <2>3. e = Nil
    BY <2>2 DEF Newest
  <2> QED BY <1>1, <1>2, <2>3
<1>3. CASE f \notin X
  <2>1. PICK d \in Slots : IsEntry(files, bin, data, f, d)
    BY <1>1, <1>3 DEF Holds
  <2>2. d \in BinMatches(files[f].name)
    BY <2>1 DEF IsEntry, IsFile, BinMatches
  <2>3. e \in BinMatches(files[f].name)
    BY <2>2 DEF Newest
  <2>4. e = d
    BY <2>2, <2>3 DEF BinMatches, EntriesApart
  <2> QED BY <1>1, <1>3, <2>1, <2>4
<1> QED BY <1>2, <1>3

LEMMA BinStartsMirror ==
  ASSUME StoreInv, OneCareful, TreeInv, NEW X, NEW Y, MirrorWith(X, Y),
         NEW p \in Procs, DeleteFile(p) \/ Restore(p)
  PROVE  MirrorWith(X, Y)'
<1>1. ASSUME DeleteFile(p) PROVE MirrorWith(X, Y)'
  <2>1. PICK f \in DOMAIN files :
          /\ Live(f) /\ PoliteBin(files[f].name)
          /\ Start(p, "delete_file",
               [Idle EXCEPT !.pc = "binDisk", !.file = f, !.folder = files[f].folder,
                            !.src = FilePath(f), !.slot = <<now, Sanitise[files[f].name]>>])
    BY <1>1 DEF DeleteFile
  <2>2. PICK e, n : n = files[f].name /\ e = <<now, Sanitise[n]>>
    OBVIOUS
  <2>3. n \in Names
    BY <2>2, RowsAreTyped, RowTypes
  <2>4. /\ e \in Slots /\ e[2] = Sanitise[n] /\ \A d \in Slots : <<d>> \in DOMAIN bin => d[2] # e[2]
        /\ \A g : Kept(folders, files, g) => Sanitise[files[g].name] # e[2]
    BY <2>1, <2>2, <2>3, FreeSlot
  <2>5. PICK c : c = [Idle EXCEPT !.pc = "binDisk", !.file = f, !.folder = files[f].folder,
                                  !.src = FilePath(f), !.slot = e]
    OBVIOUS
  <2>6. /\ c.pc = "binDisk" /\ c.file = f /\ c.folder = files[f].folder /\ c.src = FilePath(f)
        /\ c.slot = e
    BY <2>5 DEF Idle
  <2>7. Alive(files, f) /\ FilePath(f) = RowPath(folders, files, f)
    BY <2>1 DEF Live, Alive, FilePath, PathIn, DirOf, RowPath, PathOf
  <2>8. Ready(folders, files, tree, bin, data, c, X)
    BY <2>2, <2>4, <2>6, <2>7 DEF Ready, Arriving, Binning
  <2>9. BlobsGood(blobs, data, c)
    BY <2>1, <2>6, CalmAtIdle, BlobsSettled DEF Start, Calm
  <2>10. c.pc \notin DuePCs
    BY <2>6 DEF DuePCs, Renaming, Deleting, RowSteps
  <2> QED BY <2>1, <2>2, <2>5, <2>8, <2>9, <2>10, MirrorStart
<1>2. ASSUME Restore(p) PROVE MirrorWith(X, Y)'
  <2>1. PICK f, e, to :
          /\ f \in DOMAIN files /\ e \in Newest(files[f].name)
          /\ files[f].binned /\ Listed(files[f].from) /\ Polite(to)
          /\ Start(p, "restore",
               [Idle EXCEPT !.pc = "restoreDisk", !.file = f, !.slot = e, !.dst = to])
    BY <1>2 DEF Restore
  <2>2. Holds(folders, files, bin, data, X) /\ EntriesApart(bin)
    BY <2>1, CalmAtIdle DEF Start, Calm
  <2>3. Kept(folders, files, f) /\ IF f \in X THEN e = Nil ELSE IsEntry(files, bin, data, f, e)
    BY <2>1, <2>2, NewestEntry
  <2>4. PICK c : c = [Idle EXCEPT !.pc = "restoreDisk", !.file = f, !.slot = e, !.dst = to]
    OBVIOUS
  <2>5. c.pc = "restoreDisk" /\ c.file = f /\ c.slot = e /\ c.dst = to
    BY <2>4 DEF Idle
  <2>6. to \notin DOMAIN tree /\ \A g : Alive(files, g) => RowPath(folders, files, g) # to
    BY <2>1, CalmAtIdle, PoliteTarget DEF Start, Calm
  <2>7. Ready(folders, files, tree, bin, data, c, X)
    BY <2>3, <2>5, <2>6 DEF Ready, Departing, Binning
  <2>8. BlobsGood(blobs, data, c)
    BY <2>1, <2>5, CalmAtIdle, BlobsSettled DEF Start, Calm
  <2>9. c.pc \notin DuePCs
    BY <2>5 DEF DuePCs, Renaming, Deleting, RowSteps
  <2> QED BY <2>1, <2>4, <2>7, <2>8, <2>9, MirrorStart
<1> QED BY <1>1, <1>2
\* Emptying the bin starts with its files gone and the purge of its rows due.
LEMMA EmptyBinMirror ==
  ASSUME StoreInv, OneCareful, TreeInv, NEW X, NEW Y, MirrorWith(X, Y), NEW p \in Procs, EmptyBin(p)
  PROVE  MirrorWith(X, Y)'
<1>1. /\ Calm(folders, nextFolder, files, tree, bin, blobs, data, X, Y)
      /\ UNCHANGED <<folders, nextFolder, files, nextFile, tree, blobs, data>>
  BY CalmAtIdle DEF EmptyBin, rows
<1> PICK c, s : c = [Idle EXCEPT !.pc = "purgeRows"] /\ s = bin'
  OBVIOUS
<1>2. c.pc = "purgeRows" /\ cmd' = [cmd EXCEPT ![p] = c]
  BY DEF EmptyBin, Idle
<1>3. DOMAIN s \subseteq DOMAIN bin /\ \A q \in DOMAIN s : s[q] = bin[q]
  BY DEF EmptyBin
<1> PICK H : H = FilesDue(folders, files, nextFile, c)
  OBVIOUS
<1>4. /\ DOMAIN H = {f \in DOMAIN files : ~files[f].binned} /\ \A f \in DOMAIN H : H[f] = files[f]
      /\ FoldersDue(folders, nextFolder, c) = folders
  BY <1>2 DEF FilesDue, FoldersDue, Settled, Renaming, Deleting
<1>5. \A f : Alive(H, f) <=> Alive(files, f)
  BY <1>4 DEF Alive
<1>6. Mirrors(folders, H, tree, data, X, Y)
  <2>1. Mirrors(folders, files, tree, data, X, Y)
    BY <1>1 DEF Calm
  <2>2. \A f : Alive(H, f) => f \in DOMAIN files /\ H[f] = files[f] /\ RowPath(folders, H, f) = RowPath(folders, files, f)
    BY <1>4 DEF Alive, RowPath
  <2>3. \A f : Alive(files, f) => f \in DOMAIN H
    BY <1>5 DEF Alive
  <2>4. InPlace(folders, H, tree, data, X)
    BY <1>5, <2>1, <2>2 DEF Mirrors, InPlace, Filed
  <2>5. RowsApart(folders, H)
    BY <1>5, <2>1, <2>2 DEF Mirrors, RowsApart
  <2>6. NothingElse(folders, H, tree, Y)
    BY <1>5, <2>1, <2>2, <2>3 DEF Mirrors, NothingElse
  <2> QED BY <2>1, <2>4, <2>5, <2>6 DEF Mirrors
<1>7. Holds(folders, H, s, data, X)
  BY <1>4 DEF Holds, Kept
<1>8. EntriesApart(s)
  BY <1>1, <1>3 DEF Calm, EntriesApart, IsFile
<1>9. Minted(H, nextFolder)
  BY <1>1, <1>4 DEF Calm, Minted
<1>10. Calm(folders, nextFolder, H, tree, s, blobs, data, X, Y)
  BY <1>1, <1>6, <1>7, <1>8, <1>9 DEF Calm
<1>11. Ready(folders, files, tree, s, data, c, X)
  BY <1>2, NothingToReady DEF DuePCs
<1>12. MirrorAt(folders, nextFolder, files, nextFile, tree, s, blobs, data, c, X, Y)
  BY <1>2, <1>4, <1>10, <1>11, CalmAt DEF CutPCs
<1>13. MirrorAt(folders', nextFolder', files', nextFile', tree', bin', blobs', data', c, X, Y)
  BY <1>1, <1>12
<1> QED BY <1>2, <1>13, MirrorStep
-----------------------------------------------------------------------------
(* The steps on the disk.                                                   *)

\* A change of the trees that the rows due from now on answer.
LEMMA MirrorGoesOn ==
  ASSUME StoreInv, OneCareful, NEW p \in Procs, NEW to \in DuePCs, Goto(p, to),
         UNCHANGED <<folders, nextFolder, files, nextFile, blobs, data>>,
         NEW t, t = tree', NEW s, s = bin',
         NEW X, NEW Y, \A c : c.pc = to /\ SameLocals(c, cmd[p]) =>
           Calm(FoldersDue(folders, nextFolder, c), nextFolder,
                FilesDue(folders, files, nextFile, c), t, s, blobs, data, X, Y),
         to \in CutPCs => CutShort(folders, nextFolder, files, nextFile, t, s, blobs, data, X, Y)
  PROVE  MirrorWith(X, Y)'
<1>1. to \notin {"blobOpen", "blobWrite"}
  BY DEF DuePCs, Renaming, Deleting, RowSteps
<1>2. ASSUME NEW c, c.pc = to, SameLocals(c, cmd[p])
      PROVE  MirrorAt(folders', nextFolder', files', nextFile', tree', bin', blobs', data', c, X, Y)
  <2>1. Ready(folders, files, t, s, data, c, X)
    BY <1>2, NothingToReady
  <2>2. MirrorAt(folders, nextFolder, files, nextFile, t, s, blobs, data, c, X, Y)
    BY <1>1, <1>2, <2>1, CalmAt
  <2> QED BY <2>2
<1> QED BY <1>2, MirrorGoto

LEMMA MakeDirMirror ==
  ASSUME StoreInv, OneCareful, TreeInv, NEW X, NEW Y, MirrorWith(X, Y), NEW p \in Procs, MakeDir(p)
  PROVE  MirrorWith(X, Y)'
<1> PICK d, t : d = cmd[p] /\ t = MkdirAll(tree, d.dst)
  OBVIOUS
<1>1. /\ d.pc = "mkdir" /\ d.name \in Names
      /\ UNCHANGED <<folders, nextFolder, files, nextFile, bin, blobs, data>>
  BY CommandIsTyped DEF MakeDir, At, rows, LocalsOK, NamedPCs, FolderInserts
<1>2. d.pc \notin DuePCs /\ d.pc \notin {"blobOpen", "blobWrite"}
  BY <1>1 DEF DuePCs, Renaming, Deleting, RowSteps
<1>3. /\ Calm(folders, nextFolder, files, tree, bin, blobs, data, X, Y)
      /\ GoodFolders(folders, files) /\ RowsTyped(folders, files)
      /\ HoldsTarget(folders, files, tree, d) /\ TreePathsOK
      /\ Ready(folders, files, tree, bin, data, d, X)
  BY <1>2, MirrorBefore
<1>4. CASE ~CanMkdirAll(tree, d.dst)
  <2>1. Done(p) /\ Agree(tree, tree')
    BY <1>4 DEF MakeDir, Agree
  <2> QED BY <1>1, <1>2, <2>1, MirrorGivesUp
<1>5. CASE CanMkdirAll(tree, d.dst)
  <2>1. Goto(p, "insertFolder") /\ tree' = t
    BY <1>5 DEF MakeDir
  <2>2. Has(folders, d.folder) /\ d.dst = Append(PathOf(folders, d.folder), Sanitise[d.name])
    BY <1>1, <1>3 DEF HoldsTarget, Making, FolderInserts
  <2>3. d.dst \notin DOMAIN tree /\ \A f : Alive(files, f) => RowPath(folders, files, f) # d.dst
    BY <1>1, <1>3 DEF Ready, Arriving
  <2>4. Sanitise[d.name] \in DiskNames
    BY <1>1, NamesAssumption
  <2>5. nextFolder \notin DOMAIN folders /\ nextFolder # Root
    BY StoreInvParts DEF RowsOK, Root
  <2>6. ASSUME NEW c, c.pc = "insertFolder", SameLocals(c, d)
        PROVE  Calm(FoldersDue(folders, nextFolder, c), nextFolder,
                    FilesDue(folders, files, nextFile, c), t, bin, blobs, data, X, Y)
    <3> PICK E : E = FoldersDue(folders, nextFolder, c)
      OBVIOUS
    <3>1. /\ DOMAIN E = DOMAIN folders \cup {nextFolder}
          /\ \A h \in DOMAIN folders : E[h] = folders[h]
          /\ E[nextFolder].path = d.dst
      BY <2>5, <2>6 DEF FoldersDue, SameLocals
    <3>2. FilesDue(folders, files, nextFile, c) = files
      BY <2>6 DEF FilesDue, RowSteps
    <3>3. Mirrors(folders, files, tree, data, X, Y) /\ DOMAIN tree \subseteq TreePaths
      BY <1>3 DEF Calm, TreePathsOK
    <3>4. Mirrors(E, files, t, data, X, Y)
      <4> PICK b, n : b = d.dst /\ n = Sanitise[d.name]
        OBVIOUS
      <4>1. /\ Has(folders, d.folder) /\ n \in DiskNames /\ b = Append(PathOf(folders, d.folder), n)
            /\ b \notin DOMAIN tree /\ CanMkdirAll(tree, b) /\ t = MkdirAll(tree, b)
            /\ E[nextFolder].path = b /\ \A f : Alive(files, f) => RowPath(folders, files, f) # b
        BY <1>5, <2>2, <2>3, <2>4, <3>1
      <4>2. Mirrors(E, files, MkdirAll(tree, b), data, X, Y)
        <5>1. /\ RowsTyped(folders, files) /\ GoodFolders(folders, files)
              /\ DOMAIN E = DOMAIN folders \cup {nextFolder} /\ \A h \in DOMAIN folders : E[h] = folders[h]
          BY <1>3, <3>1
        <5> QED BY <2>5, <3>3, <4>1, <5>1, FolderComes, ZenonT(40)
      <4> QED BY <4>1, <4>2
    <3>5. \A f : Kept(E, files, f) => Kept(folders, files, f)
      <4>1. \A f \in DOMAIN files : files[f].from # nextFolder
        BY <1>3, RowTypes, StoreInvParts DEF Calm, Minted, RowsOK
      <4> QED BY <3>1, <4>1 DEF Kept, Has
    <3>6. Holds(E, files, bin, data, X)
      BY <1>3, <3>5, FewerKept DEF Calm
    <3> QED BY <1>3, <3>2, <3>4, <3>6 DEF Calm
  <2> QED BY <1>1, <2>1, <2>6, MirrorGoesOn DEF DuePCs, CutPCs
<1> QED BY <1>4, <1>5

LEMMA RenameDirMirror ==
  ASSUME StoreInv, OneCareful, TreeInv, NEW X, NEW Y, MirrorWith(X, Y), NEW p \in Procs, RenameDir(p)
  PROVE  MirrorWith(X, Y)' \/ \E a, b : MirrorWith(X, MovedAll(Y, a, b))'
<1> PICK d, t, Z : d = cmd[p] /\ t = Move(tree, d.src, d.dst) /\ Z = MovedAll(Y, d.src, d.dst)
  OBVIOUS
<1>1. /\ d.pc = "renameDir"
      /\ UNCHANGED <<folders, nextFolder, files, nextFile, bin, blobs, data>>
  BY DEF RenameDir, At, rows
<1>2. d.pc \notin DuePCs /\ d.pc \notin {"blobOpen", "blobWrite"}
  BY <1>1 DEF DuePCs, Renaming, Deleting, RowSteps
<1>3. /\ Calm(folders, nextFolder, files, tree, bin, blobs, data, X, Y)
      /\ GoodFolders(folders, files) /\ RowsTyped(folders, files)
      /\ HoldsTarget(folders, files, tree, d) /\ TreePathsOK
      /\ Ready(folders, files, tree, bin, data, d, X)
  BY <1>2, MirrorBefore
<1>4. CASE ~CanMove(tree, d.src, d.dst)
  <2>1. Done(p) /\ Agree(tree, tree')
    BY <1>4 DEF RenameDir, Agree
  <2> QED BY <1>1, <1>2, <2>1, MirrorGivesUp
<1>5. CASE CanMove(tree, d.src, d.dst)
  <2>1. Goto(p, "updateFolder") /\ tree' = t
    BY <1>5 DEF RenameDir
  <2>2. Sibling(folders, files, d.folder, d.name, d.src, d.dst) /\ d.dst \notin DOMAIN tree
    BY <1>1, <1>3 DEF HoldsTarget, Ready, Arriving
  <2>3. ASSUME NEW c, c.pc = "updateFolder", SameLocals(c, d)
        PROVE  Calm(FoldersDue(folders, nextFolder, c), nextFolder,
                    FilesDue(folders, files, nextFile, c), t, bin, blobs, data, X, Z)
    <3> PICK E : E = Rewritten(folders, c)
      OBVIOUS
    <3>1. RenamedRows(folders, E, d.folder, d.name, d.src, d.dst)
      <4>1. Sibling(folders, files, c.folder, c.name, c.src, c.dst)
        BY <2>2, <2>3 DEF SameLocals
      <4>2. RenamedRows(folders, E, c.folder, c.name, c.src, c.dst)
        BY <1>3, <2>3, <4>1, RewrittenRows
      <4> QED BY <2>3, <4>2 DEF SameLocals
    <3>2. FoldersDue(folders, nextFolder, c) = E /\ FilesDue(folders, files, nextFile, c) = files
      BY <2>3 DEF FoldersDue, FilesDue, Settled, Renaming, RowSteps
    <3>3. Mirrors(folders, files, tree, data, X, Y) /\ DOMAIN tree \subseteq TreePaths
      BY <1>3 DEF Calm, TreePathsOK
    <3>4. Mirrors(E, files, t, data, X, Z)
      BY <1>3, <2>2, <3>1, <3>3, FolderMoves
    <3>5. \A f : Kept(E, files, f) => Kept(folders, files, f)
      BY <3>1 DEF RenamedRows, Kept, Has
    <3>6. Holds(E, files, bin, data, X)
      BY <1>3, <3>5, FewerKept DEF Calm
    <3> QED BY <1>3, <3>2, <3>4, <3>6 DEF Calm
  <2>4. MirrorWith(X, Z)'
    BY <1>1, <2>1, <2>3, MirrorGoesOn DEF DuePCs, Renaming, CutPCs
  <2> QED BY <2>4
<1> QED BY <1>4, <1>5

LEMMA BinDirMirror ==
  ASSUME StoreInv, MirrorWorld, TreeInv, NEW X, NEW Y, MirrorWith(X, Y), NEW p \in Procs, BinDir(p)
  PROVE  MirrorWith(X, Y)'
<1> USE DEF MirrorWorld
<1> PICK d, a, e : d = cmd[p] /\ a = d.src /\ e = d.slot
  OBVIOUS
<1> PICK t, s : t = RenamedFrom(tree, a, bin, <<e>>) /\ s = RenamedTo(tree, a, bin, <<e>>)
  OBVIOUS
<1>1. /\ d.pc = "binDir" /\ a \in TreePaths
      /\ UNCHANGED <<folders, nextFolder, files, nextFile, blobs, data>>
  BY CommandIsTyped, PathsInTrees DEF BinDir, At, rows
<1>2. d.pc \notin DuePCs /\ d.pc \notin {"blobOpen", "blobWrite"}
  BY <1>1 DEF DuePCs, Renaming, Deleting, RowSteps
<1>3. /\ Calm(folders, nextFolder, files, tree, bin, blobs, data, X, Y)
      /\ GoodFolders(folders, files) /\ RowsTyped(folders, files)
      /\ HoldsTarget(folders, files, tree, d) /\ TreePathsOK
      /\ Ready(folders, files, tree, bin, data, d, X)
  BY <1>2, MirrorBefore
<1>4. CASE ~CanRename(tree, a, bin, <<e>>)
  <2>1. Done(p) /\ UNCHANGED bin /\ Agree(tree, tree')
    BY <1>4 DEF BinDir, Agree
  <2> QED BY <1>1, <1>2, <2>1, MirrorGivesUp
<1>5. CASE CanRename(tree, a, bin, <<e>>)
  <2>1. Goto(p, "binFiles") /\ tree' = t /\ bin' = s
    BY <1>5 DEF BinDir
  <2>2. d.folder \in DOMAIN folders /\ a = folders[d.folder].path
    BY <1>1, <1>3 DEF HoldsTarget
  <2>3. /\ e \in Slots /\ \A x \in Slots : <<x>> \in DOMAIN bin => x[2] # e[2]
        /\ \A f : Kept(folders, files, f) => Sanitise[files[f].name] # e[2]
    BY <1>1, <1>3 DEF Ready, Binning
  <2>4. Mirrors(folders, files, tree, data, X, Y)
    BY <1>3 DEF Calm
  <2>5. IsDir(tree, a)
    BY <2>2, <2>4 DEF Mirrors, OnDisk
  <2>6. t = Prune(tree, a)
    BY <2>5 DEF RenamedFrom, SameFile, IsFile, IsDir
  <2>7. a \in DOMAIN tree /\ ~IsFile(tree, a) /\ DOMAIN tree \subseteq TreePaths /\ DOMAIN bin \subseteq TreePaths
    BY <1>3, <2>5 DEF IsDir, IsFile, TreePathsOK
  <2>8. EntriesApart(bin)
    BY <1>3 DEF Calm
  <2>9. /\ \A x \in Slots : <<x>> \in DOMAIN bin => <<x>> \in DOMAIN s /\ s[<<x>>] = bin[<<x>>]
        /\ \A x \in Slots : <<x>> \in DOMAIN s => x = e \/ <<x>> \in DOMAIN bin
        /\ EntriesApart(s)
    BY <1>1, <2>3, <2>7, <2>8, EntryComes
  <2>10. ASSUME NEW c, c.pc = "binFiles", SameLocals(c, d)
        PROVE  Calm(FoldersDue(folders, nextFolder, c), nextFolder,
                    FilesDue(folders, files, nextFile, c), t, s, blobs, data, X, Y)
    <3> PICK E, H : E = FoldersDue(folders, nextFolder, c) /\ H = FilesDue(folders, files, nextFile, c)
      OBVIOUS
    <3> PICK W : W = DoomedOf(folders, d.folder, a)
      OBVIOUS
    <3>1. DOMAIN E = DOMAIN folders \ W /\ \A g \in DOMAIN E : E[g] = folders[g]
      BY <2>10 DEF FoldersDue, Settled, Renaming, Deleting, Dropped, SameLocals
    <3>2. /\ DOMAIN H = DOMAIN files
          /\ \A f \in DOMAIN files :
               H[f] = IF files[f].folder \in W
                        THEN [files[f] EXCEPT !.binned = TRUE, !.from = files[f].folder] ELSE files[f]
      BY <2>10 DEF FilesDue, SameLocals, RowSteps
    <3>3. \A f \in DOMAIN files : files[f] \in File
      BY <1>3 DEF RowsTyped
    <3>4. \A f \in DOMAIN files :
            IF files[f].folder \in W
              THEN H[f].binned /\ H[f].from = files[f].folder /\ H[f].folder = files[f].folder
              ELSE H[f] = files[f]
      BY <3>2, <3>3 DEF File
    <3>5. Mirrors(E, H, Prune(tree, a), data, X, Y)
      <4>1. FolderBinned(folders, files, d.folder, a, E, H)
        BY <3>1, <3>2, <3>4 DEF FolderBinned
      <4> QED BY <1>3, <2>2, <2>4, <2>7, <4>1, FolderGoes
    <3>6. \A f : Kept(E, H, f) => Kept(folders, files, f) /\ H[f].name = files[f].name /\ H[f].hash = files[f].hash
      <4>1. W \subseteq DOMAIN folders /\ Root \notin DOMAIN folders
        BY <1>3 DEF DoomedOf, RowsTyped, FolderIds, Root
      <4>2. ASSUME NEW f, Kept(E, H, f)
            PROVE  f \in DOMAIN files /\ files[f].folder \notin W
        BY <3>1, <3>2, <3>4, <4>1, <4>2 DEF Kept, Has
      <4> QED BY <3>1, <3>4, <4>2 DEF Kept, Has
    <3>7. Holds(E, H, s, data, X)
      <4>1. \A x \in Slots : <<x>> \in DOMAIN s =>
              <<x>> \in DOMAIN bin \/ \A f : Kept(folders, files, f) => Sanitise[files[f].name] # x[2]
        BY <2>3, <2>9
      <4> QED BY <1>3, <2>9, <3>6, <4>1, FewerKept DEF Calm
    <3>8. Minted(H, nextFolder)
      BY <1>3, <3>2, <3>4 DEF Calm, Minted
    <3> QED BY <1>3, <2>6, <2>9, <3>5, <3>7, <3>8 DEF Calm
  <2> QED BY <1>1, <2>1, <2>10, MirrorGoesOn DEF DuePCs, CutPCs
<1> QED BY <1>4, <1>5

\* The file of a command on a file, if its row has one, has nothing below it.
LEMMA FileIsLeaf ==
  ASSUME StoreInv, OneCareful, TreeInv, NEW X, NEW Y, MirrorWith(X, Y),
         NEW p \in Procs, cmd[p].pc \in Departing
  PROVE  /\ Calm(folders, nextFolder, files, tree, bin, blobs, data, X, Y)
         /\ cmd[p].pc \notin DuePCs /\ cmd[p].pc \notin {"blobOpen", "blobWrite"}
         /\ Alive(files, cmd[p].file) /\ cmd[p].src = RowPath(folders, files, cmd[p].file)
         /\ cmd[p].src \in TreePaths /\ DOMAIN tree \subseteq TreePaths
         /\ cmd[p].file \in X => cmd[p].src \notin DOMAIN tree
         /\ cmd[p].file \notin X => /\ Leaf(tree, cmd[p].src) /\ IsFile(tree, cmd[p].src)
                                    /\ data[tree[cmd[p].src]] = files[cmd[p].file].hash
<1> PICK d, a : d = cmd[p] /\ a = d.src
  OBVIOUS
<1>1. d.pc \notin DuePCs /\ d.pc \notin {"blobOpen", "blobWrite"}
  BY DEF DuePCs, Renaming, Deleting, RowSteps, Departing
<1>2. /\ Calm(folders, nextFolder, files, tree, bin, blobs, data, X, Y)
      /\ GoodFolders(folders, files) /\ RowsTyped(folders, files) /\ TreePathsOK
      /\ HoldsTarget(folders, files, tree, d) /\ Ready(folders, files, tree, bin, data, d, X)
  BY <1>1, MirrorBefore
<1>3. Alive(files, d.file) /\ a = RowPath(folders, files, d.file)
  BY <1>2 DEF Ready
<1>4. Mirrors(folders, files, tree, data, X, Y) /\ DOMAIN tree \subseteq TreePaths
  BY <1>2 DEF Calm, TreePathsOK
<1>5. Has(folders, files[d.file].folder) /\ Filed(folders, files, tree, data, X, d.file)
  BY <1>3, <1>4, LiveFile
<1>6. a \in Paths /\ a \notin FolderPaths(folders) /\ a # <<>>
  BY <1>2, <1>3, <1>5, LivePaths
<1>7. d.file \in X => a \notin DOMAIN tree
  BY <1>3, <1>5 DEF Filed
<1>8. d.file \notin X => IsFile(tree, a) /\ data[tree[a]] = files[d.file].hash
  BY <1>3, <1>5 DEF Filed
<1>9. IsFile(tree, a) => Leaf(tree, a)
  <2>1. \A q \in DOMAIN tree : IsPrefix(a, q) => q = a
    BY <1>2, <1>4, <1>6, NothingBelow DEF GoodFolders
  <2> QED BY <2>1 DEF Leaf, IsFile
<1> QED BY <1>1, <1>2, <1>3, <1>4, <1>6, <1>7, <1>8, <1>9, PathsInTrees

\* Nothing is at or below the target of a file, which is in a folder.
LEMMA TargetIsClear ==
  ASSUME StoreInv, OneCareful, TreeInv, NEW X, NEW Y, MirrorWith(X, Y), NEW p \in Procs,
         cmd[p].pc \in {"moveDisk", "renameDisk", "restoreDisk", "link"}
  PROVE  /\ cmd[p].dst \in TreePaths /\ cmd[p].dst \notin DOMAIN tree /\ Clear(tree, cmd[p].dst)
         /\ InAFolder(folders, cmd[p].dst)
         /\ \A f : Alive(files, f) => RowPath(folders, files, f) # cmd[p].dst
<1> PICK d, b : d = cmd[p] /\ b = d.dst
  OBVIOUS
<1>1. d.pc \notin DuePCs /\ d.pc \notin {"blobOpen", "blobWrite"}
  BY DEF DuePCs, Renaming, Deleting, RowSteps
<1>2. /\ Calm(folders, nextFolder, files, tree, bin, blobs, data, X, Y)
      /\ GoodFolders(folders, files) /\ RowsTyped(folders, files) /\ TreePathsOK
      /\ HoldsTarget(folders, files, tree, d) /\ Ready(folders, files, tree, bin, data, d, X)
  BY <1>1, MirrorBefore
<1>3. b \notin DOMAIN tree /\ \A f : Alive(files, f) => RowPath(folders, files, f) # b
  BY <1>2 DEF Ready, Arriving
<1>4. b \in Paths /\ b # <<>> /\ b \notin FolderPaths(folders)
  BY <1>2, CommandIsTyped DEF HoldsTarget, Free, FileInserts, Moving, RenamingFile, Restoring
<1>5. \A q \in DOMAIN tree : IsPrefix(b, q) => q = b
  BY <1>2, <1>4, NothingBelow DEF GoodFolders, Calm
<1>6. Clear(tree, b)
  BY <1>3, <1>5 DEF Clear
<1>7. InAFolder(folders, b)
  <2>1. d.pc \in {"link", "renameDisk"} => Sanitise[d.name] \in DiskNames
    BY CommandIsTyped, NamesAssumption DEF LocalsOK, NamedPCs, FileInserts
  <2>2. \A f \in DOMAIN files : Sanitise[files[f].name] \in DiskNames
    BY <1>2, RowTypes, NamesAssumption
  <2>3. CASE d.pc = "link"
    BY <1>2, <2>1, <2>3 DEF HoldsTarget, FileInserts, InAFolder
  <2>4. CASE d.pc = "moveDisk"
    BY <1>2, <2>2, <2>4 DEF HoldsTarget, Moving, InAFolder
  <2>5. CASE d.pc = "restoreDisk"
    BY <1>2, <2>2, <2>5 DEF HoldsTarget, Restoring, InAFolder
  <2>6. CASE d.pc = "renameDisk"
    BY <1>2, <2>1, <2>6 DEF HoldsTarget, RenamingFile, InAFolder
  <2> QED BY <2>3, <2>4, <2>5, <2>6
<1> QED BY <1>3, <1>4, <1>6, <1>7, PathsInTrees

\* The directory of the target is there: making it changes nothing.
LEMMA TargetFolderMade ==
  ASSUME StoreInv, OneCareful, TreeInv, NEW X, NEW Y, MirrorWith(X, Y), NEW p \in Procs,
         cmd[p].pc \in {"moveDisk", "restoreDisk", "link"}, NEW k, k = Front(cmd[p].dst)
  PROVE  CanMkdirAll(tree, k) /\ Agree(tree, MkdirAll(tree, k))
<1> PICK d : d = cmd[p]
  OBVIOUS
<1>1. d.pc \notin DuePCs /\ d.pc \notin {"blobOpen", "blobWrite"}
  BY DEF DuePCs, Renaming, Deleting, RowSteps
<1>2. /\ Calm(folders, nextFolder, files, tree, bin, blobs, data, X, Y)
      /\ GoodFolders(folders, files) /\ RowsTyped(folders, files) /\ TreePathsOK
  BY <1>1, MirrorBefore
<1>3. PICK x, m : Has(folders, x) /\ m \in DiskNames /\ d.dst = Append(PathOf(folders, x), m)
  BY TargetIsClear DEF InAFolder
<1>4. k = PathOf(folders, x)
  <2>1. PathOf(folders, x) \in Seq(DiskNames)
    BY <1>2, <1>3, RowTypes DEF Paths
  <2> QED BY <1>3, <2>1, PrefixAppend
<1>5. Mirrors(folders, files, tree, data, X, Y) /\ DOMAIN tree \subseteq TreePaths /\ Closed(folders)
  BY <1>2 DEF Calm, TreePathsOK, GoodFolders
<1> QED BY <1>2, <1>3, <1>4, <1>5, FolderIsMade

LEMMA RowMinted ==
  ASSUME StoreInv
  PROVE  0 \in 0..(nextFile - 1) \ DOMAIN files /\ DOMAIN files \subseteq 0..(nextFile - 1)
BY StoreInvParts DEF RowsOK

LEMMA HasMinted ==
  ASSUME StoreInv, NEW d, Has(folders, d)
  PROVE  d < nextFolder /\ Root < nextFolder
BY StoreInvParts DEF RowsOK, Has, Root

\* H is G but for the row f.
OneRow(G, H, f) == DOMAIN H = DOMAIN G /\ \A g \in DOMAIN G : g # f => H[g] = G[g]

LEMMA OneRowSame ==
  ASSUME NEW F, NEW G, NEW H, NEW f, OneRow(G, H, f)
  PROVE  SameBut(G, H, f) /\ SameKept(F, G, H, f)
BY DEF OneRow, SameBut, SameKept, Alive, Kept

\* Rows that are not live, or not kept, may be astray; so may paths.
LEMMA MirrorsMore ==
  ASSUME NEW F, NEW G, NEW t, NEW D, NEW X, NEW Y, Mirrors(F, G, t, D, X, Y),
         NEW f, f \in X \/ ~Alive(G, f)
  PROVE  Mirrors(F, G, t, D, X \cup {f}, Y)
<1>1. InPlace(F, G, t, D, X \cup {f})
  BY DEF Mirrors, InPlace, Filed
<1> QED BY <1>1 DEF Mirrors

LEMMA StraysMore ==
  ASSUME NEW F, NEW G, NEW t, NEW D, NEW X, NEW Y, Mirrors(F, G, t, D, X, Y), NEW q
  PROVE  Mirrors(F, G, t, D, X, Y \cup {q})
<1>1. NothingElse(F, G, t, Y \cup {q})
  BY DEF Mirrors, NothingElse
<1> QED BY <1>1 DEF Mirrors

LEMMA HoldsMore ==
  ASSUME NEW F, NEW G, NEW s, NEW D, NEW X, Holds(F, G, s, D, X), NEW f, f \in X \/ ~Kept(F, G, f)
  PROVE  Holds(F, G, s, D, X \cup {f})
BY DEF Holds

\* The file of a live row went to b, and the command stops there.
LEMMA CutMove ==
  ASSUME NEW F, NEW n, NEW G, NEW t, NEW s, NEW B, NEW D, NEW X, NEW Y, Calm(F, n, G, t, s, B, D, X, Y),
         NEW nG, NEW f \in 0..(nG - 1), Alive(G, f), NEW a, a = RowPath(F, G, f), NEW b, b \notin DOMAIN t,
         InAFolder(F, b), \A g : Alive(G, g) => RowPath(F, G, g) # b,
         NEW m, \E u : Without(t, a, u) /\ With(u, b, t[a], m)
  PROVE  CutShort(F, n, G, nG, m, s, B, D, X, Y)
<1>1. PICK u, i : Without(t, a, u) /\ With(u, b, i, m)
  OBVIOUS
<1>2. Mirrors(F, G, u, D, X \cup {f}, Y)
  BY <1>1, RowDrifts DEF Calm
<1>3. b \notin DOMAIN u
  BY <1>1 DEF Without
<1>4. Mirrors(F, G, m, D, X \cup {f}, Y \cup {b})
  BY <1>1, <1>2, <1>3, StrayComes
<1>5. Holds(F, G, s, D, X \cup {f})
  BY HoldsMore DEF Calm, Kept, Alive
<1>6. Calm(F, n, G, m, s, B, D, X \cup {f}, Y \cup {b})
  BY <1>4, <1>5 DEF Calm
<1> QED BY <1>6 DEF CutShort

\* A live row goes to another path, and its file is there.
LEMMA CalmMove ==
  ASSUME NEW F, NEW n, NEW G, NEW t, NEW s, NEW B, NEW D, NEW X, NEW Y, Calm(F, n, G, t, s, B, D, X, Y),
         NEW f, f \notin X, Alive(G, f), NEW H, OneRow(G, H, f), Alive(H, f), H[f].hash = G[f].hash,
         Has(F, H[f].folder), H[f].folder < n, H[f].from = G[f].from,
         NEW a, a = RowPath(F, G, f), NEW b, b = RowPath(F, H, f), b \notin DOMAIN t,
         \A g : Alive(G, g) => RowPath(F, G, g) # b,
         NEW m, \E u : Without(t, a, u) /\ With(u, b, t[a], m)
  PROVE  Calm(F, n, H, m, s, B, D, X, Y)
<1>1. SameBut(G, H, f) /\ SameKept(F, G, H, f)
  BY OneRowSame
<1>2. Mirrors(F, G, t, D, X, Y)
  BY DEF Calm
<1>3. Mirrors(F, H, m, D, X, Y)
  BY <1>1, <1>2, FileGoes
<1>4. Holds(F, H, s, D, X)
  <2>1. \A g : Kept(F, H, g) => Kept(F, G, g) /\ H[g].name = G[g].name /\ H[g].hash = G[g].hash
    BY <1>1 DEF SameKept, Kept, Alive
  <2> QED BY <2>1, FewerKept DEF Calm
<1>5. Minted(H, n)
  BY DEF Calm, Minted, OneRow, Alive
<1> QED BY <1>3, <1>4, <1>5 DEF Calm

LEMMA RenameDiskMirror ==
  ASSUME StoreInv, OneCareful, TreeInv, NEW X, NEW Y, MirrorWith(X, Y), NEW p \in Procs, RenameDisk(p)
  PROVE  MirrorWith(X, Y)'
<1> PICK d, a, b : d = cmd[p] /\ a = d.src /\ b = d.dst
  OBVIOUS
<1> PICK t : t = Move(tree, a, b)
  OBVIOUS
<1>1. /\ d.pc = "renameDisk"
      /\ UNCHANGED <<folders, nextFolder, files, nextFile, bin, blobs, data>>
  BY DEF RenameDisk, At, rows
<1>2. /\ Calm(folders, nextFolder, files, tree, bin, blobs, data, X, Y)
      /\ d.pc \notin DuePCs /\ d.pc \notin {"blobOpen", "blobWrite"}
      /\ Alive(files, d.file) /\ a = RowPath(folders, files, d.file)
      /\ a \in TreePaths /\ DOMAIN tree \subseteq TreePaths
      /\ d.file \in X => a \notin DOMAIN tree
      /\ d.file \notin X => Leaf(tree, a)
  BY <1>1, FileIsLeaf DEF Departing
<1>3. /\ b \in TreePaths /\ b \notin DOMAIN tree /\ Clear(tree, b) /\ InAFolder(folders, b)
      /\ \A g : Alive(files, g) => RowPath(folders, files, g) # b
  BY <1>1, TargetIsClear
<1>4. HoldsTarget(folders, files, tree, d) /\ RowsTyped(folders, files)
  BY <1>2, MirrorBefore
<1>5. CASE ~CanMove(tree, a, b)
  <2>1. Done(p) /\ Agree(tree, tree')
    BY <1>5 DEF RenameDisk, Agree
  <2> QED BY <1>1, <1>2, <2>1, MirrorGivesUp
<1>6. CASE CanMove(tree, a, b)
  <2>1. Goto(p, "renameRow") /\ tree' = t
    BY <1>6 DEF RenameDisk
  <2>2. d.file \notin X /\ Leaf(tree, a)
    BY <1>2, <1>6 DEF CanMove, CanRename
  <2>3. \E u : Without(tree, a, u) /\ With(u, b, tree[a], t)
    BY <1>2, <1>3, <2>2, LeafMoved DEF TreePaths
  <2>4. ASSUME NEW c, c.pc = "renameRow", SameLocals(c, d)
        PROVE  Calm(FoldersDue(folders, nextFolder, c), nextFolder,
                    FilesDue(folders, files, nextFile, c), t, bin, blobs, data, X, Y)
    <3> PICK H, f : H = FilesDue(folders, files, nextFile, c) /\ f = d.file
      OBVIOUS
    <3>1. FoldersDue(folders, nextFolder, c) = folders
      BY <2>4 DEF FoldersDue, Settled, Renaming, Deleting
    <3>2. /\ DOMAIN H = DOMAIN files
          /\ \A g \in DOMAIN files : H[g] = IF g = f THEN [files[g] EXCEPT !.name = d.name] ELSE files[g]
      BY <2>4 DEF FilesDue, RowSteps, RowDue, SameLocals
    <3>3. f \in DOMAIN files /\ files[f] \in File
      BY <1>2, <1>4 DEF Alive, RowsTyped
    <3>4. /\ H[f].name = d.name /\ H[f].folder = files[f].folder /\ H[f].from = files[f].from
          /\ H[f].hash = files[f].hash /\ H[f].binned = files[f].binned
      BY <3>2, <3>3 DEF File
    <3>5. OneRow(files, H, f) /\ Alive(files, f) /\ Alive(H, f)
      BY <1>2, <3>2, <3>4 DEF OneRow, Alive
    <3>6. Has(folders, H[f].folder) /\ b = RowPath(folders, H, f)
      BY <1>1, <1>4, <3>4 DEF HoldsTarget, RenamingFile, RowPath
    <3>7. H[f].folder < nextFolder
      BY <3>6, HasMinted
    <3>8. a = RowPath(folders, files, f)
      BY <1>2
    <3>9. Calm(folders, nextFolder, H, t, bin, blobs, data, X, Y)
      BY <1>2, <1>3, <2>2, <2>3, <3>4, <3>5, <3>6, <3>7, <3>8, CalmMove
    <3> QED BY <3>1, <3>9
  <2>5. CutShort(folders, nextFolder, files, nextFile, t, bin, blobs, data, X, Y)
    <3>1. d.file \in 0..(nextFile - 1)
      BY <1>2, RowMinted DEF Alive
    <3> QED BY <1>2, <1>3, <2>3, <3>1, CutMove
  <2> QED BY <1>1, <2>1, <2>4, <2>5, MirrorGoesOn DEF DuePCs, RowSteps
<1> QED BY <1>5, <1>6

LEMMA AgreeShape ==
  ASSUME NEW t, NEW u, Agree(t, u), NEW a, NEW b
  PROVE  /\ DOMAIN u = DOMAIN t /\ Leaf(t, a) => Leaf(u, a) /\ u[a] = t[a]
         /\ Clear(t, b) => Clear(u, b)
BY DEF Agree, Leaf, Clear

LEMMA CalmAgree ==
  ASSUME NEW F, NEW n, NEW G, NEW t, NEW s, NEW B, NEW D, NEW X, NEW Y,
         Calm(F, n, G, t, s, B, D, X, Y), NEW u, Agree(t, u)
  PROVE  Calm(F, n, G, u, s, B, D, X, Y)
BY AgreeMirrors DEF Calm

LEMMA MoveDiskMirror ==
  ASSUME StoreInv, OneCareful, TreeInv, NEW X, NEW Y, MirrorWith(X, Y), NEW p \in Procs, MoveDisk(p)
  PROVE  MirrorWith(X, Y)'
<1> PICK d, a, b, k : d = cmd[p] /\ a = d.src /\ b = d.dst /\ k = Front(b)
  OBVIOUS
<1> PICK v : v = MkdirAll(tree, k)
  OBVIOUS
<1> PICK t : t = Move(v, a, b)
  OBVIOUS
<1>1. /\ d.pc = "moveDisk"
      /\ UNCHANGED <<folders, nextFolder, files, nextFile, bin, blobs, data>>
  BY DEF MoveDisk, At, rows
<1>2. /\ Calm(folders, nextFolder, files, tree, bin, blobs, data, X, Y)
      /\ d.pc \notin DuePCs /\ d.pc \notin {"blobOpen", "blobWrite"}
      /\ Alive(files, d.file) /\ a = RowPath(folders, files, d.file)
      /\ a \in TreePaths /\ DOMAIN tree \subseteq TreePaths
      /\ d.file \in X => a \notin DOMAIN tree
      /\ d.file \notin X => Leaf(tree, a)
  BY <1>1, FileIsLeaf DEF Departing
<1>3. /\ b \in TreePaths /\ b \notin DOMAIN tree /\ Clear(tree, b) /\ InAFolder(folders, b)
      /\ \A g : Alive(files, g) => RowPath(folders, files, g) # b
  BY <1>1, TargetIsClear
<1>4. HoldsTarget(folders, files, tree, d) /\ RowsTyped(folders, files)
  BY <1>2, MirrorBefore
<1>5. CanMkdirAll(tree, k) /\ Agree(tree, v)
  BY <1>1, TargetFolderMade
<1>6. CASE ~CanMove(v, a, b)
  <2>1. Done(p) /\ tree' = v
    BY <1>5, <1>6 DEF MoveDisk
  <2>2. Agree(tree, tree')
    BY <1>5, <2>1
  <2> QED BY <1>1, <1>2, <2>1, <2>2, MirrorGivesUp
<1>7. CASE CanMove(v, a, b)
  <2>1. Goto(p, "moveRow") /\ tree' = t
    BY <1>5, <1>7 DEF MoveDisk
  <2>2. /\ d.file \notin X /\ Leaf(v, a) /\ Clear(v, b)
        /\ DOMAIN v \subseteq TreePaths /\ b \notin DOMAIN v
    <3>1. a \in DOMAIN v
      BY <1>7 DEF CanMove, CanRename
    <3>2. d.file \notin X /\ Leaf(tree, a)
      BY <1>2, <1>5, <3>1 DEF Agree
    <3> QED BY <1>2, <1>3, <1>5, <3>2, AgreeShape DEF Agree
  <2>3. \E u : Without(v, a, u) /\ With(u, b, v[a], t)
    BY <1>2, <1>3, <2>2, LeafMoved DEF TreePaths
  <2>4. Calm(folders, nextFolder, files, v, bin, blobs, data, X, Y)
    BY <1>2, <1>5, CalmAgree
  <2>5. ASSUME NEW c, c.pc = "moveRow", SameLocals(c, d)
        PROVE  Calm(FoldersDue(folders, nextFolder, c), nextFolder,
                    FilesDue(folders, files, nextFile, c), t, bin, blobs, data, X, Y)
    <3> PICK H, f : H = FilesDue(folders, files, nextFile, c) /\ f = d.file
      OBVIOUS
    <3>1. FoldersDue(folders, nextFolder, c) = folders
      BY <2>5 DEF FoldersDue, Settled, Renaming, Deleting
    <3>2. /\ DOMAIN H = DOMAIN files
          /\ \A g \in DOMAIN files : H[g] = IF g = f THEN [files[g] EXCEPT !.folder = d.folder] ELSE files[g]
      BY <2>5 DEF FilesDue, RowSteps, RowDue, SameLocals
    <3>3. f \in DOMAIN files /\ files[f] \in File
      BY <1>2, <1>4 DEF Alive, RowsTyped
    <3>4. /\ H[f].name = files[f].name /\ H[f].folder = d.folder /\ H[f].from = files[f].from
          /\ H[f].hash = files[f].hash /\ H[f].binned = files[f].binned
      BY <3>2, <3>3 DEF File
    <3>5. OneRow(files, H, f) /\ Alive(files, f) /\ Alive(H, f)
      BY <1>2, <3>2, <3>4 DEF OneRow, Alive
    <3>6. Has(folders, H[f].folder) /\ b = RowPath(folders, H, f)
      BY <1>1, <1>4, <3>4 DEF HoldsTarget, Moving, RowPath
    <3>7. H[f].folder < nextFolder
      BY <3>6, HasMinted
    <3>8. a = RowPath(folders, files, f)
      BY <1>2
    <3>9. Calm(folders, nextFolder, H, t, bin, blobs, data, X, Y)
      BY <1>3, <2>2, <2>3, <2>4, <3>4, <3>5, <3>6, <3>7, <3>8, CalmMove
    <3> QED BY <3>1, <3>9
  <2>6. CutShort(folders, nextFolder, files, nextFile, t, bin, blobs, data, X, Y)
    <3>1. d.file \in 0..(nextFile - 1)
      BY <1>2, RowMinted DEF Alive
    <3> QED BY <1>2, <1>3, <2>2, <2>3, <2>4, <3>1, CutMove
  <2> QED BY <1>1, <2>1, <2>5, <2>6, MirrorGoesOn DEF DuePCs, RowSteps
<1> QED BY <1>6, <1>7

LEMMA BinDiskMirror ==
  ASSUME StoreInv, OneCareful, TreeInv, NEW X, NEW Y, MirrorWith(X, Y), NEW p \in Procs, BinDisk(p)
  PROVE  MirrorWith(X, Y)'
<1> PICK d, a, e : d = cmd[p] /\ a = d.src /\ e = d.slot
  OBVIOUS
<1> PICK t, s : t = RenamedFrom(tree, a, bin, <<e>>) /\ s = RenamedTo(tree, a, bin, <<e>>)
  OBVIOUS
<1>1. /\ d.pc = "binDisk"
      /\ UNCHANGED <<folders, nextFolder, files, nextFile, blobs, data>>
  BY DEF BinDisk, At, rows
<1>2. /\ Calm(folders, nextFolder, files, tree, bin, blobs, data, X, Y)
      /\ d.pc \notin DuePCs /\ d.pc \notin {"blobOpen", "blobWrite"}
      /\ Alive(files, d.file) /\ a = RowPath(folders, files, d.file)
      /\ a \in TreePaths /\ DOMAIN tree \subseteq TreePaths
      /\ d.file \in X => a \notin DOMAIN tree
      /\ d.file \notin X => Leaf(tree, a) /\ IsFile(tree, a) /\ data[tree[a]] = files[d.file].hash
  BY <1>1, FileIsLeaf DEF Departing
<1>3. /\ Ready(folders, files, tree, bin, data, d, X) /\ RowsTyped(folders, files) /\ TreePathsOK
      /\ GoodFolders(folders, files)
  BY <1>2, MirrorBefore
<1>4. /\ e \in Slots /\ \A x \in Slots : <<x>> \in DOMAIN bin => x[2] # e[2]
      /\ \A g : Kept(folders, files, g) => Sanitise[files[g].name] # e[2]
      /\ d.folder = files[d.file].folder /\ e[2] = Sanitise[files[d.file].name]
  BY <1>1, <1>3 DEF Ready, Binning
<1>5. d.file \in 0..(nextFile - 1) /\ ~Kept(folders, files, d.file)
  BY <1>2, RowMinted DEF Alive, Kept
<1>6. ASSUME NEW c, c.pc = "binRow", SameLocals(c, d)
      PROVE  LET H == FilesDue(folders, files, nextFile, c)  f == d.file IN
             /\ FoldersDue(folders, nextFolder, c) = folders
             /\ f \in DOMAIN H /\ Alive(files, f) /\ ~Alive(H, f)
             /\ SameBut(files, H, f) /\ SameKept(folders, files, H, f) /\ Minted(H, nextFolder)
             /\ e[2] = Sanitise[H[f].name] /\ H[f].hash = files[f].hash
  <2> PICK H, f : H = FilesDue(folders, files, nextFile, c) /\ f = d.file
    OBVIOUS
  <2>1. FoldersDue(folders, nextFolder, c) = folders
    BY <1>6 DEF FoldersDue, Settled, Renaming, Deleting
  <2>2. /\ DOMAIN H = DOMAIN files
        /\ \A g \in DOMAIN files :
             H[g] = IF g = f THEN [files[g] EXCEPT !.binned = TRUE, !.from = d.folder] ELSE files[g]
    BY <1>6 DEF FilesDue, RowSteps, RowDue, SameLocals
  <2>3. f \in DOMAIN files /\ files[f] \in File
    BY <1>2, <1>3 DEF Alive, RowsTyped
  <2>4. /\ H[f].name = files[f].name /\ H[f].folder = files[f].folder /\ H[f].from = d.folder
        /\ H[f].hash = files[f].hash /\ H[f].binned
    BY <2>2, <2>3 DEF File
  <2>5. OneRow(files, H, f) /\ Alive(files, f) /\ ~Alive(H, f)
    BY <1>2, <2>2, <2>4 DEF OneRow, Alive
  <2>6. SameBut(files, H, f) /\ SameKept(folders, files, H, f)
    BY <2>5, OneRowSame
  <2>7. Minted(H, nextFolder)
    <3>1. Minted(files, nextFolder)
      BY <1>2 DEF Calm
    <3>2. \A g \in DOMAIN files : g # f => H[g] = files[g]
      BY <2>2
    <3>3. H[f].folder = files[f].folder /\ H[f].from = files[f].folder
      BY <1>4, <2>4
    <3> QED BY <2>2, <2>3, <3>1, <3>2, <3>3 DEF Minted
  <2> QED BY <1>4, <2>1, <2>2, <2>3, <2>4, <2>5, <2>6, <2>7
<1>7. CASE d.file \in X
  <2>1. Goto(p, "binRow") /\ UNCHANGED <<tree, bin>>
    BY <1>2, <1>7 DEF BinDisk, CanRename
  <2>2. ASSUME NEW c, c.pc = "binRow", SameLocals(c, d)
        PROVE  Calm(FoldersDue(folders, nextFolder, c), nextFolder,
                    FilesDue(folders, files, nextFile, c), tree, bin, blobs, data, X, Y)
    <3> PICK H, f : H = FilesDue(folders, files, nextFile, c) /\ f = d.file
      OBVIOUS
    <3>1. /\ FoldersDue(folders, nextFolder, c) = folders
          /\ f \in DOMAIN H /\ Alive(files, f) /\ ~Alive(H, f)
          /\ SameBut(files, H, f) /\ SameKept(folders, files, H, f) /\ Minted(H, nextFolder)
          /\ e[2] = Sanitise[H[f].name]
      BY <1>6, <2>2
    <3>2. Mirrors(folders, H, tree, data, X, Y)
      <4>1. Mirrors(folders, files, tree, data, X, Y) /\ Without(tree, RowPath(folders, files, f), tree)
        BY <1>2, <1>7 DEF Calm, Without
      <4> QED BY <3>1, <4>1, FileLeaves
    <3>3. Holds(folders, H, bin, data, X)
      BY <1>2, <1>4, <1>7, <3>1, RowIsKeptBare DEF Calm
    <3> QED BY <1>2, <3>1, <3>2, <3>3 DEF Calm
  <2>3. CutShort(folders, nextFolder, files, nextFile, tree, bin, blobs, data, X, Y)
    <3> PICK f, q : f = d.file /\ q = <<>>
      OBVIOUS
    <3>1. Mirrors(folders, files, tree, data, X \cup {f}, Y \cup {q})
      BY <1>2, <1>7, MirrorsMore, StraysMore DEF Calm
    <3>2. Holds(folders, files, bin, data, X \cup {f})
      BY <1>2, <1>7, HoldsMore DEF Calm
    <3>3. Calm(folders, nextFolder, files, tree, bin, blobs, data, X \cup {f}, Y \cup {q})
      BY <1>2, <3>1, <3>2 DEF Calm
    <3> QED BY <1>5, <3>3 DEF CutShort
  <2>4. tree = tree' /\ bin = bin'
    BY <2>1
  <2> QED BY <1>1, <2>1, <2>2, <2>3, <2>4, MirrorGoesOn DEF DuePCs, RowSteps
<1>8. CASE d.file \notin X /\ ~CanRename(tree, a, bin, <<e>>)
  <2>1. Done(p) /\ UNCHANGED bin /\ Agree(tree, tree')
    BY <1>2, <1>8 DEF BinDisk, Agree, IsFile
  <2> QED BY <1>1, <1>2, <2>1, MirrorGivesUp
<1>9. CASE d.file \notin X /\ CanRename(tree, a, bin, <<e>>)
  <2>1. Goto(p, "binRow") /\ tree' = t /\ bin' = s
    BY <1>2, <1>9 DEF BinDisk, IsFile
  <2>2. <<e>> \notin DOMAIN bin
    BY <1>4
  <2>3. t = Prune(tree, a)
    BY <2>2 DEF RenamedFrom, SameFile, IsFile
  <2>4. Without(tree, a, t)
    BY <1>2, <1>9, <2>3, LeafPruned DEF TreePaths
  <2>5. /\ \A x \in Slots : <<x>> \in DOMAIN bin => <<x>> \in DOMAIN s /\ s[<<x>>] = bin[<<x>>]
        /\ \A x \in Slots : <<x>> \in DOMAIN s => x = e \/ <<x>> \in DOMAIN bin
        /\ <<e>> \in DOMAIN s /\ s[<<e>>] = tree[a] /\ EntriesApart(s)
    <3>1. a \in DOMAIN tree /\ EntriesApart(bin) /\ DOMAIN bin \subseteq TreePaths
      BY <1>2, <1>3, <1>9 DEF Leaf, Calm, TreePathsOK
    <3> QED BY <1>2, <1>4, <1>9, <3>1, EntryComes
  <2>6. ASSUME NEW c, c.pc = "binRow", SameLocals(c, d)
        PROVE  Calm(FoldersDue(folders, nextFolder, c), nextFolder,
                    FilesDue(folders, files, nextFile, c), t, s, blobs, data, X, Y)
    <3> PICK H, f : H = FilesDue(folders, files, nextFile, c) /\ f = d.file
      OBVIOUS
    <3>1. /\ FoldersDue(folders, nextFolder, c) = folders
          /\ f \in DOMAIN H /\ Alive(files, f) /\ ~Alive(H, f)
          /\ SameBut(files, H, f) /\ SameKept(folders, files, H, f) /\ Minted(H, nextFolder)
          /\ e[2] = Sanitise[H[f].name] /\ H[f].hash = files[f].hash
      BY <1>6, <2>6
    <3>2. Mirrors(folders, H, t, data, X, Y)
      <4>1. Mirrors(folders, files, tree, data, X, Y) /\ Without(tree, RowPath(folders, files, f), t)
        BY <1>2, <2>4 DEF Calm
      <4> QED BY <3>1, <4>1, FileLeaves
    <3>3. Holds(folders, H, s, data, X)
      <4>1. IsFile(s, <<e>>) /\ data[s[<<e>>]] = H[f].hash
        BY <1>2, <1>9, <2>5, <3>1 DEF IsFile
      <4>2. Holds(folders, files, bin, data, X)
        BY <1>2 DEF Calm
      <4> QED BY <1>4, <1>9, <2>5, <3>1, <4>1, <4>2, RowIsKept
    <3> QED BY <1>2, <2>5, <3>1, <3>2, <3>3 DEF Calm
  <2>7. CutShort(folders, nextFolder, files, nextFile, t, s, blobs, data, X, Y)
    <3> PICK f, q : f = d.file /\ q = <<>>
      OBVIOUS
    <3>1. Mirrors(folders, files, t, data, X \cup {f}, Y \cup {q})
      <4>1. Mirrors(folders, files, t, data, X \cup {f}, Y)
        BY <1>2, <2>4, RowDrifts DEF Calm
      <4> QED BY <4>1, StraysMore
    <3>2. Holds(folders, files, s, data, X \cup {f})
      <4>1. \A x \in Slots : <<x>> \in DOMAIN s =>
              <<x>> \in DOMAIN bin \/ \A g : Kept(folders, files, g) => Sanitise[files[g].name] # x[2]
        BY <1>4, <2>5
      <4>2. Holds(folders, files, s, data, X)
        BY <1>2, <2>5, <4>1, FewerKept DEF Calm
      <4> QED BY <1>5, <4>2, HoldsMore
    <3>3. Calm(folders, nextFolder, files, t, s, blobs, data, X \cup {f}, Y \cup {q})
      BY <1>2, <2>5, <3>1, <3>2 DEF Calm
    <3> QED BY <1>5, <3>3 DEF CutShort
  <2> QED BY <1>1, <2>1, <2>6, <2>7, MirrorGoesOn DEF DuePCs, RowSteps
<1> QED BY <1>7, <1>8, <1>9

LEMMA RestoreDiskMirror ==
  ASSUME StoreInv, OneCareful, TreeInv, NEW X, NEW Y, MirrorWith(X, Y), NEW p \in Procs, RestoreDisk(p)
  PROVE  MirrorWith(X, Y)'
<1> PICK d, e, b, k : d = cmd[p] /\ e = d.slot /\ b = d.dst /\ k = Front(b)
  OBVIOUS
<1> PICK v : v = MkdirAll(tree, k)
  OBVIOUS
<1> PICK t, s : t = RenamedTo(bin, <<e>>, v, b) /\ s = RenamedFrom(bin, <<e>>, v, b)
  OBVIOUS
<1>1. /\ d.pc = "restoreDisk" /\ d.pc \notin DuePCs /\ d.pc \notin {"blobOpen", "blobWrite"}
      /\ UNCHANGED <<folders, nextFolder, files, nextFile, blobs, data>>
  BY DEF RestoreDisk, At, rows, DuePCs, Renaming, Deleting, RowSteps
<1>2. /\ Calm(folders, nextFolder, files, tree, bin, blobs, data, X, Y)
      /\ RowsTyped(folders, files) /\ TreePathsOK
      /\ HoldsTarget(folders, files, tree, d) /\ Ready(folders, files, tree, bin, data, d, X)
  BY <1>1, MirrorBefore
<1>3. /\ b \in TreePaths /\ b \notin DOMAIN tree /\ Clear(tree, b) /\ InAFolder(folders, b)
      /\ \A g : Alive(files, g) => RowPath(folders, files, g) # b
  BY <1>1, TargetIsClear
<1>4. CanMkdirAll(tree, k) /\ Agree(tree, v)
  BY <1>1, TargetFolderMade
<1>5. /\ Kept(folders, files, d.file) /\ d.file \in 0..(nextFile - 1) /\ ~Alive(files, d.file)
      /\ IF d.file \in X THEN e = Nil ELSE IsEntry(files, bin, data, d.file, e)
  BY <1>1, <1>2, RowMinted DEF Ready, Kept, Alive
<1>6. Clear(v, b) /\ DOMAIN v \subseteq TreePaths /\ b \notin DOMAIN v /\ DOMAIN bin \subseteq TreePaths
  BY <1>2, <1>3, <1>4, AgreeShape DEF Agree, TreePathsOK
<1>7. Calm(folders, nextFolder, files, v, bin, blobs, data, X, Y)
  BY <1>2, <1>4, CalmAgree
<1>8. ASSUME NEW c, c.pc = "restoreRow", SameLocals(c, d)
      PROVE  LET H == FilesDue(folders, files, nextFile, c)  f == d.file IN
             /\ FoldersDue(folders, nextFolder, c) = folders
             /\ Alive(H, f) /\ ~Kept(folders, H, f)
             /\ SameBut(files, H, f) /\ SameKept(folders, files, H, f) /\ Minted(H, nextFolder)
             /\ Has(folders, H[f].folder) /\ b = RowPath(folders, H, f) /\ H[f].hash = files[f].hash
  <2> PICK H, f : H = FilesDue(folders, files, nextFile, c) /\ f = d.file
    OBVIOUS
  <2>1. FoldersDue(folders, nextFolder, c) = folders
    BY <1>8 DEF FoldersDue, Settled, Renaming, Deleting
  <2>2. /\ DOMAIN H = DOMAIN files
        /\ \A g \in DOMAIN files :
             H[g] = IF g = f THEN [files[g] EXCEPT !.binned = FALSE, !.folder = files[g].from, !.from = Root]
                    ELSE files[g]
    BY <1>8 DEF FilesDue, RowSteps, RowDue, SameLocals
  <2>3. f \in DOMAIN files /\ files[f] \in File
    BY <1>2, <1>5 DEF Kept, RowsTyped
  <2>4. /\ H[f].name = files[f].name /\ H[f].folder = files[f].from /\ H[f].from = Root
        /\ H[f].hash = files[f].hash /\ ~H[f].binned
    BY <2>2, <2>3 DEF File
  <2>5. OneRow(files, H, f) /\ Alive(H, f) /\ ~Kept(folders, H, f)
    BY <2>2, <2>3, <2>4 DEF OneRow, Alive, Kept
  <2>6. SameBut(files, H, f) /\ SameKept(folders, files, H, f)
    BY <2>5, OneRowSame
  <2>7. Has(folders, H[f].folder) /\ b = RowPath(folders, H, f)
    BY <1>1, <1>2, <2>4 DEF HoldsTarget, Restoring, RowPath
  <2>8. Minted(H, nextFolder)
    <3>1. Minted(files, nextFolder)
      BY <1>2 DEF Calm
    <3>2. \A g \in DOMAIN files : g # f => H[g] = files[g]
      BY <2>2
    <3>3. H[f].folder < nextFolder /\ H[f].from < nextFolder
      BY <2>4, <2>7, HasMinted
    <3> QED BY <2>2, <2>3, <3>1, <3>2, <3>3 DEF Minted
  <2> QED BY <2>1, <2>4, <2>5, <2>6, <2>7, <2>8
<1>9. CASE d.file \in X
  <2>1. Goto(p, "restoreRow") /\ tree' = v /\ UNCHANGED bin
    BY <1>4, <1>5, <1>9 DEF RestoreDisk
  <2>2. ASSUME NEW c, c.pc = "restoreRow", SameLocals(c, d)
        PROVE  Calm(FoldersDue(folders, nextFolder, c), nextFolder,
                    FilesDue(folders, files, nextFile, c), v, bin, blobs, data, X, Y)
    <3> PICK H, f : H = FilesDue(folders, files, nextFile, c) /\ f = d.file
      OBVIOUS
    <3>1. /\ FoldersDue(folders, nextFolder, c) = folders
          /\ Alive(H, f) /\ ~Kept(folders, H, f)
          /\ SameBut(files, H, f) /\ SameKept(folders, files, H, f) /\ Minted(H, nextFolder)
          /\ Has(folders, H[f].folder) /\ b = RowPath(folders, H, f)
      BY <1>8, <2>2
    <3>2. Mirrors(folders, H, v, data, X, Y)
      <4>1. Mirrors(folders, files, v, data, X, Y) /\ ~Alive(files, f) /\ f \in X
        BY <1>5, <1>7, <1>9 DEF Calm
      <4> QED BY <1>3, <1>6, <3>1, <4>1, RowComes
    <3>3. Holds(folders, H, bin, data, X)
      <4>1. \A g : Kept(folders, H, g) => /\ Kept(folders, files, g)
                                          /\ H[g].name = files[g].name /\ H[g].hash = files[g].hash
        BY <3>1 DEF SameKept
      <4> QED BY <1>2, <4>1, FewerKept DEF Calm
    <3> QED BY <1>7, <3>1, <3>2, <3>3 DEF Calm
  <2>3. CutShort(folders, nextFolder, files, nextFile, v, bin, blobs, data, X, Y)
    <3> PICK f, q : f = d.file /\ q = <<>>
      OBVIOUS
    <3>1. Mirrors(folders, files, v, data, X \cup {f}, Y \cup {q})
      BY <1>7, <1>9, MirrorsMore, StraysMore DEF Calm
    <3>2. Holds(folders, files, bin, data, X \cup {f})
      BY <1>7, <1>9, HoldsMore DEF Calm
    <3>3. Calm(folders, nextFolder, files, v, bin, blobs, data, X \cup {f}, Y \cup {q})
      BY <1>7, <3>1, <3>2 DEF Calm
    <3> QED BY <1>5, <3>3 DEF CutShort
  <2>4. bin = bin'
    BY <2>1
  <2> QED BY <1>1, <2>1, <2>2, <2>3, <2>4, MirrorGoesOn DEF DuePCs, RowSteps
<1>10. CASE d.file \notin X
  <2>1. /\ e \in Slots /\ e # Nil /\ IsFile(bin, <<e>>) /\ data[bin[<<e>>]] = files[d.file].hash
        /\ IsEntry(files, bin, data, d.file, e)
    BY <1>5, <1>10, ValuesAssumption DEF IsEntry
  <2>2. CASE ~CanRename(bin, <<e>>, v, b)
    <3>1. Done(p) /\ tree' = v /\ UNCHANGED bin
      BY <1>4, <2>1, <2>2 DEF RestoreDisk
    <3>2. Agree(tree, tree')
      BY <1>4, <3>1
    <3> QED BY <1>1, <3>1, <3>2, MirrorGivesUp
  <2>3. CASE CanRename(bin, <<e>>, v, b)
    <3>1. Goto(p, "restoreRow") /\ tree' = t /\ bin' = s
      BY <1>4, <2>1, <2>3 DEF RestoreDisk
    <3>2. Leaf(bin, <<e>>) /\ EntriesApart(bin) /\ <<e>> \in TreePaths
      BY <1>2, <2>1, EntryPath DEF Calm, EntriesApart, Leaf, IsFile, TreePaths
    <3>3. With(v, b, bin[<<e>>], t) /\ Without(bin, <<e>>, s)
      BY <1>3, <1>6, <3>2, LeafRenamed DEF TreePaths
    <3>4. /\ Mirrors(folders, files, v, data, X, Y) /\ Holds(folders, files, bin, data, X)
          /\ Kept(folders, files, d.file) /\ ~Alive(files, d.file)
      BY <1>5, <1>7 DEF Calm
    <3>5. ASSUME NEW c, c.pc = "restoreRow", SameLocals(c, d)
          PROVE  Calm(FoldersDue(folders, nextFolder, c), nextFolder,
                      FilesDue(folders, files, nextFile, c), t, s, blobs, data, X, Y)
      <4> PICK H, f, i : H = FilesDue(folders, files, nextFile, c) /\ f = d.file /\ i = bin[<<e>>]
        OBVIOUS
      <4>1. /\ FoldersDue(folders, nextFolder, c) = folders
            /\ Alive(H, f) /\ ~Kept(folders, H, f)
            /\ SameBut(files, H, f) /\ SameKept(folders, files, H, f) /\ Minted(H, nextFolder)
            /\ Has(folders, H[f].folder) /\ b = RowPath(folders, H, f) /\ H[f].hash = files[f].hash
        BY <1>8, <3>5
      <4>2. Mirrors(folders, H, t, data, X, Y)
        <5>1. i # Dir /\ data[i] = H[f].hash /\ With(v, b, i, t) /\ f \notin X
          BY <1>10, <2>1, <3>3, <4>1 DEF IsFile
        <5> QED BY <1>3, <1>6, <3>4, <4>1, <5>1, FileComes
      <4>3. Holds(folders, H, s, data, X) /\ EntriesApart(s)
        BY <2>1, <3>2, <3>3, <3>4, <4>1, EntryGoes
      <4> QED BY <1>2, <4>1, <4>2, <4>3 DEF Calm
    <3>6. CutShort(folders, nextFolder, files, nextFile, t, s, blobs, data, X, Y)
      <4> PICK f : f = d.file
        OBVIOUS
      <4>1. Mirrors(folders, files, t, data, X \cup {f}, Y \cup {b})
        <5>1. Mirrors(folders, files, v, data, X \cup {f}, Y)
          BY <3>4, MirrorsMore
        <5> QED BY <1>3, <1>6, <3>3, <5>1, StrayComes
      <4>2. Holds(folders, files, s, data, X \cup {f})
        BY <2>1, <3>2, <3>3, <3>4, EntryIsLost
      <4>3. EntriesApart(s)
        BY <3>2, <3>3 DEF EntriesApart, Without, IsFile
      <4>4. Calm(folders, nextFolder, files, t, s, blobs, data, X \cup {f}, Y \cup {b})
        BY <1>2, <4>1, <4>2, <4>3 DEF Calm
      <4> QED BY <1>5, <4>4 DEF CutShort
    <3> QED BY <1>1, <3>1, <3>5, <3>6, MirrorGoesOn DEF DuePCs, RowSteps
  <2> QED BY <2>2, <2>3
<1> QED BY <1>9, <1>10

LEMMA LinkMirror ==
  ASSUME StoreInv, OneCareful, TreeInv, NEW X, NEW Y, MirrorWith(X, Y),
         nextFile \notin X, NEW p \in Procs, Link(p)
  PROVE  MirrorWith(X, Y)'
<1> PICK d, b, k : d = cmd[p] /\ b = d.dst /\ k = Front(b)
  OBVIOUS
<1> PICK v, i : v = MkdirAll(tree, k) /\ i = blobs[d.hash]
  OBVIOUS
<1> PICK t : t = AddFile(v, b, i)
  OBVIOUS
<1>1. /\ d.pc = "link" /\ d.pc \notin DuePCs /\ d.pc \notin {"blobOpen", "blobWrite"}
      /\ UNCHANGED <<folders, nextFolder, files, nextFile, bin, blobs, data>>
  BY DEF Link, At, rows, DuePCs, Renaming, Deleting, RowSteps
<1>2. /\ Calm(folders, nextFolder, files, tree, bin, blobs, data, X, Y)
      /\ RowsTyped(folders, files) /\ HoldsTarget(folders, files, tree, d)
  BY <1>1, MirrorBefore
<1>3. /\ b \in TreePaths /\ b \notin DOMAIN tree /\ InAFolder(folders, b)
      /\ \A g : Alive(files, g) => RowPath(folders, files, g) # b
  BY <1>1, TargetIsClear
<1>4. CanMkdirAll(tree, k) /\ Agree(tree, v)
  BY <1>1, TargetFolderMade
<1>5. b \notin DOMAIN v
  BY <1>3, <1>4 DEF Agree
<1>6. CASE d.hash \notin DOMAIN blobs
  <2>1. Done(p) /\ Agree(tree, tree')
    BY <1>6 DEF Link, Agree
  <2> QED BY <1>1, <2>1, MirrorGivesUp
<1>7. CASE d.hash \in DOMAIN blobs
  <2>1. Goto(p, "insertFile") /\ tree' = t
    BY <1>4, <1>5, <1>7 DEF Link
  <2>2. With(v, b, i, t)
    BY <1>5 DEF With, AddFile
  <2>3. i # Dir /\ data[i] = d.hash
    BY <1>2, <1>7, StoreInvParts DEF DiskOK, Inodes, Dir, Calm, AllGood
  <2>4. Mirrors(folders, files, v, data, X, Y)
    BY <1>2, <1>4, AgreeMirrors DEF Calm
  <2>5. nextFile \notin DOMAIN files
    BY StoreInvParts DEF RowsOK
  <2>6. ASSUME NEW c, c.pc = "insertFile", SameLocals(c, d)
        PROVE  Calm(FoldersDue(folders, nextFolder, c), nextFolder,
                    FilesDue(folders, files, nextFile, c), t, bin, blobs, data, X, Y)
    <3> PICK H, f : H = FilesDue(folders, files, nextFile, c) /\ f = nextFile
      OBVIOUS
    <3>1. FoldersDue(folders, nextFolder, c) = folders
      BY <2>6 DEF FoldersDue, Settled, Renaming, Deleting
    <3>2. /\ DOMAIN H = DOMAIN files \cup {f} /\ \A g \in DOMAIN files : H[g] = files[g]
          /\ H[f].hash = d.hash /\ H[f].name = d.name /\ H[f].folder = d.folder
          /\ H[f].from = Root /\ ~H[f].binned
      BY <2>5, <2>6 DEF FilesDue, SameLocals
    <3>3. SameBut(files, H, f) /\ ~Alive(files, f) /\ Alive(H, f)
      BY <2>5, <3>2 DEF SameBut, Alive
    <3>4. Has(folders, H[f].folder) /\ b = RowPath(folders, H, f)
      BY <1>1, <1>2, <3>2 DEF HoldsTarget, FileInserts, RowPath
    <3>5. Mirrors(folders, H, t, data, X, Y)
      <4>1. data[i] = H[f].hash
        BY <2>3, <3>2
      <4> QED BY <1>3, <1>5, <2>2, <2>3, <2>4, <3>3, <3>4, <4>1, FileComes
    <3>6. Holds(folders, H, bin, data, X)
      <4>1. \A g : Kept(folders, H, g) => /\ Kept(folders, files, g)
                                          /\ H[g].name = files[g].name /\ H[g].hash = files[g].hash
        BY <2>5, <3>2 DEF Kept
      <4> QED BY <1>2, <4>1, FewerKept DEF Calm
    <3>7. Minted(H, nextFolder)
      <4>1. Minted(files, nextFolder)
        BY <1>2 DEF Calm
      <4>2. H[f].folder < nextFolder /\ H[f].from < nextFolder
        BY <3>2, <3>4, HasMinted
      <4> QED BY <3>2, <4>1, <4>2 DEF Minted
    <3> QED BY <1>2, <3>1, <3>5, <3>6, <3>7 DEF Calm
  <2>7. CutShort(folders, nextFolder, files, nextFile, t, bin, blobs, data, X, Y)
    <3> PICK f : f = 0
      OBVIOUS
    <3>1. f \in 0..(nextFile - 1) /\ ~Alive(files, f) /\ ~Kept(folders, files, f)
      BY RowMinted DEF Alive, Kept
    <3>2. Mirrors(folders, files, t, data, X \cup {f}, Y \cup {b})
      <4>1. Mirrors(folders, files, v, data, X \cup {f}, Y)
        BY <2>4, <3>1, MirrorsMore
      <4> QED BY <1>3, <1>5, <2>2, <4>1, StrayComes
    <3>3. Holds(folders, files, bin, data, X \cup {f})
      BY <1>2, <3>1, HoldsMore DEF Calm
    <3>4. Calm(folders, nextFolder, files, t, bin, blobs, data, X \cup {f}, Y \cup {b})
      BY <1>2, <3>2, <3>3 DEF Calm
    <3> QED BY <3>1, <3>4 DEF CutShort
  <2> QED BY <1>1, <2>1, <2>6, <2>7, MirrorGoesOn DEF DuePCs
<1> QED BY <1>6, <1>7

\* copy_file and ingest_bytes never come to copy over a file.
LEMMA NoCopyOver ==
  ASSUME StoreInv, OneCareful, TreeInv, NEW X, NEW Y, MirrorWith(X, Y), NEW p \in Procs
  PROVE  cmd[p].pc \notin {"copyOpen", "copyWrite"}
<1>1. p = Solo
  BY OnlySolo
<1> QED BY <1>1 DEF MirrorWith, MirrorAt, Ready

-----------------------------------------------------------------------------
(* The steps on the blobs.                                                  *)

\* Contents whose inodes keep their bytes are mirrored and held as before.
LEMMA CalmBytes ==
  ASSUME StoreInv, OneCareful, TreeInv, NEW X, NEW Y, MirrorWith(X, Y),
         NEW p \in Procs, cmd[p].pc \notin DuePCs,
         NEW C, KeepsBytes(Inodes, data, C)
  PROVE  Mirrors(folders, files, tree, C, X, Y) /\ Holds(folders, files, bin, C, X)
<1>1. /\ Mirrors(folders, files, tree, data, X, Y) /\ Holds(folders, files, bin, data, X)
      /\ RowsTyped(folders, files)
  BY MirrorBefore
<1> PICK N : N = Inodes
  OBVIOUS
<1>2. KeepsBytes(N, data, C)
  OBVIOUS
<1>3. /\ \A q \in DOMAIN tree : tree[q] \in N \cup {Dir}
      /\ \A q \in DOMAIN bin : bin[q] \in N \cup {Dir}
  BY StoreInvParts DEF DiskOK
<1> QED BY <1>1, <1>2, <1>3, BytesKept

LEMMA BlobOpenMirror ==
  ASSUME StoreInv, OneCareful, TreeInv, NEW X, NEW Y, MirrorWith(X, Y), NEW p \in Procs, BlobOpen(p)
  PROVE  MirrorWith(X, Y)'
<1> PICK d, h : d = cmd[p] /\ h = d.hash
  OBVIOUS
<1>1. /\ d.pc = "blobOpen" /\ d.pc \notin DuePCs /\ Goto(p, "blobWrite")
      /\ UNCHANGED <<folders, nextFolder, files, nextFile, tree, bin>>
  BY DEF BlobOpen, At, rows, DuePCs, Renaming, Deleting, RowSteps
<1>2. /\ EntriesApart(bin) /\ Minted(files, nextFolder)
      /\ BlobsGood(blobs, data, d) /\ Ready(folders, files, tree, bin, data, d, X)
  BY <1>1, MirrorBefore
<1>3. h \notin DOMAIN blobs /\ \A g \in DOMAIN blobs : data[blobs[g]] = g
  BY <1>1, <1>2 DEF BlobsGood
<1>4. /\ data \in Seq(Contents \cup {Torn}) /\ Len(data) \in Nat
      /\ \A g \in DOMAIN blobs : blobs[g] \in 1..Len(data)
  BY StoreInvParts DEF DiskOK, Inodes
<1> PICK C, B : C = data' /\ B = blobs'
  OBVIOUS
<1>5. /\ C = Append(data, Torn)
      /\ B = [g \in DOMAIN blobs \cup {h} |-> IF g = h THEN Len(data) + 1 ELSE blobs[g]]
  BY <1>3 DEF BlobOpen
<1>6. /\ \A i \in 1..Len(data) : C[i] = data[i]
      /\ C[Len(data) + 1] = Torn
  BY <1>4, <1>5, AppendProperties
<1>7. Mirrors(folders, files, tree, C, X, Y) /\ Holds(folders, files, bin, C, X)
  <2>1. KeepsBytes(Inodes, data, C)
    BY <1>6 DEF KeepsBytes, Inodes
  <2> QED BY <1>1, <2>1, CalmBytes
<1>8. ASSUME NEW c, c.pc = "blobWrite", SameLocals(c, d)
      PROVE  MirrorAt(folders, nextFolder, files, nextFile, tree, bin, B, C, c, X, Y)
  <2>1. FoldersDue(folders, nextFolder, c) = folders /\ FilesDue(folders, files, nextFile, c) = files
    BY <1>8, NothingDue DEF DuePCs, Renaming, Deleting, RowSteps
  <2>2. BlobsGood(B, C, c)
    BY <1>3, <1>4, <1>5, <1>6, <1>8 DEF BlobsGood, SameLocals
  <2>3. c.dst \notin DOMAIN tree /\ \A f : Alive(files, f) => RowPath(folders, files, f) # c.dst
    BY <1>1, <1>2, <1>8 DEF Ready, Arriving, SameLocals
  <2>4. Ready(folders, files, tree, bin, C, c, X)
    BY <1>8, <2>3, ArrivalReady DEF Arriving, Departing, Binning
  <2> QED BY <1>2, <1>7, <1>8, <2>1, <2>2, <2>4 DEF MirrorAt, CutPCs
<1>9. ASSUME NEW c, c.pc = "blobWrite", SameLocals(c, d)
      PROVE  MirrorAt(folders', nextFolder', files', nextFile', tree', bin', blobs', data', c, X, Y)
  <2>1. MirrorAt(folders, nextFolder, files, nextFile, tree, bin, B, C, c, X, Y)
    BY <1>8, <1>9
  <2> QED BY <1>1, <2>1
<1> QED BY <1>1, <1>9, MirrorGoto

LEMMA BlobWriteMirror ==
  ASSUME StoreInv, OneCareful, TreeInv, NEW X, NEW Y, MirrorWith(X, Y), NEW p \in Procs, BlobWrite(p)
  PROVE  MirrorWith(X, Y)'
<1> PICK d, h : d = cmd[p] /\ h = d.hash
  OBVIOUS
<1>1. /\ d.pc = "blobWrite" /\ d.pc \notin DuePCs
      /\ UNCHANGED <<folders, nextFolder, files, nextFile, tree, bin, blobs>>
  BY DEF BlobWrite, At, rows, DuePCs, Renaming, Deleting, RowSteps
<1>2. /\ EntriesApart(bin) /\ Minted(files, nextFolder)
      /\ BlobsGood(blobs, data, d) /\ Ready(folders, files, tree, bin, data, d, X)
      /\ HoldsTarget(folders, files, tree, d)
  BY <1>1, MirrorBefore
<1>3. h \in DOMAIN blobs
  BY <1>1, StoreInvParts DEF BlobsHeld, HoldsBlob
<1>4. data[blobs[h]] = Torn /\ \A g \in DOMAIN blobs : g # h => data[blobs[g]] = g
  BY <1>1, <1>2, <1>3 DEF BlobsGood
<1>5. /\ data \in Seq(Contents \cup {Torn}) /\ Len(data) \in Nat /\ DOMAIN data = 1..Len(data)
      /\ DOMAIN blobs \subseteq Contents /\ \A g \in DOMAIN blobs : blobs[g] \in 1..Len(data)
  BY StoreInvParts DEF DiskOK, Inodes
<1> PICK C : C = data'
  OBVIOUS
<1>6. /\ C[blobs[h]] = h
      /\ \A i \in 1..Len(data) : i # blobs[h] => C[i] = data[i]
  BY <1>3, <1>5 DEF BlobWrite
<1>7. AllGood(blobs, C)
  <2>1. \A g \in DOMAIN blobs : g # h => g # Torn
    BY <1>5, ValuesAssumption
  <2>2. \A g \in DOMAIN blobs : g # h => blobs[g] # blobs[h]
    BY <1>4, <2>1
  <2> QED BY <1>4, <1>5, <1>6, <2>2 DEF AllGood
<1>8. Mirrors(folders, files, tree, C, X, Y) /\ Holds(folders, files, bin, C, X)
  <2>1. KeepsBytes(Inodes, data, C)
    BY <1>4, <1>6 DEF KeepsBytes, Inodes
  <2> QED BY <1>1, <2>1, CalmBytes
<1>9. Calm(folders, nextFolder, files, tree, bin, blobs, C, X, Y)
  BY <1>2, <1>7, <1>8 DEF Calm
<1>10. CASE Done(p)
  <2>1. Calm(folders', nextFolder', files', tree', bin', blobs', data', X, Y)
    BY <1>1, <1>9
  <2> QED BY <1>10, <2>1, MirrorDone
<1>11. CASE ~Done(p)
  <2>1. PICK b : /\ b = PathIn(d.folder, d.name)
                 /\ cmd' = [cmd EXCEPT ![p].pc = "link", ![p].dst = b]
    BY <1>11 DEF BlobWrite
  <2>2. d \in Command /\ DOMAIN cmd = Procs
    BY CommandIsTyped
  <2>3. b = d.dst
    BY <1>1, <1>2, <2>1 DEF HoldsTarget, PathIn, DirOf, PathOf, FileInserts
  <2>4. PICK c : c = [d EXCEPT !.pc = "link", !.dst = b]
    OBVIOUS
  <2>5. c.pc = "link" /\ c.dst = b
    BY <2>2, <2>4 DEF Command
  <2>6. cmd' = [cmd EXCEPT ![p] = c]
    BY <2>1, <2>2, <2>4
  <2>7. c.dst \notin DOMAIN tree /\ \A f : Alive(files, f) => RowPath(folders, files, f) # c.dst
    BY <1>1, <1>2, <2>3, <2>5 DEF Ready, Arriving
  <2>8. Ready(folders, files, tree, bin, C, c, X)
    BY <2>5, <2>7, ArrivalReady DEF Arriving, Departing, Binning
  <2>9. FoldersDue(folders, nextFolder, c) = folders /\ FilesDue(folders, files, nextFile, c) = files
    BY <2>5, NothingDue DEF DuePCs, Renaming, Deleting, RowSteps
  <2>10. MirrorAt(folders, nextFolder, files, nextFile, tree, bin, blobs, C, c, X, Y)
    BY <1>9, <2>5, <2>8, <2>9, CalmAt DEF CutPCs
  <2>11. MirrorAt(folders', nextFolder', files', nextFile', tree', bin', blobs', data', c, X, Y)
    BY <1>1, <2>10
  <2> QED BY <2>6, <2>11, MirrorStep
<1> QED BY <1>10, <1>11
-----------------------------------------------------------------------------
(* The steps on the rows: the tables become what was due.                   *)

LEMMA CalmDue ==
  ASSUME OneCareful, NEW X, NEW Y, MirrorWith(X, Y), NEW p \in Procs, cmd[p].pc \in DuePCs
  PROVE  Calm(FoldersDue(folders, nextFolder, cmd[p]), nextFolder,
              FilesDue(folders, files, nextFile, cmd[p]), tree, bin, blobs, data, X, Y)
<1>1. p = Solo
  BY OnlySolo
<1>2. cmd[p].pc \notin {"blobOpen", "blobWrite"}
  BY DEF DuePCs, Renaming, Deleting, RowSteps
<1> QED BY <1>1, <1>2, BlobsSettled DEF MirrorWith, MirrorAt, Calm

LEMMA MirrorAnswered ==
  ASSUME StoreInv, OneCareful, NEW X, NEW Y, MirrorWith(X, Y), NEW p \in Procs, cmd[p].pc \in DuePCs, Done(p),
         UNCHANGED <<tree, bin, blobs, data>>,
         folders' = FoldersDue(folders, nextFolder, cmd[p]),
         files' = FilesDue(folders, files, nextFile, cmd[p]),
         nextFolder' = nextFolder \/ (UNCHANGED files /\ nextFolder' = nextFolder + 1)
  PROVE  MirrorWith(X, Y)'
<1> PICK E, H : E = folders' /\ H = files'
  OBVIOUS
<1>1. Calm(E, nextFolder, H, tree, bin, blobs, data, X, Y)
  BY CalmDue
<1> PICK n : n = nextFolder'
  OBVIOUS
<1>2. Minted(H, n)
  <2>1. CASE n = nextFolder
    BY <1>1, <2>1 DEF Calm
  <2>2. CASE H = files /\ n = nextFolder + 1
    <3>1. \A f \in DOMAIN files : files[f].folder \in Nat /\ files[f].from \in Nat
      BY RowsAreTyped DEF RowsTyped, File, FolderIds, Root
    <3>2. nextFolder \in Nat
      BY StoreInvParts DEF RowsOK
    <3>3. \A f \in DOMAIN files : files[f].folder < nextFolder /\ files[f].from < nextFolder
      BY <1>1, <2>2 DEF Calm, Minted
    <3> QED BY <2>2, <3>1, <3>2, <3>3 DEF Minted
  <2> QED BY <2>1, <2>2
<1>3. Calm(E, n, H, tree, bin, blobs, data, X, Y)
  BY <1>1, <1>2 DEF Calm
<1>4. Calm(folders', nextFolder', files', tree', bin', blobs', data', X, Y)
  BY <1>3
<1> QED BY <1>4, MirrorDone

LEMMA FolderRowsMirror ==
  ASSUME StoreInv, OneCareful, NEW X, NEW Y, MirrorWith(X, Y), NEW p \in Procs,
         InsertFolder(p) \/ UpdateBelow(p) \/ DropFolders(p)
  PROVE  MirrorWith(X, Y)'
<1> PICK d : d = cmd[p]
  OBVIOUS
<1>1. d.pc \in {"insertFolder", "updateBelow", "dropFolders"} /\ d.pc \in DuePCs
  BY DEF InsertFolder, UpdateBelow, DropFolders, At, DuePCs, Renaming, Deleting
<1>2. UNCHANGED <<files, tree, bin, blobs, data>> /\ Done(p)
  BY DEF InsertFolder, UpdateBelow, DropFolders, disk
<1>3. FilesDue(folders, files, nextFile, d) = files
  BY <1>1 DEF FilesDue, RowSteps
<1>4. folders' = FoldersDue(folders, nextFolder, d)
  <2>1. CASE InsertFolder(p)
    BY <2>1 DEF InsertFolder, At, FoldersDue
  <2>2. CASE UpdateBelow(p)
    <3>1. d.pc = "updateBelow"
      BY <2>2 DEF UpdateBelow, At
    <3>2. folders' = Rewritten(folders, d)
      BY <2>2, <3>1 DEF UpdateBelow, Rewritten, Renamed
    <3> QED BY <3>1, <3>2 DEF FoldersDue, Settled, Renaming
  <2>3. CASE DropFolders(p)
    <3>1. d.pc = "dropFolders"
      BY <2>3 DEF DropFolders, At
    <3>2. folders' = Dropped(folders, d)
      BY <2>3 DEF DropFolders, Dropped, Doomed, DoomedOf
    <3> QED BY <3>1, <3>2 DEF FoldersDue, Settled, Renaming, Deleting
  <2> QED BY <2>1, <2>2, <2>3
<1>5. nextFolder' = nextFolder \/ nextFolder' = nextFolder + 1
  BY DEF InsertFolder, UpdateBelow, DropFolders
<1> QED BY <1>1, <1>2, <1>3, <1>4, <1>5, MirrorAnswered

LEMMA FileRowsMirror ==
  ASSUME StoreInv, OneCareful, NEW X, NEW Y, MirrorWith(X, Y), NEW p \in Procs,
         \/ MoveRow(p) \/ RenameRow(p) \/ InsertFile(p)
         \/ BinRow(p) \/ RestoreRow(p) \/ PurgeRows(p)
  PROVE  MirrorWith(X, Y)'
<1> PICK d : d = cmd[p]
  OBVIOUS
<1>1. /\ d.pc \in {"moveRow", "renameRow", "insertFile", "binRow", "restoreRow", "purgeRows"}
      /\ Done(p) /\ UNCHANGED <<folders, nextFolder, tree, bin, blobs, data>>
  BY DEF MoveRow, RenameRow, InsertFile, BinRow, RestoreRow, PurgeRows, At, disk
<1>2. d.pc \in DuePCs /\ FoldersDue(folders, nextFolder, d) = folders
  BY <1>1 DEF DuePCs, FoldersDue, Settled, Renaming, Deleting, RowSteps
<1>3. files' = FilesDue(folders, files, nextFile, d)
  <2>1. CASE MoveRow(p)
    BY <2>1 DEF MoveRow, At, FilesDue, RowSteps, RowDue
  <2>2. CASE RenameRow(p)
    BY <2>2 DEF RenameRow, At, FilesDue, RowSteps, RowDue
  <2>3. CASE InsertFile(p)
    BY <2>3 DEF InsertFile, At, FilesDue
  <2>4. CASE BinRow(p)
    BY <2>4 DEF BinRow, At, FilesDue, RowSteps, RowDue
  <2>5. CASE RestoreRow(p)
    BY <2>5 DEF RestoreRow, At, FilesDue, RowSteps, RowDue
  <2>6. CASE PurgeRows(p)
    BY <2>6 DEF PurgeRows, At, FilesDue
  <2> QED BY <2>1, <2>2, <2>3, <2>4, <2>5, <2>6
<1> QED BY <1>1, <1>2, <1>3, MirrorAnswered

\* Two statements that leave the rows due what they were.
LEMMA HalfwayMirror ==
  ASSUME StoreInv, OneCareful, NEW X, NEW Y, MirrorWith(X, Y), NEW p \in Procs, UpdateFolder(p) \/ BinFiles(p)
  PROVE  MirrorWith(X, Y)'
<1> PICK d, F, G : d = cmd[p] /\ F = folders' /\ G = files'
  OBVIOUS
<1>1. UNCHANGED <<nextFolder, nextFile, tree, bin, blobs, data>>
  BY DEF UpdateFolder, BinFiles, disk
<1>2. ASSUME NEW to \in DuePCs \ CutPCs, Goto(p, to), d.pc \in DuePCs,
             \A c : c.pc = to /\ SameLocals(c, d) =>
               /\ FoldersDue(F, nextFolder, c) = FoldersDue(folders, nextFolder, d)
               /\ FilesDue(F, G, nextFile, c) = FilesDue(folders, files, nextFile, d)
      PROVE  MirrorWith(X, Y)'
  <2>1. Calm(FoldersDue(folders, nextFolder, d), nextFolder, FilesDue(folders, files, nextFile, d),
             tree, bin, blobs, data, X, Y)
    BY <1>2, CalmDue
  <2>2. ASSUME NEW c, c.pc = to, SameLocals(c, d)
        PROVE  MirrorAt(folders', nextFolder', files', nextFile', tree', bin', blobs', data', c, X, Y)
    <3>1. Calm(FoldersDue(F, nextFolder, c), nextFolder, FilesDue(F, G, nextFile, c),
               tree, bin, blobs, data, X, Y)
      BY <1>2, <2>1, <2>2
    <3>2. Ready(F, G, tree, bin, data, c, X) /\ c.pc \notin {"blobOpen", "blobWrite"}
      BY <1>2, <2>2, NothingToReady DEF DuePCs, Renaming, Deleting, RowSteps
    <3>3. MirrorAt(F, nextFolder, G, nextFile, tree, bin, blobs, data, c, X, Y)
      BY <1>2, <2>2, <3>1, <3>2, CalmAt
    <3> QED BY <1>1, <3>3
  <2> QED BY <1>2, <2>2, MirrorGoto
<1>3. CASE UpdateFolder(p)
  <2>1. d.pc = "updateFolder" /\ Goto(p, "updateBelow") /\ G = files
    BY <1>3 DEF UpdateFolder, At
  <2>2. F = [g \in DOMAIN folders |-> Renamed(folders, g, d)]
    BY <1>3, <2>1 DEF UpdateFolder, Renamed
  <2>3. ASSUME NEW c, c.pc = "updateBelow", SameLocals(c, d)
        PROVE  /\ FoldersDue(F, nextFolder, c) = FoldersDue(folders, nextFolder, d)
               /\ FilesDue(F, G, nextFile, c) = FilesDue(folders, files, nextFile, d)
    <3>1. \A g \in DOMAIN F : Renamed(F, g, c) = Renamed(folders, g, d)
      BY <2>2, <2>3 DEF Renamed
    <3>2. Rewritten(F, c) = Rewritten(folders, d)
      BY <2>2, <2>3, <3>1 DEF Rewritten, SameLocals
    <3> QED BY <2>1, <2>3, <3>2 DEF FoldersDue, FilesDue, Settled, Renaming, RowSteps
  <2>4. d.pc \in DuePCs /\ "updateBelow" \in DuePCs \ CutPCs
    BY <2>1 DEF DuePCs, Renaming, CutPCs
  <2> QED BY <1>2, <2>1, <2>3, <2>4
<1>4. CASE BinFiles(p)
  <2>1. d.pc = "binFiles" /\ Goto(p, "dropFolders") /\ F = folders
    BY <1>4 DEF BinFiles, At
  <2>2. G = FilesDue(folders, files, nextFile, d)
    BY <1>4, <2>1 DEF BinFiles, FilesDue, Doomed, DoomedOf
  <2>3. ASSUME NEW c, c.pc = "dropFolders", SameLocals(c, d)
        PROVE  /\ FoldersDue(F, nextFolder, c) = FoldersDue(folders, nextFolder, d)
               /\ FilesDue(F, G, nextFile, c) = FilesDue(folders, files, nextFile, d)
    <3>1. Dropped(F, c) = Dropped(folders, d)
      BY <2>1, <2>3 DEF Dropped, SameLocals
    <3>2. FoldersDue(F, nextFolder, c) = FoldersDue(folders, nextFolder, d)
      BY <2>1, <2>3, <3>1 DEF FoldersDue, Settled, Renaming, Deleting
    <3>3. FilesDue(F, G, nextFile, c) = G
      BY <2>3 DEF FilesDue, RowSteps
    <3> QED BY <2>2, <3>2, <3>3
  <2>4. d.pc \in DuePCs /\ "dropFolders" \in DuePCs \ CutPCs
    BY <2>1 DEF DuePCs, Deleting, CutPCs
  <2> QED BY <1>2, <2>1, <2>3, <2>4
<1> QED BY <1>3, <1>4
-----------------------------------------------------------------------------
(* The theorems.                                                            *)

\* Where a fault would leave the rows of a folder, a blob or the bin half done.
Unfinished == Renaming \cup Deleting \cup {"insertFolder", "blobWrite", "purgeRows"}
CutSafely == FaultPoints \cap Unfinished = {}

\* A fault leaves one row and one path astray, at most.
Astray(X, Y) ==
  /\ X \subseteq 0..(nextFile - 1)
  /\ IsFiniteSet(X) /\ IsFiniteSet(Y) /\ Cardinality(X) <= faults /\ Cardinality(Y) <= faults
MirrorNow == \E X, Y : Astray(X, Y) /\ MirrorWith(X, Y)
MirrorInv == faults = 0 \/ CutSafely => TreeInv /\ MirrorNow

LEMMA MirrorInit ==
  ASSUME NEW X, NEW Y, Init, OneCareful
  PROVE  TreeInv /\ MirrorWith(X, Y)
<1>1. TreeInv
  BY TreeInit
<1>2. cmd[Solo] = Idle
  BY OnlySolo DEF Init
<1>3. /\ DOMAIN folders = {} /\ DOMAIN files = {} /\ DOMAIN blobs = {}
      /\ DOMAIN tree = {<<>>} /\ tree[<<>>] = Dir /\ DOMAIN bin = {<<>>} /\ bin[<<>>] = Dir
  BY DEF Init, EmptyTree
<1>4. Mirrors(folders, files, tree, data, X, Y)
  BY <1>3 DEF Mirrors, InPlace, Filed, RowsApart, NothingElse, OnDisk, IsDir, Alive
<1>5. Holds(folders, files, bin, data, X) /\ Minted(files, nextFolder) /\ AllGood(blobs, data)
  BY <1>3 DEF Holds, Kept, Minted, AllGood
<1>6. EntriesApart(bin)
  BY <1>3 DEF EntriesApart, IsFile
<1>7. Calm(folders, nextFolder, files, tree, bin, blobs, data, X, Y)
  BY <1>4, <1>5, <1>6 DEF Calm
<1>8. Idle.pc \notin DuePCs /\ Idle.pc \notin {"blobOpen", "blobWrite"}
  BY IdleIsIdle DEF DuePCs, Renaming, Deleting, RowSteps
<1>9. FoldersDue(folders, nextFolder, Idle) = folders /\ FilesDue(folders, files, nextFile, Idle) = files
  BY <1>8, NothingDue
<1>10. Ready(folders, files, tree, bin, data, Idle, X)
  BY IdleIsIdle, NothingToReady
<1>11. MirrorAt(folders, nextFolder, files, nextFile, tree, bin, blobs, data, Idle, X, Y)
  BY <1>7, <1>8, <1>9, <1>10, IdleIsIdle, CalmAt DEF CutPCs
<1> QED BY <1>1, <1>2, <1>11 DEF MirrorWith

LEMMA NoneAstray ==
  ASSUME StoreInv, faults = 0, NEW X, NEW Y
  PROVE  Astray(X, Y) <=> X = {} /\ Y = {}
<1>1. Astray({}, {})
  BY FS_EmptySet, StoreInvParts DEF Astray
<1>2. ASSUME Astray(X, Y) PROVE X = {} /\ Y = {}
  <2>1. Cardinality(X) \in Nat /\ Cardinality(Y) \in Nat
    BY <1>2, FS_CardinalityType DEF Astray
  <2>2. Cardinality(X) = 0 /\ Cardinality(Y) = 0
    BY <1>2, <2>1 DEF Astray
  <2> QED BY <1>2, <2>2, FS_EmptySet DEF Astray
<1> QED BY <1>1, <1>2

\* The paths under a folder that is renamed are no more than before.
LEMMA MovedAllSize ==
  ASSUME NEW Y, IsFiniteSet(Y), NEW a, NEW b
  PROVE  IsFiniteSet(MovedAll(Y, a, b)) /\ Cardinality(MovedAll(Y, a, b)) <= Cardinality(Y)
<1> PICK Z, m : Z = MovedAll(Y, a, b) /\ m = [q \in Y |-> Moved(q, a, b)]
  OBVIOUS
<1>1. m \in [Y -> Z]
  BY DEF MovedAll
<1>2. \A z \in Z : \E q \in Y : m[q] = z
  BY DEF MovedAll
<1>3. m \in Surjection(Y, Z)
  BY <1>1, <1>2 DEF Surjection
<1> QED BY <1>3, FS_Surjection

LEMMA CommandMirror ==
  ASSUME StoreInv, MirrorWorld, TreeInv, NEW X, NEW Y, MirrorWith(X, Y), nextFile \notin X,
         NEW p \in Procs, FolderCommand(p) \/ FileCommand(p) \/ BinCommand(p)
  PROVE  MirrorWith(X, Y)' \/ \E a, b : MirrorWith(X, MovedAll(Y, a, b))'
<1>1. OneCareful
  BY DEF MirrorWorld
<1>2. CASE FolderCommand(p)
  BY <1>1, <1>2, FolderStartsMirror, MakeDirMirror, RenameDirMirror, BinDirMirror, FolderRowsMirror,
     HalfwayMirror
  DEF FolderCommand
<1>3. CASE FileCommand(p)
  <2>1. ~CopyOpen(p) /\ ~CopyWrite(p)
    BY <1>1, NoCopyOver DEF CopyOpen, CopyWrite, At
  <2> QED BY <1>1, <1>3, <2>1, FileStartsMirror, MoveDiskMirror, RenameDiskMirror, BlobOpenMirror,
             BlobWriteMirror, LinkMirror, FileRowsMirror
          DEF FileCommand
<1>4. CASE BinCommand(p)
  BY <1>1, <1>4, BinStartsMirror, BinDiskMirror, RestoreDiskMirror, FileRowsMirror, EmptyBinMirror
  DEF BinCommand
<1> QED BY <1>2, <1>3, <1>4

LEMMA CommandCounts ==
  ASSUME NEW p \in Procs, FolderCommand(p) \/ FileCommand(p) \/ BinCommand(p)
  PROVE  UNCHANGED faults /\ (nextFile' = nextFile \/ nextFile' = nextFile + 1)
<1>1. CASE FolderCommand(p)
  BY <1>1 DEF FolderCommand, CreateFolder, MakeDir, InsertFolder, RenameFolder, RenameDir, UpdateFolder,
     UpdateBelow, DeleteFolder, BinDir, BinFiles, DropFolders, Start, rows
<1>2. CASE FileCommand(p)
  BY <1>2 DEF FileCommand, MoveFile, MoveDisk, MoveRow, RenameFile, RenameDisk, RenameRow, Ingest,
     BlobOpen, BlobWrite, CopyFile, Link, CopyOpen, CopyWrite, InsertFile, Start, rows
<1>3. CASE BinCommand(p)
  BY <1>3 DEF BinCommand, DeleteFile, BinDisk, BinRow, Restore, RestoreDisk, RestoreRow, EmptyBin,
     PurgeRows, Start, rows
<1> QED BY <1>1, <1>2, <1>3

\* A fault ends the only command and changes no table and no file.
LEMMA FaultEnds ==
  ASSUME StoreInv, OneCareful, (\E p \in Procs : StepFails(p)) \/ Crash
  PROVE  /\ Solo \in Procs /\ Done(Solo) /\ cmd[Solo].pc \in FaultPoints /\ faults' = faults + 1
         /\ UNCHANGED <<folders, nextFolder, files, nextFile, tree, bin, blobs, data>>
<1>1. Procs = {Solo} /\ DOMAIN cmd = Procs
  BY OnlySolo, StoreInvParts DEF CmdOK
<1>2. CASE \E p \in Procs : StepFails(p)
  BY <1>1, <1>2 DEF StepFails, rows, disk
<1>3. CASE Crash
  <2>1. cmd' = [p \in Procs |-> Idle]
    BY <1>3 DEF Crash
  <2>2. Done(Solo)
    BY <1>1, <2>1 DEF Done
  <2> QED BY <1>1, <1>3, <2>2 DEF Crash, Busy, rows, disk
<1> QED BY <1>2, <1>3

LEMMA FaultMirror ==
  ASSUME StoreInv, OneCareful, CutSafely, TreeInv, NEW X, NEW Y, MirrorWith(X, Y),
         (\E p \in Procs : StepFails(p)) \/ Crash
  PROVE  \/ MirrorWith(X, Y)'
         \/ \E f \in 0..(nextFile - 1) : \E q : MirrorWith(X \cup {f}, Y \cup {q})'
<1>1. /\ Solo \in Procs /\ Done(Solo) /\ cmd[Solo].pc \notin Unfinished
      /\ UNCHANGED <<folders, nextFolder, files, nextFile, tree, bin, blobs, data>>
  BY FaultEnds DEF CutSafely
<1>2. CASE cmd[Solo].pc \in CutPCs
  <2>1. PICK f \in 0..(nextFile - 1) :
          \E q : Calm(folders, nextFolder, files, tree, bin, blobs, data, X \cup {f}, Y \cup {q})
    BY <1>2 DEF MirrorWith, MirrorAt, CutShort
  <2>2. PICK q : Calm(folders, nextFolder, files, tree, bin, blobs, data, X \cup {f}, Y \cup {q})
    BY <2>1
  <2>3. Calm(folders', nextFolder', files', tree', bin', blobs', data', X \cup {f}, Y \cup {q})
    BY <1>1, <2>2
  <2> QED BY <1>1, <2>3, MirrorDone
<1>3. CASE cmd[Solo].pc \notin CutPCs
  <2>1. cmd[Solo].pc \notin DuePCs /\ cmd[Solo].pc # "blobWrite"
    <3>1. DuePCs \subseteq Unfinished \cup CutPCs  BY DEF DuePCs, Unfinished, CutPCs, RowSteps, Deleting
    <3>2. "blobWrite" \in Unfinished                BY DEF Unfinished
    <3> QED BY <1>1, <1>3, <3>1, <3>2
  <2>2. /\ Mirrors(folders, files, tree, data, X, Y) /\ Holds(folders, files, bin, data, X)
        /\ EntriesApart(bin) /\ Minted(files, nextFolder) /\ BlobsGood(blobs, data, cmd[Solo])
    BY <1>1, <2>1, MirrorBefore
  <2>3. AllGood(blobs, data)
    BY <2>1, <2>2 DEF BlobsGood, AllGood
  <2>4. Calm(folders, nextFolder, files, tree, bin, blobs, data, X, Y)
    BY <2>2, <2>3 DEF Calm
  <2>5. Calm(folders', nextFolder', files', tree', bin', blobs', data', X, Y)
    BY <1>1, <2>4
  <2> QED BY <1>1, <2>5, MirrorDone
<1> QED BY <1>2, <1>3

LEMMA MirrorNext ==
  ASSUME StoreInv, MirrorWorld, MirrorInv, [Next]_vars
  PROVE  MirrorInv'
<1> SUFFICES ASSUME faults' = 0 \/ CutSafely PROVE (TreeInv /\ MirrorNow)'
  BY DEF MirrorInv
<1>1. faults \in Nat /\ nextFile \in Nat /\ OneCareful
  BY StoreInvParts DEF ClockOK, RowsOK, MirrorWorld
<1>2. ASSUME NEW p \in Procs, FolderCommand(p) \/ FileCommand(p) \/ BinCommand(p)
      PROVE  (TreeInv /\ MirrorNow)'
  <2>1. UNCHANGED faults /\ (nextFile' = nextFile \/ nextFile' = nextFile + 1)
    BY <1>2, CommandCounts
  <2>2. TreeInv /\ MirrorNow
    BY <2>1 DEF MirrorInv
  <2>3. TreeInv'
    BY <1>1, <1>2, <2>2, CommandWhole
  <2>4. PICK X, Y : Astray(X, Y) /\ MirrorWith(X, Y)
    BY <2>2 DEF MirrorNow
  <2>5. nextFile \notin X /\ Astray(X, Y)'
    BY <1>1, <2>1, <2>4 DEF Astray
  <2>6. MirrorWith(X, Y)' \/ \E a, b : MirrorWith(X, MovedAll(Y, a, b))'
    BY <1>2, <2>2, <2>4, <2>5, CommandMirror
  <2>7. CASE MirrorWith(X, Y)'
    BY <2>3, <2>5, <2>7 DEF MirrorNow
  <2>8. CASE \E a, b : MirrorWith(X, MovedAll(Y, a, b))'
    <3>1. PICK a, b : MirrorWith(X, MovedAll(Y, a, b))'
      BY <2>8
    <3> PICK Z : Z = MovedAll(Y, a, b)
      OBVIOUS
    <3>2. IsFiniteSet(Z) /\ Cardinality(Z) <= Cardinality(Y) /\ Cardinality(Z) \in Nat
      BY <2>4, MovedAllSize, FS_CardinalityType DEF Astray
    <3>3. Cardinality(Y) \in Nat
      BY <2>4, FS_CardinalityType DEF Astray
    <3>4. Astray(X, Z)'
      BY <1>1, <2>1, <2>5, <3>2, <3>3 DEF Astray
    <3>5. MirrorWith(X, Z)'
      BY <3>1
    <3> QED BY <2>3, <3>4, <3>5 DEF MirrorNow
  <2> QED BY <2>6, <2>7, <2>8
<1>3. ASSUME (\E p \in Procs : StepFails(p)) \/ Crash
      PROVE  (TreeInv /\ MirrorNow)'
  <2>1. faults' = faults + 1 /\ UNCHANGED nextFile
    BY <1>1, <1>3, FaultEnds
  <2>2. CutSafely
    BY <1>1, <2>1
  <2>3. TreeInv /\ MirrorNow
    BY <2>2 DEF MirrorInv
  <2>4. TreeInv'
    <3>1. FoldersWhole
      BY <1>1, <2>2 DEF FoldersWhole, CutSafely, Unfinished
    <3> QED BY <1>3, <2>3, <3>1, FaultWhole
  <2>5. PICK X, Y : Astray(X, Y) /\ MirrorWith(X, Y)
    BY <2>3 DEF MirrorNow
  <2>6. Cardinality(X) \in Nat /\ Cardinality(Y) \in Nat
    BY <2>5, FS_CardinalityType DEF Astray
  <2>7. CASE MirrorWith(X, Y)'
    <3>1. Astray(X, Y)'
      BY <1>1, <2>1, <2>5, <2>6 DEF Astray
    <3> QED BY <2>4, <2>7, <3>1 DEF MirrorNow
  <2>8. CASE \E f \in 0..(nextFile - 1) : \E q : MirrorWith(X \cup {f}, Y \cup {q})'
    <3>1. PICK f \in 0..(nextFile - 1) : \E q : MirrorWith(X \cup {f}, Y \cup {q})'
      BY <2>8
    <3>2. PICK q : MirrorWith(X \cup {f}, Y \cup {q})'
      BY <3>1
    <3> PICK V, W : V = X \cup {f} /\ W = Y \cup {q}
      OBVIOUS
    <3>3. IsFiniteSet(V) /\ (Cardinality(V) = Cardinality(X) \/ Cardinality(V) = Cardinality(X) + 1)
      BY <2>5, FS_AddElement DEF Astray
    <3>4. IsFiniteSet(W) /\ (Cardinality(W) = Cardinality(Y) \/ Cardinality(W) = Cardinality(Y) + 1)
      BY <2>5, FS_AddElement DEF Astray
    <3>5. Astray(V, W)'
      BY <1>1, <2>1, <2>5, <2>6, <3>3, <3>4 DEF Astray
    <3>6. MirrorWith(V, W)'
      BY <3>2
    <3> QED BY <2>4, <3>5, <3>6 DEF MirrorNow
  <2> QED BY <1>1, <1>3, <2>2, <2>3, <2>5, <2>7, <2>8, FaultMirror
<1>4. CASE Tick \/ UNCHANGED vars
  <2>1. UNCHANGED <<folders, nextFolder, files, nextFile, tree, bin, blobs, data, cmd, faults>>
    BY <1>4 DEF Tick, vars, rows, disk
  <2>2. TreeInv /\ MirrorNow
    BY <2>1 DEF MirrorInv
  <2>3. TreeInv'
    BY <1>4, <2>2, IdleStepWhole
  <2>4. PICK X, Y : Astray(X, Y) /\ MirrorWith(X, Y)
    BY <2>2 DEF MirrorNow
  <2>5. PICK c : c = cmd[Solo]
    OBVIOUS
  <2>6. MirrorAt(folders, nextFolder, files, nextFile, tree, bin, blobs, data, c, X, Y)
    BY <2>4, <2>5 DEF MirrorWith
  <2>7. cmd'[Solo] = c
    BY <2>1, <2>5
  <2>8. MirrorAt(folders', nextFolder', files', nextFile', tree', bin', blobs', data', c, X, Y)
    BY <2>1, <2>6
  <2>9. MirrorWith(X, Y)' /\ Astray(X, Y)'
    BY <2>1, <2>4, <2>7, <2>8 DEF MirrorWith, Astray
  <2> QED BY <2>3, <2>9 DEF MirrorNow
<1> QED BY <1>2, <1>3, <1>4 DEF Next

LEMMA MirrorStarts ==
  ASSUME Init, MirrorWorld
  PROVE  StoreInv /\ MirrorInv
<1>1. StoreInv /\ faults = 0
  BY StoreInit DEF Init
<1>2. TreeInv /\ MirrorWith({}, {})
  BY MirrorInit DEF MirrorWorld
<1>3. Astray({}, {})
  BY <1>1, NoneAstray
<1> QED BY <1>1, <1>2, <1>3 DEF MirrorInv, MirrorNow

LEMMA QuietIsCalm ==
  ASSUME StoreInv, MirrorWorld, MirrorInv, Quiet, faults = 0 \/ CutSafely
  PROVE  \E X, Y : Astray(X, Y) /\ Calm(folders, nextFolder, files, tree, bin, blobs, data, X, Y)
<1>1. OneCareful /\ Solo \in Procs /\ At(Solo, "idle")
  BY OnlySolo DEF MirrorWorld, Quiet, Busy, At
<1>2. PICK X, Y : Astray(X, Y) /\ MirrorWith(X, Y)
  BY DEF MirrorInv, MirrorNow
<1>3. Calm(folders, nextFolder, files, tree, bin, blobs, data, X, Y)
  BY <1>1, <1>2, CalmAtIdle DEF MirrorInv
<1> QED BY <1>2, <1>3

\* Between commands the rows that are not shown are in X and the files of no row in Y.
LEMMA OnlyTheAstray ==
  ASSUME NEW X, NEW Y, Mirrors(folders, files, tree, data, X, Y)
  PROVE  Drift \subseteq X /\ Strays \subseteq Y
<1>1. \A f : FilePath(f) = RowPath(folders, files, f) /\ (Live(f) <=> Alive(files, f))
  BY DEF FilePath, PathIn, DirOf, RowPath, PathOf, Live, Alive
<1>2. ASSUME NEW f, Alive(files, f), f \notin X PROVE Shown(f)
  <2>1. f \in DOMAIN files /\ Has(folders, files[f].folder) /\ Filed(folders, files, tree, data, X, f)
    BY <1>2, LiveFile
  <2>2. /\ IsFile(tree, RowPath(folders, files, f))
        /\ data[tree[RowPath(folders, files, f)]] = files[f].hash
    BY <1>2, <2>1 DEF Filed
  <2> QED BY <1>1, <2>1, <2>2 DEF Shown, Listed, Has
<1>3. Drift \subseteq X
  BY <1>1, <1>2 DEF Drift
<1>4. ASSUME NEW q \in Strays PROVE q \in Y
  <2>1. /\ q \in DOMAIN tree /\ tree[q] # Dir
        /\ ~\E f \in DOMAIN files : Live(f) /\ Shown(f) /\ FilePath(f) = q
    BY DEF Strays
  <2>2. q # <<>> /\ q \notin FolderPaths(folders)
    BY <2>1 DEF Mirrors, OnDisk, IsDir, FolderPaths
  <2>3. ASSUME NEW f \in DOMAIN files, Alive(files, f), q = RowPath(folders, files, f) PROVE FALSE
    <3>1. f \notin X
      BY <2>1, <2>3, LiveFile DEF Filed
    <3> QED BY <1>1, <1>2, <2>1, <2>3, <3>1
  <2> QED BY <2>1, <2>2, <2>3 DEF Mirrors, NothingElse
<1> QED BY <1>3, <1>4

LEMMA MirrorHolds ==
  ASSUME StoreInv, MirrorWorld, MirrorInv
  PROVE  Mirror
<1> SUFFICES ASSUME Quiet, faults = 0
             PROVE  /\ Drift = {} /\ Strays = {}
                    /\ \A f, g \in DOMAIN files : Live(f) /\ Live(g) /\ f # g => FilePath(f) # FilePath(g)
                    /\ {q \in DOMAIN tree : tree[q] = Dir} =
                         {<<>>} \cup {folders[g].path : g \in DOMAIN folders}
  BY DEF Mirror
<1>1. Mirrors(folders, files, tree, data, {}, {})
  BY QuietIsCalm, NoneAstray DEF Calm
<1>2. \A f : FilePath(f) = RowPath(folders, files, f) /\ (Live(f) <=> Alive(files, f))
  BY DEF FilePath, PathIn, DirOf, RowPath, PathOf, Live, Alive
<1>3. Drift = {} /\ Strays = {}
  BY <1>1, OnlyTheAstray
<1>4. \A f, g \in DOMAIN files : Live(f) /\ Live(g) /\ f # g => FilePath(f) # FilePath(g)
  BY <1>1, <1>2 DEF Mirrors, RowsApart
<1>5. {q \in DOMAIN tree : tree[q] = Dir} = {<<>>} \cup {folders[g].path : g \in DOMAIN folders}
  <2>1. ASSUME NEW q \in DOMAIN tree, tree[q] = Dir
        PROVE  q \in {<<>>} \cup {folders[g].path : g \in DOMAIN folders}
    <3>1. ASSUME NEW f \in DOMAIN files, Alive(files, f), q = RowPath(folders, files, f) PROVE FALSE
      <4>1. IsFile(tree, q)
        BY <1>1, <3>1, LiveFile DEF Filed
      <4> QED BY <2>1, <4>1 DEF IsFile
    <3> QED BY <1>1, <3>1 DEF Mirrors, NothingElse, FolderPaths
  <2>2. tree[<<>>] = Dir /\ <<>> \in DOMAIN tree
    BY <1>1 DEF Mirrors, IsDir
  <2>3. \A g \in DOMAIN folders : folders[g].path \in DOMAIN tree /\ tree[folders[g].path] = Dir
    BY <1>1 DEF Mirrors, OnDisk, IsDir
  <2> QED BY <2>1, <2>2, <2>3
<1> QED BY <1>3, <1>4, <1>5

LEMMA BinHoldsKept ==
  ASSUME StoreInv, MirrorWorld, MirrorInv
  PROVE  BinHolds
<1> SUFFICES ASSUME Quiet, faults = 0, NEW f \in DOMAIN files, files[f].binned, Listed(files[f].from)
             PROVE  \E e \in Newest(files[f].name) :
                      IsFile(bin, <<e>>) /\ data[bin[<<e>>]] = files[f].hash
  BY DEF BinHolds
<1> PICK X : X = {}
  OBVIOUS
<1>1. Holds(folders, files, bin, data, X) /\ EntriesApart(bin)
  BY QuietIsCalm, NoneAstray DEF Calm
<1>2. Kept(folders, files, f)
  BY DEF Kept, Listed, Has
<1>3. PICK e \in Slots : IsEntry(files, bin, data, f, e)
  BY <1>1, <1>2 DEF Holds
<1>4. e \in BinMatches(files[f].name)
  BY <1>3 DEF IsEntry, IsFile, BinMatches
<1>5. \A d \in BinMatches(files[f].name) : d = e
  BY <1>1, <1>4 DEF BinMatches, EntriesApart
<1>6. e[1] <= e[1]
  BY DEF Slots
<1>7. e \in Newest(files[f].name)
  BY <1>4, <1>5, <1>6 DEF Newest
<1> QED BY <1>3, <1>7 DEF IsEntry

LEMMA DriftIsBounded ==
  ASSUME StoreInv, MirrorWorld, CutSafely, MirrorInv
  PROVE  DriftBounded
<1> SUFFICES ASSUME Quiet PROVE Cardinality(Drift) <= faults /\ Cardinality(Strays) <= faults
  BY DEF DriftBounded
<1>1. PICK X, Y : /\ Astray(X, Y)
                  /\ Calm(folders, nextFolder, files, tree, bin, blobs, data, X, Y)
  BY QuietIsCalm
<1>2. Drift \subseteq X /\ Strays \subseteq Y
  BY <1>1, OnlyTheAstray DEF Calm
<1>3. /\ Cardinality(Drift) <= Cardinality(X) /\ Cardinality(Strays) <= Cardinality(Y)
      /\ Cardinality(X) \in Nat /\ Cardinality(Y) \in Nat
      /\ Cardinality(Drift) \in Nat /\ Cardinality(Strays) \in Nat
  BY <1>1, <1>2, FS_Subset, FS_CardinalityType DEF Astray
<1>4. Cardinality(X) <= faults /\ Cardinality(Y) <= faults /\ faults \in Nat
  BY <1>1, StoreInvParts DEF Astray, ClockOK
<1> QED BY <1>3, <1>4

\* fsops.rs:3, "Files under vault/files/ mirror what the UI shows": between commands, as
\* long as nothing was cut short, every live row has the file of its path with the bytes of
\* its hash, no two live rows have one path, and the tree holds nothing else but the
\* folders' directories, for any number of folders and files, however deep, with one command
\* at a time on free names, none of which starts another (fs_v_siblings shows that
\* delete_folder_to_bin needs the last).
THEOREM TreeMirrorsRows == MirrorWorld => (Spec => []Mirror)
<1> SUFFICES ASSUME MirrorWorld PROVE Spec => []Mirror
  OBVIOUS
<1>1. Init => StoreInv /\ MirrorInv
  BY MirrorStarts
<1>2. StoreInv /\ MirrorInv /\ [Next]_vars => (StoreInv /\ MirrorInv)'
  BY StoreNext, MirrorNext
<1>3. StoreInv /\ MirrorInv => Mirror
  BY MirrorHolds
<1> QED BY <1>1, <1>2, <1>3, PTL DEF Spec

\* vault.rs:22, "bin/ soft-deleted (restorable)": between commands, as long as nothing was
\* cut short, every binned row whose folder is there finds in the bin, by the search
\* restore_from_bin makes, an entry with the bytes of its hash; in the same world.
THEOREM BinCanRestore == MirrorWorld => (Spec => []BinHolds)
<1> SUFFICES ASSUME MirrorWorld PROVE Spec => []BinHolds
  OBVIOUS
<1>1. Init => StoreInv /\ MirrorInv
  BY MirrorStarts
<1>2. StoreInv /\ MirrorInv /\ [Next]_vars => (StoreInv /\ MirrorInv)'
  BY StoreNext, MirrorNext
<1>3. StoreInv /\ MirrorInv => BinHolds
  BY BinHoldsKept
<1> QED BY <1>1, <1>2, <1>3, PTL DEF Spec

\* A crash or an error in the middle of move_file, rename_file, ingest_bytes, copy_file,
\* delete_file_to_bin or restore_from_bin, between the change of the disk and the SQL
\* statement that should follow it, leaves at most one row without its file and one file
\* without its row, and no later command makes that worse: after any number of faults there
\* are never more of either than faults. In the same world, and where no fault strikes
\* between the steps that CutSafely names: there a folder's rows, a blob or the whole bin
\* is half done, and one fault can cost many files.
THEOREM DriftStaysBounded == MirrorWorld /\ CutSafely => (Spec => []DriftBounded)
<1> SUFFICES ASSUME MirrorWorld, CutSafely PROVE Spec => []DriftBounded
  OBVIOUS
<1>1. Init => StoreInv /\ MirrorInv
  BY MirrorStarts
<1>2. StoreInv /\ MirrorInv /\ [Next]_vars => (StoreInv /\ MirrorInv)'
  BY StoreNext, MirrorNext
<1>3. StoreInv /\ MirrorInv => DriftBounded
  BY DriftIsBounded
<1> QED BY <1>1, <1>2, <1>3, PTL DEF Spec
=============================================================================
