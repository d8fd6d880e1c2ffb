------------------------ MODULE FileStoreTreeProofs -------------------------
(***************************************************************************)
(* Theorems about FileStore that relate the rows to the trees on disk, for *)
(* one careful user.  Each theorem says in its hypothesis what else it     *)
(* needs.                                                                  *)
(***************************************************************************)
EXTENDS FileStoreProofs

-----------------------------------------------------------------------------
(* Paths: prefixes and what is left after them.                             *)

LEMMA PrefixElements ==
  ASSUME NEW S, NEW a \in Seq(S), NEW q \in Seq(S)
  PROVE  IsPrefix(a, q) <=> Len(a) <= Len(q) /\ \A i \in 1..Len(a) : a[i] = q[i]
<1>1. SubSeq(a, 1, Len(a)) = a
  BY SubSeqFull
<1>2. SUFFICES ASSUME Len(a) <= Len(q)
               PROVE  SubSeq(q, 1, Len(a)) = a <=> \A i \in 1..Len(a) : a[i] = q[i]
  BY <1>1 DEF IsPrefix
<1> DEFINE s == SubSeq(q, 1, Len(a))
<1>3. s \in Seq(S) /\ Len(s) = Len(a) /\ \A i \in 1..Len(a) : s[i] = q[i]
  <2>1. Len(a) \in Nat /\ Len(q) \in Nat /\ \A i \in 1..Len(a) : q[i] \in S
    BY <1>2
  <2>2. /\ SubSeq(q, 1, Len(a)) \in Seq(S)
        /\ Len(SubSeq(q, 1, Len(a))) = IF 1 <= Len(a) THEN Len(a) - 1 + 1 ELSE 0
        /\ \A i \in 1..(Len(a) - 1 + 1) : SubSeq(q, 1, Len(a))[i] = q[1 + i - 1]
    BY <2>1, SubSeqProperties
  <2> QED BY <2>1, <2>2
<1> HIDE DEF s
<1>4. s = a <=> Len(s) = Len(a) /\ \A i \in 1..Len(s) : s[i] = a[i]
  BY <1>3, SeqEqual
<1> QED BY <1>3, <1>4 DEF s

LEMMA PrefixFrom ==
  ASSUME NEW S, NEW a \in Seq(S), NEW q \in Seq(S),
         Len(a) <= Len(q), \A i \in 1..Len(a) : a[i] = q[i]
  PROVE  IsPrefix(a, q)
BY PrefixElements

LEMMA RestElements ==
  ASSUME NEW S, NEW a \in Seq(S), NEW q \in Seq(S), Len(a) <= Len(q)
  PROVE  /\ Rest(q, a) \in Seq(S) /\ Len(Rest(q, a)) = Len(q) - Len(a)
         /\ \A i \in 1..(Len(q) - Len(a)) : Rest(q, a)[i] = q[Len(a) + i]
<1>1. /\ Len(a) \in Nat /\ Len(q) \in Nat
      /\ \A i \in (Len(a) + 1)..Len(q) : q[i] \in S
  OBVIOUS
<1>2. /\ SubSeq(q, Len(a) + 1, Len(q)) \in Seq(S)
      /\ Len(SubSeq(q, Len(a) + 1, Len(q))) =
           IF Len(a) + 1 <= Len(q) THEN Len(q) - (Len(a) + 1) + 1 ELSE 0
      /\ \A i \in 1..(Len(q) - (Len(a) + 1) + 1) :
            SubSeq(q, Len(a) + 1, Len(q))[i] = q[Len(a) + 1 + i - 1]
  BY <1>1, SubSeqProperties
<1> QED BY <1>1, <1>2 DEF Rest

\* A path is its prefix followed by the rest.
LEMMA PrefixRest ==
  ASSUME NEW S, NEW a \in Seq(S), NEW q \in Seq(S), IsPrefix(a, q)
  PROVE  Rest(q, a) \in Seq(S) /\ a \o Rest(q, a) = q
<1>1. Len(a) \in Nat /\ Len(q) \in Nat /\ Len(a) <= Len(q) /\ \A i \in 1..Len(a) : a[i] = q[i]
  BY PrefixElements
<1>2. PICK r \in Seq(S) : /\ r = Rest(q, a) /\ Len(r) = Len(q) - Len(a)
                          /\ \A i \in 1..(Len(q) - Len(a)) : r[i] = q[Len(a) + i]
  BY <1>1, RestElements
<1>3. /\ a \o r \in Seq(S) /\ Len(a \o r) = Len(a) + Len(r)
      /\ \A i \in 1..(Len(a) + Len(r)) : (a \o r)[i] = IF i <= Len(a) THEN a[i] ELSE r[i - Len(a)]
  BY ConcatProperties
<1>4. PICK u \in Seq(S) : u = a \o r
  BY <1>3
<1>5. Len(u) = Len(q)
  BY <1>1, <1>2, <1>3, <1>4
<1>6. ASSUME NEW i \in 1..Len(u) PROVE u[i] = q[i]
  <2>1. u[i] = IF i <= Len(a) THEN a[i] ELSE r[i - Len(a)]
    BY <1>1, <1>2, <1>3, <1>4, <1>5
  <2>2. CASE i <= Len(a)
    BY <1>1, <2>1, <2>2
  <2>3. CASE ~(i <= Len(a))
    <3>1. i - Len(a) \in 1..(Len(q) - Len(a)) /\ Len(a) + (i - Len(a)) = i
      BY <1>1, <1>5, <2>3
    <3>2. r[i - Len(a)] = q[Len(a) + (i - Len(a))]
      BY <1>2, <3>1
    <3> QED BY <2>1, <2>3, <3>1, <3>2
  <2> QED BY <2>2, <2>3
<1>7. u = q
  BY <1>5, <1>6, SeqEqual
<1> QED BY <1>2, <1>4, <1>7

LEMMA ConcatPrefix ==
  ASSUME NEW S, NEW a \in Seq(S), NEW r \in Seq(S)
  PROVE  a \o r \in Seq(S) /\ IsPrefix(a, a \o r) /\ Rest(a \o r, a) = r
<1>1. /\ a \o r \in Seq(S) /\ Len(a \o r) = Len(a) + Len(r)
      /\ \A i \in 1..(Len(a) + Len(r)) : (a \o r)[i] = IF i <= Len(a) THEN a[i] ELSE r[i - Len(a)]
      /\ Len(a) \in Nat /\ Len(r) \in Nat
  BY ConcatProperties
<1> PICK q \in Seq(S) : q = a \o r
  BY <1>1
<1>2. IsPrefix(a, q)
  <2>1. Len(a) <= Len(q)
    BY <1>1
  <2>2. \A i \in 1..Len(a) : a[i] = q[i]
    BY <1>1
  <2> QED BY <2>1, <2>2, PrefixFrom
<1>3. /\ Rest(q, a) \in Seq(S) /\ Len(Rest(q, a)) = Len(r)
      /\ \A i \in 1..Len(r) : Rest(q, a)[i] = q[Len(a) + i]
  <2>1. Len(a) <= Len(q) /\ Len(q) - Len(a) = Len(r)
    BY <1>1
  <2>2. /\ Rest(q, a) \in Seq(S) /\ Len(Rest(q, a)) = Len(q) - Len(a)
        /\ \A i \in 1..(Len(q) - Len(a)) : Rest(q, a)[i] = q[Len(a) + i]
    BY <2>1, RestElements
  <2> QED BY <2>1, <2>2
<1>4. \A i \in 1..Len(r) : Rest(q, a)[i] = r[i]
  BY <1>1, <1>3
<1>5. Rest(q, a) = r
  BY <1>3, <1>4, SeqEqual
<1> QED BY <1>1, <1>2, <1>5

LEMMA PrefixOrder ==
  ASSUME NEW S, NEW a \in Seq(S), NEW b \in Seq(S), NEW q \in Seq(S)
  PROVE  /\ IsPrefix(a, a) /\ IsPrefix(<<>>, a)
         /\ IsPrefix(a, b) /\ IsPrefix(b, q) => IsPrefix(a, q)
         /\ IsPrefix(a, q) /\ IsPrefix(b, q) => IsPrefix(a, b) \/ IsPrefix(b, a)
         /\ IsPrefix(a, b) /\ Len(b) <= Len(a) => a = b
<1> DEFINE Starts(x, y) == Len(x) <= Len(y) /\ \A i \in 1..Len(x) : x[i] = y[i]
<1>1. \A x, y \in Seq(S) : IsPrefix(x, y) <=> Starts(x, y)
  BY PrefixElements
<1>2. Len(a) \in Nat /\ Len(b) \in Nat /\ Len(q) \in Nat /\ <<>> \in Seq(S) /\ Len(<<>>) = 0
  OBVIOUS
<1>3. Starts(a, a) /\ Starts(<<>>, a)
  BY <1>2
<1>4. Starts(a, b) /\ Starts(b, q) => Starts(a, q)
  BY <1>2
<1>5. Starts(a, q) /\ Starts(b, q) => Starts(a, b) \/ Starts(b, a)
  BY <1>2
<1>6. Starts(a, b) /\ Len(b) <= Len(a) => a = b
  BY <1>2, SeqEqual
<1> HIDE DEF Starts
<1> QED BY <1>1, <1>2, <1>3, <1>4, <1>5, <1>6

LEMMA PrefixAppend ==
  ASSUME NEW S, NEW a \in Seq(S), NEW q \in Seq(S), NEW n \in S
  PROVE  /\ Append(q, n) \in Seq(S) /\ Append(q, n) # <<>> /\ Len(Append(q, n)) = Len(q) + 1
         /\ Front(Append(q, n)) = q
         /\ IsPrefix(q, Append(q, n))
         /\ IsPrefix(a, Append(q, n)) <=> a = Append(q, n) \/ IsPrefix(a, q)
<1> PICK b \in Seq(S) : b = Append(q, n)
  BY AppendProperties
<1>1. /\ b # <<>> /\ Len(b) = Len(q) + 1 /\ Len(q) \in Nat /\ Len(a) \in Nat
      /\ \A i \in 1..Len(q) : b[i] = q[i]
  BY AppendProperties
<1>2. IsPrefix(q, b)
  <2>1. Len(q) <= Len(b)
    BY <1>1
  <2> QED BY <1>1, <2>1, PrefixFrom
<1>3. IsPrefix(a, q) => IsPrefix(a, b)
  BY <1>2, PrefixOrder
<1>4. ASSUME IsPrefix(a, b), Len(a) <= Len(q) PROVE IsPrefix(a, q)
  <2>1. \A i \in 1..Len(a) : a[i] = b[i]
    BY <1>4, PrefixElements, ZenonT(40)
  <2>2. \A i \in 1..Len(a) : a[i] = q[i]
    BY <1>1, <1>4, <2>1
  <2> QED BY <1>4, <2>2, PrefixFrom
<1>5. IsPrefix(a, b) => Len(a) <= Len(b)
  BY PrefixElements
<1>6. ASSUME IsPrefix(a, b), ~(Len(a) <= Len(q)) PROVE a = b
  <2>1. Len(b) <= Len(a)
    BY <1>1, <1>6
  <2> QED BY <1>6, <2>1, PrefixOrder
<1>7. IsPrefix(b, b)
  BY PrefixOrder
<1>8. Front(b) = q
  <2>1. SubSeq(b, 1, Len(q)) = q
    BY <1>2, SubSeqFull DEF IsPrefix
  <2>2. Len(b) - 1 = Len(q)
    BY <1>1
  <2> QED BY <2>1, <2>2 DEF Front
<1>9. IsPrefix(a, b) <=> a = b \/ IsPrefix(a, q)
  BY <1>3, <1>4, <1>6, <1>7
<1> QED BY <1>1, <1>2, <1>8, <1>9

LEMMA ConcatCancel ==
  ASSUME NEW S, NEW a \in Seq(S), NEW r \in Seq(S), NEW s \in Seq(S), a \o r = a \o s
  PROVE  r = s
<1>1. Rest(a \o r, a) = r
  BY ConcatPrefix
<1>2. Rest(a \o s, a) = s
  BY ConcatPrefix
<1> QED BY <1>1, <1>2

-----------------------------------------------------------------------------
(* What becomes of each path of a tree whose paths are sequences over S.    *)

LEMMA SubtreeEffect ==
  ASSUME NEW S, NEW t, DOMAIN t \subseteq Seq(S), NEW a \in Seq(S)
  PROVE  /\ DOMAIN Subtree(t, a) \subseteq Seq(S)
         /\ \A r \in Seq(S) : r \in DOMAIN Subtree(t, a) <=> a \o r \in DOMAIN t
         /\ \A r \in DOMAIN Subtree(t, a) : Subtree(t, a)[r] = t[a \o r]
<1>1. \A x \in Below(t, a) : x \in Seq(S) /\ x \in DOMAIN t /\ Rest(x, a) \in Seq(S) /\ a \o Rest(x, a) = x
  BY PrefixRest DEF Below
<1>2. \A r \in Seq(S) : a \o r \in DOMAIN t => a \o r \in Below(t, a) /\ Rest(a \o r, a) = r
  BY ConcatPrefix DEF Below
<1>3. DOMAIN Subtree(t, a) = {Rest(x, a) : x \in Below(t, a)}
  BY DEF Subtree
<1>4. ASSUME NEW r \in DOMAIN Subtree(t, a)
      PROVE  r \in Seq(S) /\ a \o r \in DOMAIN t /\ Subtree(t, a)[r] = t[a \o r]
  <2> DEFINE x == CHOOSE x \in Below(t, a) : Rest(x, a) = r
  <2>1. x \in Below(t, a) /\ Rest(x, a) = r
    BY <1>3, <1>4
  <2>2. Subtree(t, a)[r] = t[x]
    BY <1>3, <1>4 DEF Subtree
  <2> HIDE DEF x
  <2>3. a \o r = x /\ r \in Seq(S) /\ x \in DOMAIN t
    BY <1>1, <2>1
  <2> QED BY <2>2, <2>3
<1>5. \A r \in Seq(S) : a \o r \in DOMAIN t => r \in DOMAIN Subtree(t, a)
  BY <1>2, <1>3
<1> QED BY <1>4, <1>5

\* The tree m is u and, below b, where u has nothing, s.
Clear(u, b) == \A q \in DOMAIN u : ~IsPrefix(b, q)
Grafted(S, u, b, s, m) ==
  /\ DOMAIN m \subseteq Seq(S)
  /\ \A q \in DOMAIN u : q \in DOMAIN m /\ m[q] = u[q]
  /\ \A r \in DOMAIN s : b \o r \in DOMAIN m /\ m[b \o r] = s[r]
  /\ \A q \in DOMAIN m : q \in DOMAIN u \/ \E r \in DOMAIN s : q = b \o r

LEMMA GraftEffect ==
  ASSUME NEW S, NEW u, DOMAIN u \subseteq Seq(S), NEW s, DOMAIN s \subseteq Seq(S),
         NEW b \in Seq(S), Clear(u, b)
  PROVE  Grafted(S, u, b, s, Graft(u, b, s))
<1>1. DOMAIN Graft(u, b, s) = DOMAIN u \cup {b \o r : r \in DOMAIN s}
  BY DEF Graft
<1>2. \A r \in DOMAIN s : b \o r \in Seq(S) /\ IsPrefix(b, b \o r)
  BY ConcatPrefix
<1>3. \A q \in DOMAIN u : Graft(u, b, s)[q] = u[q]
  BY DEF Graft
<1>4. ASSUME NEW r \in DOMAIN s PROVE Graft(u, b, s)[b \o r] = s[r]
  <2> DEFINE x == CHOOSE x \in DOMAIN s : b \o x = b \o r
  <2>1. x \in DOMAIN s /\ b \o x = b \o r
    OBVIOUS
  <2>2. b \o r \notin DOMAIN u
    BY <1>2 DEF Clear
  <2>3. Graft(u, b, s)[b \o r] = s[x]
    BY <1>1, <2>2 DEF Graft
  <2> HIDE DEF x
  <2>4. x = r
    BY <2>1, ConcatCancel
  <2> QED BY <2>3, <2>4
<1>5. PICK m : m = Graft(u, b, s)
  OBVIOUS
<1>6. Grafted(S, u, b, s, m)
  BY <1>1, <1>2, <1>3, <1>4, <1>5 DEF Grafted
<1> QED BY <1>5, <1>6

\* The tree s is put at b of t, which loses what it has there and at a.
Placed(S, t, lost, b, s, m) ==
  /\ DOMAIN m \subseteq Seq(S)
  /\ \A q \in DOMAIN t :
       ~IsPrefix(b, q) /\ (\A a \in lost : ~IsPrefix(a, q)) => q \in DOMAIN m /\ m[q] = t[q]
  /\ \A r \in DOMAIN s : b \o r \in DOMAIN m /\ m[b \o r] = s[r]
  /\ \A q \in DOMAIN m :
       \/ q \in DOMAIN t /\ ~IsPrefix(b, q) /\ \A a \in lost : ~IsPrefix(a, q)
       \/ \E r \in DOMAIN s : q = b \o r

LEMMA MoveEffect ==
  ASSUME NEW S, NEW t, DOMAIN t \subseteq Seq(S), NEW a \in Seq(S), NEW b \in Seq(S),
         a # b, ~SameFile(t, a, t, b)
  PROVE  Placed(S, t, {a}, b, Subtree(t, a), Move(t, a, b))
<1> DEFINE u == Prune(Prune(t, b), a)
           s == Subtree(t, a)
<1>1. /\ DOMAIN u \subseteq DOMAIN t /\ DOMAIN u \subseteq Seq(S)
      /\ \A q \in DOMAIN t : q \in DOMAIN u <=> ~IsPrefix(b, q) /\ ~IsPrefix(a, q)
      /\ \A q \in DOMAIN u : u[q] = t[q]
  BY DEF Prune, Below
<1>2. DOMAIN s \subseteq Seq(S)
  BY SubtreeEffect
<1>3. Move(t, a, b) = Graft(u, b, s)
  BY DEF Move
<1> HIDE DEF u, s
<1>4. Clear(u, b)
  BY <1>1 DEF Clear
<1>5. DOMAIN u \subseteq Seq(S) /\ Grafted(S, u, b, s, Graft(u, b, s))
  BY <1>1, <1>2, <1>4, GraftEffect
<1>6. PICK m : m = Graft(u, b, s)
  OBVIOUS
<1>7. Placed(S, t, {a}, b, s, m)
  BY <1>1, <1>5, <1>6 DEF Placed, Grafted
<1> QED BY <1>3, <1>6, <1>7 DEF s

LEMMA RenameEffect ==
  ASSUME NEW S, NEW s, DOMAIN s \subseteq Seq(S), NEW a \in Seq(S),
         NEW t, DOMAIN t \subseteq Seq(S), NEW b \in Seq(S), ~SameFile(s, a, t, b)
  PROVE  /\ Placed(S, t, {}, b, Subtree(s, a), RenamedTo(s, a, t, b))
         /\ RenamedFrom(s, a, t, b) = Prune(s, a)
<1> DEFINE u == Prune(t, b)
           v == Subtree(s, a)
<1>1. /\ DOMAIN u \subseteq DOMAIN t /\ DOMAIN u \subseteq Seq(S)
      /\ \A q \in DOMAIN t : q \in DOMAIN u <=> ~IsPrefix(b, q)
      /\ \A q \in DOMAIN u : u[q] = t[q]
  BY DEF Prune, Below
<1>2. DOMAIN v \subseteq Seq(S)
  BY SubtreeEffect
<1>3. RenamedTo(s, a, t, b) = Graft(u, b, v) /\ RenamedFrom(s, a, t, b) = Prune(s, a)
  BY DEF RenamedTo, RenamedFrom
<1> HIDE DEF u, v
<1>4. Clear(u, b)
  BY <1>1 DEF Clear
<1>5. DOMAIN u \subseteq Seq(S) /\ Grafted(S, u, b, v, Graft(u, b, v))
  BY <1>1, <1>2, <1>4, GraftEffect
<1>6. PICK m : m = Graft(u, b, v)
  OBVIOUS
<1>7. Placed(S, t, {}, b, v, m)
  BY <1>1, <1>5, <1>6 DEF Placed, Grafted
<1> QED BY <1>3, <1>6, <1>7 DEF v

LEMMA PrefixesOf ==
  ASSUME NEW S, NEW p \in Seq(S)
  PROVE  /\ \A q \in Prefixes(p) : q \in Seq(S) /\ IsPrefix(q, p)
         /\ \A q \in Seq(S) : IsPrefix(q, p) => q \in Prefixes(p)
<1>1. \A q \in Prefixes(p) : q \in Seq(S) /\ IsPrefix(q, p)
  <2> SUFFICES ASSUME NEW l \in 0..Len(p)
               PROVE  SubSeq(p, 1, l) \in Seq(S) /\ IsPrefix(SubSeq(p, 1, l), p)
    BY DEF Prefixes
  <2>1. /\ Len(p) \in Nat /\ \A i \in 1..l : p[i] \in S
    OBVIOUS
  <2>2. /\ SubSeq(p, 1, l) \in Seq(S)
        /\ Len(SubSeq(p, 1, l)) = IF 1 <= l THEN l - 1 + 1 ELSE 0
        /\ \A i \in 1..(l - 1 + 1) : SubSeq(p, 1, l)[i] = p[1 + i - 1]
    BY <2>1, SubSeqProperties
  <2>3. PICK q \in Seq(S) : q = SubSeq(p, 1, l)
    BY <2>2
  <2>4. Len(q) = l /\ \A i \in 1..Len(q) : q[i] = p[i]
    BY <2>2, <2>3
  <2>5. IsPrefix(q, p)
    BY <2>4, PrefixFrom
  <2> QED BY <2>3, <2>5
<1>2. \A q \in Seq(S) : IsPrefix(q, p) => q \in Prefixes(p)
  <2> SUFFICES ASSUME NEW q \in Seq(S), IsPrefix(q, p) PROVE q \in Prefixes(p)
    OBVIOUS
  <2>1. SubSeq(q, 1, Len(q)) = q
    BY SubSeqFull
  <2>2. Len(q) \in 0..Len(p) /\ q = SubSeq(p, 1, Len(q))
    BY <2>1 DEF IsPrefix
  <2> QED BY <2>2 DEF Prefixes
<1> QED BY <1>1, <1>2

LEMMA MkdirAllEffect ==
  ASSUME NEW S, NEW t, DOMAIN t \subseteq Seq(S), NEW p \in Seq(S), CanMkdirAll(t, p)
  PROVE  /\ DOMAIN MkdirAll(t, p) \subseteq Seq(S)
         /\ \A q \in DOMAIN t : q \in DOMAIN MkdirAll(t, p) /\ MkdirAll(t, p)[q] = t[q]
         /\ \A q \in Seq(S) : IsPrefix(q, p) => IsDir(MkdirAll(t, p), q)
         /\ \A q \in DOMAIN MkdirAll(t, p) :
              \/ q \in DOMAIN t
              \/ IsPrefix(q, p) /\ MkdirAll(t, p)[q] = Dir
<1>1. DOMAIN MkdirAll(t, p) = DOMAIN t \cup Prefixes(p)
  BY DEF MkdirAll
<1>2. \A q \in Prefixes(p) : q \in Seq(S) /\ IsPrefix(q, p)
  BY PrefixesOf
<1>3. \A q \in Seq(S) : IsPrefix(q, p) => q \in Prefixes(p)
  BY PrefixesOf
<1>4. \A q \in DOMAIN MkdirAll(t, p) :
         MkdirAll(t, p)[q] = IF q \in DOMAIN t THEN t[q] ELSE Dir
  BY <1>1 DEF MkdirAll
<1>5. \A q \in Prefixes(p) : q \in DOMAIN t => t[q] = Dir
  BY DEF CanMkdirAll, IsFile
<1> QED BY <1>1, <1>2, <1>3, <1>4, <1>5 DEF IsDir

-----------------------------------------------------------------------------
(* disk_path LIKE 'a%' matches whatever is below a, and with a path whatever *)
(* is below that.                                                            *)

LEMMA SubSeqOfPrefix ==
  ASSUME NEW S, NEW a \in Seq(S), NEW q \in Seq(S), IsPrefix(a, q),
         NEW k \in Nat, k <= Len(a)
  PROVE  SubSeq(q, 1, k) = SubSeq(a, 1, k)
<1>1. Len(a) \in Nat /\ Len(q) \in Nat /\ Len(a) <= Len(q) /\ \A i \in 1..Len(a) : a[i] = q[i]
  BY PrefixElements
<1>2. (\A i \in 1..k : a[i] \in S) /\ \A i \in 1..k : q[i] \in S
  BY <1>1
<1>3. /\ SubSeq(a, 1, k) \in Seq(S)
      /\ Len(SubSeq(a, 1, k)) = IF 1 <= k THEN k - 1 + 1 ELSE 0
      /\ \A i \in 1..(k - 1 + 1) : SubSeq(a, 1, k)[i] = a[1 + i - 1]
  BY <1>2, SubSeqProperties
<1>4. /\ SubSeq(q, 1, k) \in Seq(S)
      /\ Len(SubSeq(q, 1, k)) = IF 1 <= k THEN k - 1 + 1 ELSE 0
      /\ \A i \in 1..(k - 1 + 1) : SubSeq(q, 1, k)[i] = q[1 + i - 1]
  BY <1>2, SubSeqProperties
<1>5. PICK x \in Seq(S), y \in Seq(S) : x = SubSeq(a, 1, k) /\ y = SubSeq(q, 1, k)
  BY <1>3, <1>4
<1>6. Len(x) = k /\ Len(y) = k /\ \A i \in 1..k : x[i] = a[i] /\ y[i] = q[i]
  BY <1>3, <1>4, <1>5
<1>7. \A i \in 1..Len(x) : x[i] = y[i]
  BY <1>1, <1>6
<1>8. x = y
  BY <1>6, <1>7, SeqEqual
<1> QED BY <1>5, <1>8

LEMMA LikeBelow ==
  ASSUME NEW a \in Paths, NEW q \in Paths, a # <<>>, IsPrefix(a, q)
  PROVE  LikePath(a, q)
<1> USE DEF Paths
<1>1. Len(a) \in Nat \ {0} /\ Len(a) <= Len(q) /\ \A i \in 1..Len(a) : a[i] = q[i]
  BY PrefixElements, EmptySeq
<1>2. Len(a) - 1 \in Nat /\ Len(a) - 1 <= Len(a)
  BY <1>1
<1>3. SubSeq(q, 1, Len(a) - 1) = SubSeq(a, 1, Len(a) - 1)
  BY <1>2, SubSeqOfPrefix
<1>4. Last(a) = q[Len(a)] /\ Last(a) \in DiskNames
  BY <1>1 DEF Last
<1> QED BY <1>1, <1>3, <1>4, LikeAssumption DEF LikePath, Front

LEMMA LikeUpward ==
  ASSUME NEW a \in Paths, NEW p \in Paths, NEW q \in Paths, LikePath(a, p), IsPrefix(p, q)
  PROVE  LikePath(a, q)
<1> USE DEF Paths
<1>1. /\ Len(a) \in Nat \ {0} /\ Len(a) <= Len(p) /\ Len(p) <= Len(q) /\ Len(p) \in Nat /\ Len(q) \in Nat
      /\ \A i \in 1..Len(p) : p[i] = q[i]
  BY PrefixElements, EmptySeq DEF LikePath
<1>2. Len(a) - 1 \in Nat /\ Len(a) - 1 <= Len(p) /\ Len(a) <= Len(q)
  BY <1>1
<1>3. SubSeq(q, 1, Len(a) - 1) = SubSeq(p, 1, Len(a) - 1)
  BY <1>2, SubSeqOfPrefix
<1>4. p[Len(a)] = q[Len(a)]
  BY <1>1
<1> QED BY <1>2, <1>3, <1>4 DEF LikePath

-----------------------------------------------------------------------------
(* What the rows of folders and files owe each other and the tree, for any  *)
(* tables F and G and any tree t.                                           *)

PathOf(F, d) == IF d = Root THEN <<>> ELSE F[d].path
FolderPaths(F) == {F[g].path : g \in DOMAIN F}
Has(F, d) == d = Root \/ d \in DOMAIN F
RowPath(F, G, f) == Append(PathOf(F, G[f].folder), Sanitise[G[f].name])
Shows(F, G, f) == f \in DOMAIN G /\ ~G[f].binned /\ Has(F, G[f].folder)

RowsTyped(F, G) ==
  /\ DOMAIN F \subseteq FolderIds /\ \A g \in DOMAIN F : F[g] \in Folder
  /\ \A f \in DOMAIN G : G[f] \in File
Coherent(F) ==
  \A g \in DOMAIN F : /\ Has(F, F[g].parent)
                      /\ F[g].path = Append(PathOf(F, F[g].parent), Sanitise[F[g].name])
Distinct(F) == \A g, h \in DOMAIN F : F[g].path = F[h].path => g = h
Closed(F) ==
  \A g \in DOMAIN F, q \in Paths : IsPrefix(q, F[g].path) /\ q # <<>> => q \in FolderPaths(F)
OnDisk(F, t) == \A g \in DOMAIN F : IsDir(t, F[g].path)
Apart(F, G) == \A f \in DOMAIN G : Shows(F, G, f) => RowPath(F, G, f) \notin FolderPaths(F)

GoodFolders(F, G) == Coherent(F) /\ Distinct(F) /\ Closed(F) /\ Apart(F, G)

LEMMA RowTypes ==
  ASSUME NEW F, NEW G, RowsTyped(F, G)
  PROVE  /\ \A g \in DOMAIN F : /\ g # Root /\ F[g].path \in Paths /\ F[g].name \in Names
                                /\ F[g].parent \in FolderIds \cup {Root}
         /\ \A d : Has(F, d) => PathOf(F, d) \in Paths
         /\ \A f \in DOMAIN G : G[f].name \in Names
         /\ \A f : Shows(F, G, f) => RowPath(F, G, f) \in Paths
<1>1. \A g \in DOMAIN F : /\ g # Root /\ F[g].path \in Paths /\ F[g].name \in Names
                          /\ F[g].parent \in FolderIds \cup {Root}
  BY DEF RowsTyped, Folder, FolderIds, Root
<1>2. \A d : Has(F, d) => PathOf(F, d) \in Paths
  BY <1>1, LocalsFacts DEF Has, PathOf
<1>3. \A f \in DOMAIN G : G[f].name \in Names
  BY DEF RowsTyped, File
<1>4. \A n \in Names : Sanitise[n] \in DiskNames
  BY NamesAssumption
<1>5. \A p \in Paths, n \in DiskNames : Append(p, n) \in Paths
  BY PrefixAppend DEF Paths
<1>6. \A f : Shows(F, G, f) => RowPath(F, G, f) \in Paths
  BY <1>2, <1>3, <1>4, <1>5 DEF Shows, RowPath
<1> QED BY <1>1, <1>2, <1>3, <1>6

\* A path above a folder's is a folder's, so one that is no folder's is above none.
LEMMA NoneBelow ==
  ASSUME NEW F, Closed(F), NEW q \in Paths, q # <<>>, q \notin FolderPaths(F)
  PROVE  \A g \in DOMAIN F : ~IsPrefix(q, F[g].path)
BY DEF Closed

LEMMA PrefixOfListed ==
  ASSUME NEW F, Closed(F), NEW d, Has(F, d), NEW q \in Paths, q # <<>>, IsPrefix(q, PathOf(F, d))
  PROVE  q \in FolderPaths(F)
<1>1. CASE d = Root
  <2>1. IsPrefix(q, <<>>)
    BY <1>1 DEF PathOf
  <2>2. Len(q) \in Nat \ {0}
    BY EmptySeq DEF Paths
  <2> QED BY <2>1, <2>2 DEF IsPrefix
<1>2. CASE d # Root
  BY <1>2 DEF Closed, Has, PathOf
<1> QED BY <1>1, <1>2

\* A new folder, at a path that is free of folders and files.
LEMMA FolderInserted ==
  ASSUME NEW F, NEW G, RowsTyped(F, G), GoodFolders(F, G),
         NEW g, g \notin DOMAIN F, g # Root, NEW d, Has(F, d), NEW n \in Names, NEW p,
         p = Append(PathOf(F, d), Sanitise[n]), p \notin FolderPaths(F),
         \A f : Shows(F, G, f) => RowPath(F, G, f) # p,
         NEW E, DOMAIN E = DOMAIN F \cup {g}, \A h \in DOMAIN F : E[h] = F[h],
         E[g].name = n, E[g].parent = d, E[g].path = p
  PROVE  GoodFolders(E, G)
<1>1. PathOf(F, d) \in Paths /\ Sanitise[n] \in DiskNames
  BY RowTypes, NamesAssumption
<1>2. /\ p \in Paths /\ p # <<>> /\ Len(p) = Len(PathOf(F, d)) + 1
      /\ \A q \in Paths : IsPrefix(q, p) => q = p \/ IsPrefix(q, PathOf(F, d))
  BY <1>1, PrefixAppend DEF Paths
<1>3. \A h \in DOMAIN F : ~IsPrefix(p, F[h].path)
  BY <1>2, NoneBelow DEF GoodFolders
<1>4. FolderPaths(E) = FolderPaths(F) \cup {p}
  BY DEF FolderPaths
<1>5. \A e : Has(F, e) => Has(E, e) /\ PathOf(E, e) = PathOf(F, e)
  BY DEF Has, PathOf
<1>6. Coherent(E)
  BY <1>5 DEF Coherent, GoodFolders
<1>7. Distinct(E)
  BY DEF Distinct, GoodFolders, FolderPaths
<1>8. Closed(E)
  <2> SUFFICES ASSUME NEW h \in DOMAIN E, NEW q \in Paths, IsPrefix(q, E[h].path), q # <<>>
               PROVE  q \in FolderPaths(E)
    BY DEF Closed
  <2>1. CASE h \in DOMAIN F
    BY <1>4, <2>1 DEF Closed, GoodFolders
  <2>2. CASE h = g /\ q # p
    <3>1. IsPrefix(q, PathOf(F, d))
      BY <1>2, <2>2
    <3>2. q \in FolderPaths(F)
      BY <3>1, PrefixOfListed DEF GoodFolders
    <3> QED BY <1>4, <3>2
  <2> QED BY <1>4, <2>1, <2>2
<1>9. Apart(E, G)
  <2> SUFFICES ASSUME NEW f \in DOMAIN G, Shows(E, G, f), RowPath(E, G, f) \in FolderPaths(E)
               PROVE  FALSE
    BY DEF Apart
  <2>1. CASE Has(F, G[f].folder)
    <3>1. Shows(F, G, f) /\ RowPath(E, G, f) = RowPath(F, G, f)
      BY <1>5, <2>1 DEF Shows, RowPath
    <3> QED BY <1>4, <3>1 DEF Apart, GoodFolders
  <2>2. CASE G[f].folder = g
    <3>1. PathOf(E, G[f].folder) = p
      BY <2>2 DEF PathOf
    <3>2. Sanitise[G[f].name] \in DiskNames
      BY RowTypes, NamesAssumption
    <3>3. IsPrefix(p, RowPath(E, G, f)) /\ Len(RowPath(E, G, f)) = Len(p) + 1
      <4>1. PICK m \in DiskNames : m = Sanitise[G[f].name]
        BY <3>2
      <4>2. RowPath(E, G, f) = Append(p, m)
        BY <3>1, <4>1 DEF RowPath
      <4>3. p \in Seq(DiskNames)
        BY <1>2 DEF Paths
      <4>4. IsPrefix(p, Append(p, m))
        BY <4>3, PrefixAppend
      <4>5. Len(Append(p, m)) = Len(p) + 1
        BY <4>3, AppendProperties
      <4> QED BY <4>2, <4>4, <4>5
    <3>4. Len(p) \in Nat
      BY <1>2, EmptySeq DEF Paths
    <3>5. RowPath(E, G, f) # p
      BY <3>3, <3>4
    <3>6. RowPath(E, G, f) \in FolderPaths(F)
      BY <1>4, <3>5
    <3> QED BY <1>3, <3>3, <3>6 DEF FolderPaths
  <2> QED BY <2>1, <2>2 DEF Shows, Has
<1> QED BY <1>6, <1>7, <1>8, <1>9 DEF GoodFolders

\* A folder goes with all whose path its own, followed by a wildcard, matches.
DoomedOf(F, d, p) == {g \in DOMAIN F : g = d \/ LikePath(p, F[g].path)}

LEMMA FoldersDropped ==
  ASSUME NEW F, NEW G, RowsTyped(F, G), GoodFolders(F, G), NEW d \in DOMAIN F, NEW p, p = F[d].path,
         NEW E, DOMAIN E = DOMAIN F \ DoomedOf(F, d, p), \A g \in DOMAIN E : E[g] = F[g]
  PROVE  /\ GoodFolders(E, G) /\ p # <<>>
         /\ \A g \in DOMAIN E : ~IsPrefix(p, E[g].path)
<1>1. /\ p \in Paths /\ \A g \in DOMAIN F : F[g].path \in Paths /\ g # Root
      /\ \A g \in DOMAIN F : Sanitise[F[g].name] \in DiskNames
  BY RowTypes, NamesAssumption
<1>2. p # <<>>
  <2>1. Has(F, F[d].parent) /\ p = Append(PathOf(F, F[d].parent), Sanitise[F[d].name])
    BY DEF Coherent, GoodFolders
  <2>2. PathOf(F, F[d].parent) \in Paths
    BY <2>1, RowTypes
  <2> QED BY <1>1, <2>1, <2>2, PrefixAppend DEF Paths
<1>3. \A g \in DOMAIN E : g \in DOMAIN F /\ ~LikePath(p, F[g].path)
  BY DEF DoomedOf
<1>4. \A g \in DOMAIN E : ~IsPrefix(p, F[g].path)
  BY <1>1, <1>2, <1>3, LikeBelow
<1>5. ASSUME NEW g \in DOMAIN E, NEW h \in DOMAIN F, IsPrefix(F[h].path, F[g].path)
      PROVE  h \in DOMAIN E
  <2>1. ~LikePath(p, F[h].path)
    BY <1>1, <1>3, <1>5, LikeUpward
  <2>2. h # d
    BY <1>4, <1>5
  <2> QED BY <2>1, <2>2 DEF DoomedOf
<1>6. \A e : Has(E, e) => Has(F, e) /\ PathOf(E, e) = PathOf(F, e)
  BY <1>3 DEF Has, PathOf
<1>7. Coherent(E)
  <2> SUFFICES ASSUME NEW g \in DOMAIN E
               PROVE  /\ Has(E, E[g].parent)
                      /\ E[g].path = Append(PathOf(E, E[g].parent), Sanitise[E[g].name])
    BY DEF Coherent
  <2> DEFINE k == F[g].parent
  <2>1. g \in DOMAIN F /\ E[g] = F[g] /\ Has(F, k) /\ F[g].path = Append(PathOf(F, k), Sanitise[F[g].name])
    BY <1>3 DEF Coherent, GoodFolders
  <2>2. PathOf(F, k) \in Paths /\ IsPrefix(PathOf(F, k), F[g].path)
    BY <1>1, <2>1, RowTypes, PrefixAppend DEF Paths
  <2>3. Has(E, k)
    BY <1>5, <2>1, <2>2 DEF Has, PathOf
  <2> QED BY <1>6, <2>1, <2>3
<1>8. Distinct(E)
  BY <1>3 DEF Distinct, GoodFolders
<1>9. Closed(E)
  <2> SUFFICES ASSUME NEW g \in DOMAIN E, NEW q \in Paths, IsPrefix(q, E[g].path), q # <<>>
               PROVE  q \in FolderPaths(E)
    BY DEF Closed
  <2>1. q \in FolderPaths(F)
    BY <1>3 DEF Closed, GoodFolders
  <2>2. PICK h \in DOMAIN F : q = F[h].path
    BY <2>1 DEF FolderPaths
  <2>3. h \in DOMAIN E
    BY <1>3, <1>5, <2>2
  <2> QED BY <2>2, <2>3 DEF FolderPaths
<1>10. Apart(E, G)
  <2>1. FolderPaths(E) \subseteq FolderPaths(F)
    BY <1>3 DEF FolderPaths
  <2>2. \A f : Shows(E, G, f) => Shows(F, G, f) /\ RowPath(E, G, f) = RowPath(F, G, f)
    BY <1>6 DEF Shows, RowPath
  <2> QED BY <2>1, <2>2 DEF Apart, GoodFolders
<1> QED BY <1>2, <1>3, <1>4, <1>7, <1>8, <1>9, <1>10 DEF GoodFolders

\* Below a folder the same rests, whatever the folder's path.
LEMMA ConcatOrder ==
  ASSUME NEW S, NEW b \in Seq(S), NEW c \in Seq(S), NEW r \in Seq(S)
  PROVE  IsPrefix(b \o c, b \o r) <=> IsPrefix(c, r)
<1>1. PICK x \in Seq(S) : /\ x = b \o c /\ Len(x) = Len(b) + Len(c)
                          /\ \A i \in 1..(Len(b) + Len(c)) : x[i] = IF i <= Len(b) THEN b[i] ELSE c[i - Len(b)]
  <2>1. /\ b \o c \in Seq(S) /\ Len(b \o c) = Len(b) + Len(c)
        /\ \A i \in 1..(Len(b) + Len(c)) : (b \o c)[i] = IF i <= Len(b) THEN b[i] ELSE c[i - Len(b)]
    BY ConcatProperties
  <2> QED BY <2>1
<1>2. PICK y \in Seq(S) : /\ y = b \o r /\ Len(y) = Len(b) + Len(r)
                          /\ \A i \in 1..(Len(b) + Len(r)) : y[i] = IF i <= Len(b) THEN b[i] ELSE r[i - Len(b)]
  <2>1. /\ b \o r \in Seq(S) /\ Len(b \o r) = Len(b) + Len(r)
        /\ \A i \in 1..(Len(b) + Len(r)) : (b \o r)[i] = IF i <= Len(b) THEN b[i] ELSE r[i - Len(b)]
    BY ConcatProperties
  <2> QED BY <2>1
<1>3. Len(b) \in Nat /\ Len(c) \in Nat /\ Len(r) \in Nat
  OBVIOUS
<1>4. ASSUME IsPrefix(x, y) PROVE IsPrefix(c, r)
  <2>1. Len(x) <= Len(y) /\ \A i \in 1..Len(x) : x[i] = y[i]
    BY <1>4, PrefixElements
  <2>2. Len(c) <= Len(r)
    BY <1>1, <1>2, <1>3, <2>1
  <2>3. ASSUME NEW i \in 1..Len(c) PROVE c[i] = r[i]
    <3>1. i + Len(b) \in 1..Len(x) /\ (i + Len(b)) - Len(b) = i /\ ~(i + Len(b) <= Len(b))
      BY <1>1, <1>3
    <3>2. i + Len(b) \in 1..(Len(b) + Len(c)) /\ i + Len(b) \in 1..(Len(b) + Len(r))
      BY <1>3, <2>2
    <3>3. x[i + Len(b)] = c[i] /\ y[i + Len(b)] = r[i]
      BY <1>1, <1>2, <3>1, <3>2
    <3> QED BY <2>1, <3>1, <3>3
  <2> QED BY <2>2, <2>3, PrefixFrom
<1>5. ASSUME IsPrefix(c, r) PROVE IsPrefix(x, y)
  <2>1. Len(c) <= Len(r) /\ \A i \in 1..Len(c) : c[i] = r[i]
    BY <1>5, PrefixElements
  <2>2. Len(x) <= Len(y)
    BY <1>1, <1>2, <1>3, <2>1
  <2>3. ASSUME NEW i \in 1..Len(x) PROVE x[i] = y[i]
    <3>1. i \in 1..(Len(b) + Len(c)) /\ i \in 1..(Len(b) + Len(r))
      BY <1>1, <1>3, <2>1
    <3>2. ~(i <= Len(b)) => i - Len(b) \in 1..Len(c)
      BY <1>3, <3>1
    <3> QED BY <1>1, <1>2, <2>1, <3>1, <3>2
  <2> QED BY <2>2, <2>3, PrefixFrom
<1> QED BY <1>1, <1>2, <1>4, <1>5

\* Where a path is once what is at or below a is at or below b.
Moved(q, a, b) == IF IsPrefix(a, q) THEN b \o Rest(q, a) ELSE q

LEMMA MovedFacts ==
  ASSUME NEW a \in Paths, NEW b \in Paths
  PROVE  /\ \A q \in Paths : Moved(q, a, b) \in Paths
         /\ Moved(a, a, b) = b
         /\ \A r \in Paths : Moved(a \o r, a, b) = b \o r
<1> USE DEF Paths
<1>1. \A r \in Paths : a \o r \in Paths /\ b \o r \in Paths /\ IsPrefix(a, a \o r) /\ Rest(a \o r, a) = r
  BY ConcatPrefix
<1>2. \A q \in Paths : IsPrefix(a, q) => Rest(q, a) \in Paths
  BY PrefixRest
<1>3. \A r \in Paths : Moved(a \o r, a, b) = b \o r
  BY <1>1 DEF Moved
<1>4. <<>> \in Paths /\ a \o <<>> = a /\ b \o <<>> = b
  BY ConcatEmptySeq
<1>5. Moved(a, a, b) = b
  BY <1>3, <1>4
<1>6. \A q \in Paths : Moved(q, a, b) \in Paths
  BY <1>1, <1>2 DEF Moved
<1> QED BY <1>3, <1>5, <1>6

LEMMA PathAppend ==
  ASSUME NEW p \in Paths, NEW y \in Paths, NEW m \in DiskNames
  PROVE  Append(p \o y, m) = p \o Append(y, m)
<1>1. p \in Seq(DiskNames) /\ y \in Seq(DiskNames)
  BY DEF Paths
<1>2. p \o y \in Seq(DiskNames) /\ <<m>> \in Seq(DiskNames)
  BY <1>1, ConcatProperties
<1>3. Append(p \o y, m) = (p \o y) \o <<m>>
  BY <1>2, AppendIsConcat
<1>4. (p \o y) \o <<m>> = p \o (y \o <<m>>)
  BY <1>1, <1>2, ConcatAssociative
<1>5. Append(y, m) = y \o <<m>>
  BY <1>1, AppendIsConcat
<1> QED BY <1>3, <1>4, <1>5

LEMMA MovedAppend ==
  ASSUME NEW a \in Paths, NEW b \in Paths, NEW q \in Paths, NEW m \in DiskNames, Append(q, m) # a
  PROVE  Moved(Append(q, m), a, b) = Append(Moved(q, a, b), m)
<1> USE DEF Paths
<1>1. IsPrefix(a, Append(q, m)) <=> IsPrefix(a, q)
  BY PrefixAppend
<1>2. CASE IsPrefix(a, q)
  <2>1. PICK y \in Paths : y = Rest(q, a) /\ a \o y = q
    BY <1>2, PrefixRest
  <2>2. PICK z \in Paths : z = Append(y, m)
    BY AppendProperties
  <2>5. Append(a \o y, m) = a \o Append(y, m)
    BY PathAppend
  <2>6. Append(b \o y, m) = b \o Append(y, m)
    BY PathAppend
  <2>3. Append(a \o y, m) = a \o z /\ Append(b \o y, m) = b \o z
    BY <2>2, <2>5, <2>6
  <2>4. \A x \in Paths : Moved(a \o x, a, b) = b \o x
    BY MovedFacts
  <2> QED BY <2>1, <2>3, <2>4
<1>3. CASE ~IsPrefix(a, q)
  BY <1>1, <1>3 DEF Moved
<1> QED BY <1>2, <1>3

\* Two paths that are not at or below b are moved apart.
LEMMA MovedApart ==
  ASSUME NEW a \in Paths, NEW b \in Paths, NEW q \in Paths, NEW r \in Paths,
         ~IsPrefix(b, q), ~IsPrefix(b, r), Moved(q, a, b) = Moved(r, a, b)
  PROVE  q = r
<1> USE DEF Paths
<1>1. \A x \in Paths : IsPrefix(b, b \o x)
  BY ConcatPrefix
<1>2. \A x \in Paths : IsPrefix(a, x) => Rest(x, a) \in Paths /\ a \o Rest(x, a) = x
  BY PrefixRest
<1>3. CASE IsPrefix(a, q) /\ IsPrefix(a, r)
  <2>1. PICK x \in Paths, y \in Paths : x = Rest(q, a) /\ y = Rest(r, a) /\ a \o x = q /\ a \o y = r
    BY <1>2, <1>3
  <2>2. b \o x = b \o y
    BY <1>3, <2>1 DEF Moved
  <2>3. x = y
    BY <2>2, ConcatCancel
  <2> QED BY <2>1, <2>3
<1>4. CASE IsPrefix(a, q) /\ ~IsPrefix(a, r)
  BY <1>1, <1>2, <1>4 DEF Moved
<1>5. CASE ~IsPrefix(a, q) /\ IsPrefix(a, r)
  BY <1>1, <1>2, <1>5 DEF Moved
<1>6. CASE ~IsPrefix(a, q) /\ ~IsPrefix(a, r)
  BY <1>6 DEF Moved
<1> QED BY <1>3, <1>4, <1>5, <1>6

\* The rows once folder d, at a, has been named n and has taken what is below it to b.
RenamedRows(F, E, d, n, a, b) ==
  /\ DOMAIN E = DOMAIN F
  /\ \A g \in DOMAIN F : /\ E[g].parent = F[g].parent
                         /\ E[g].name = IF g = d THEN n ELSE F[g].name
                         /\ E[g].path = Moved(F[g].path, a, b)

\* A free sibling of a folder: nothing is at it or below it, and it is beside the folder.
Sibling(F, G, d, n, a, b) ==
  /\ d \in DOMAIN F /\ n \in Names /\ a = F[d].path
  /\ b = Append(PathOf(F, F[d].parent), Sanitise[n]) /\ b \notin FolderPaths(F)
  /\ \A f : Shows(F, G, f) => RowPath(F, G, f) # b

LEMMA SiblingFacts ==
  ASSUME NEW F, NEW G, RowsTyped(F, G), GoodFolders(F, G),
         NEW d, NEW n, NEW a, NEW b, Sibling(F, G, d, n, a, b)
  PROVE  /\ a \in Paths /\ b \in Paths /\ a # <<>> /\ b # <<>> /\ a # b
         /\ Has(F, F[d].parent) /\ ~IsPrefix(a, PathOf(F, F[d].parent))
         /\ ~IsPrefix(a, b)
         /\ \A q \in Paths : IsPrefix(q, b) => q = b \/ IsPrefix(q, PathOf(F, F[d].parent))
         /\ \A e : Has(F, e) => ~IsPrefix(b, PathOf(F, e))
<1> DEFINE k == PathOf(F, F[d].parent)
<1>1. /\ k \in Paths /\ Has(F, F[d].parent) /\ a = Append(k, Sanitise[F[d].name])
      /\ Sanitise[F[d].name] \in DiskNames /\ Sanitise[n] \in DiskNames
  BY RowTypes, NamesAssumption DEF Sibling, Coherent, GoodFolders
<1>2. b = Append(k, Sanitise[n])
  BY DEF Sibling
<1> HIDE DEF k
<1>3. /\ a \in Paths /\ a # <<>> /\ Len(a) = Len(k) + 1
      /\ \A q \in Paths : IsPrefix(q, a) => q = a \/ IsPrefix(q, k)
  BY <1>1, PrefixAppend DEF Paths
<1>4. /\ b \in Paths /\ b # <<>> /\ Len(b) = Len(k) + 1
      /\ \A q \in Paths : IsPrefix(q, b) => q = b \/ IsPrefix(q, k)
  BY <1>1, <1>2, PrefixAppend DEF Paths
<1>5. a # b
  BY DEF Sibling, FolderPaths
<1>6. ~IsPrefix(a, k)
  <2>1. Len(k) \in Nat
    BY <1>1 DEF Paths
  <2> QED BY <1>3, <2>1 DEF IsPrefix
<1>7. ~IsPrefix(a, b)
  BY <1>3, <1>4, <1>5, <1>6
<1>8. ASSUME NEW e, Has(F, e) PROVE ~IsPrefix(b, PathOf(F, e))
  BY <1>4, <1>8, PrefixOfListed DEF Sibling, GoodFolders
<1> QED BY <1>1, <1>3, <1>4, <1>5, <1>6, <1>7, <1>8 DEF k

LEMMA RenamedPaths ==
  ASSUME NEW F, NEW G, RowsTyped(F, G), GoodFolders(F, G),
         NEW d, NEW n, NEW a, NEW b, Sibling(F, G, d, n, a, b),
         NEW E, RenamedRows(F, E, d, n, a, b)
  PROVE  /\ \A e : Has(F, e) <=> Has(E, e)
         /\ \A e : Has(F, e) => PathOf(E, e) = Moved(PathOf(F, e), a, b)
         /\ E[d].path = b
<1>1. /\ a \in Paths /\ b \in Paths /\ a # <<>>
  BY SiblingFacts
<1>2. \A e : Has(F, e) <=> Has(E, e)
  BY DEF Has, RenamedRows
<1>3. ~IsPrefix(a, <<>>)
  BY <1>1, EmptySeq DEF IsPrefix, Paths
<1>4. ASSUME NEW e, Has(F, e) PROVE PathOf(E, e) = Moved(PathOf(F, e), a, b)
  BY <1>3, <1>4 DEF Has, PathOf, Moved, RenamedRows
<1>5. E[d].path = b
  BY <1>1, MovedFacts DEF Sibling, RenamedRows
<1> QED BY <1>2, <1>4, <1>5

LEMMA RenamedCoherent ==
  ASSUME NEW F, NEW G, RowsTyped(F, G), GoodFolders(F, G),
         NEW d, NEW n, NEW a, NEW b, Sibling(F, G, d, n, a, b),
         NEW E, RenamedRows(F, E, d, n, a, b)
  PROVE  Coherent(E)
<1>1. /\ a \in Paths /\ b \in Paths /\ ~IsPrefix(a, PathOf(F, F[d].parent))
  BY SiblingFacts
<1> SUFFICES ASSUME NEW g \in DOMAIN E
             PROVE  /\ Has(E, E[g].parent)
                    /\ E[g].path = Append(PathOf(E, E[g].parent), Sanitise[E[g].name])
  BY DEF Coherent
<1> DEFINE e == F[g].parent
<1>2. /\ g \in DOMAIN F /\ Has(F, e) /\ E[g].parent = e
      /\ F[g].path = Append(PathOf(F, e), Sanitise[F[g].name])
      /\ E[g].path = Moved(F[g].path, a, b)
  BY DEF RenamedRows, Coherent, GoodFolders
<1>3. Has(E, e) /\ PathOf(E, e) = Moved(PathOf(F, e), a, b)
  BY <1>2, RenamedPaths
<1>4. PathOf(F, e) \in Paths /\ Sanitise[F[g].name] \in DiskNames
  BY <1>2, RowTypes, NamesAssumption
<1> HIDE DEF e
<1>5. CASE g = d
  <2>1. Moved(PathOf(F, e), a, b) = PathOf(F, e)
    BY <1>1, <1>5 DEF Moved, e
  <2>2. E[g].name = n
    BY <1>2, <1>5 DEF RenamedRows
  <2>3. E[g].path = b
    BY <1>5, RenamedPaths
  <2>4. b = Append(PathOf(F, e), Sanitise[n])
    BY <1>5 DEF Sibling, e
  <2> QED BY <1>2, <1>3, <2>1, <2>2, <2>3, <2>4
<1>6. CASE g # d
  <2>1. F[g].path # a
    BY <1>2, <1>6 DEF Sibling, Distinct, GoodFolders
  <2>2. Moved(Append(PathOf(F, e), Sanitise[F[g].name]), a, b) =
          Append(Moved(PathOf(F, e), a, b), Sanitise[F[g].name])
    BY <1>1, <1>2, <1>4, <2>1, MovedAppend
  <2>3. E[g].name = F[g].name
    BY <1>2, <1>6 DEF RenamedRows
  <2> QED BY <1>2, <1>3, <2>2, <2>3
<1> QED BY <1>5, <1>6

LEMMA RenamedDistinct ==
  ASSUME NEW F, NEW G, RowsTyped(F, G), GoodFolders(F, G),
         NEW d, NEW n, NEW a, NEW b, Sibling(F, G, d, n, a, b),
         NEW E, RenamedRows(F, E, d, n, a, b)
  PROVE  Distinct(E) /\ Apart(E, G)
<1>1. /\ a \in Paths /\ b \in Paths /\ b # <<>>
      /\ \A g \in DOMAIN F : F[g].path \in Paths /\ ~IsPrefix(b, F[g].path)
  <2>1. a \in Paths /\ b \in Paths /\ b # <<>>
    BY SiblingFacts
  <2>2. \A g \in DOMAIN F : F[g].path \in Paths
    BY RowTypes
  <2>3. \A g \in DOMAIN F : ~IsPrefix(b, F[g].path)
    BY <2>1, NoneBelow DEF Sibling, GoodFolders
  <2> QED BY <2>1, <2>2, <2>3
<1>2. Distinct(E)
  <2> SUFFICES ASSUME NEW g \in DOMAIN E, NEW h \in DOMAIN E, E[g].path = E[h].path PROVE g = h
    BY DEF Distinct
  <2>1. /\ g \in DOMAIN F /\ h \in DOMAIN F
        /\ Moved(F[g].path, a, b) = Moved(F[h].path, a, b)
    BY DEF RenamedRows
  <2>2. F[g].path = F[h].path
    BY <1>1, <2>1, MovedApart
  <2> QED BY <2>1, <2>2 DEF Distinct, GoodFolders
<1>3. Apart(E, G)
  <2> SUFFICES ASSUME NEW f \in DOMAIN G, Shows(E, G, f), RowPath(E, G, f) \in FolderPaths(E)
               PROVE  FALSE
    BY DEF Apart
  <2> DEFINE k == PathOf(F, G[f].folder)
             m == Sanitise[G[f].name]
  <2>1. Shows(F, G, f) /\ Has(F, G[f].folder)
    BY RenamedPaths DEF Shows
  <2>2. PathOf(E, G[f].folder) = Moved(k, a, b)
    BY <2>1, RenamedPaths
  <2>3. k \in Paths /\ m \in DiskNames
    BY <2>1, RowTypes, NamesAssumption
  <2>4. RowPath(F, G, f) = Append(k, m) /\ RowPath(E, G, f) = Append(PathOf(E, G[f].folder), m)
    BY DEF RowPath
  <2>5. ~IsPrefix(b, k)
    BY <2>1, SiblingFacts
  <2> HIDE DEF k, m
  <2>6. Append(k, m) \in Paths /\ Append(k, m) \notin FolderPaths(F) /\ Append(k, m) # b
    BY <2>1, <2>4, RowTypes, ZenonT(40) DEF Apart, GoodFolders, Sibling, Shows
  <2>7. Append(k, m) # a
    BY <2>6 DEF Sibling, FolderPaths
  <2>8. RowPath(E, G, f) = Moved(Append(k, m), a, b)
    BY <1>1, <2>2, <2>3, <2>4, <2>7, MovedAppend
  <2>9. ~IsPrefix(b, Append(k, m))
    BY <1>1, <2>3, <2>5, <2>6, PrefixAppend DEF Paths
  <2>10. PICK g \in DOMAIN F : RowPath(E, G, f) = Moved(F[g].path, a, b)
    BY DEF FolderPaths, RenamedRows
  <2>11. Append(k, m) = F[g].path
    BY <1>1, <2>6, <2>8, <2>9, <2>10, MovedApart
  <2> QED BY <2>6, <2>11 DEF FolderPaths
<1> QED BY <1>2, <1>3

LEMMA RenamedClosed ==
  ASSUME NEW F, NEW G, RowsTyped(F, G), GoodFolders(F, G),
         NEW d, NEW n, NEW a, NEW b, Sibling(F, G, d, n, a, b),
         NEW E, RenamedRows(F, E, d, n, a, b)
  PROVE  Closed(E)
<1>1. /\ a \in Paths /\ b \in Paths /\ a # <<>> /\ Has(F, F[d].parent)
      /\ ~IsPrefix(a, PathOf(F, F[d].parent)) /\ PathOf(F, F[d].parent) \in Paths
      /\ \A q \in Paths : IsPrefix(q, b) => q = b \/ IsPrefix(q, PathOf(F, F[d].parent))
  BY SiblingFacts, RowTypes
<1>2. E[d].path = b
  BY RenamedPaths
<1>8. d \in DOMAIN E
  BY DEF Sibling, RenamedRows
<1>9. \A x \in Paths : Moved(a \o x, a, b) = b \o x
  BY <1>1, MovedFacts
<1>3. ASSUME NEW q \in FolderPaths(F) PROVE Moved(q, a, b) \in FolderPaths(E)
  BY DEF FolderPaths, RenamedRows
<1> SUFFICES ASSUME NEW g \in DOMAIN E, NEW q \in Paths, IsPrefix(q, E[g].path), q # <<>>
             PROVE  q \in FolderPaths(E)
  BY DEF Closed
<1>4. PICK p \in Paths : p = F[g].path /\ p \in FolderPaths(F) /\ E[g].path = Moved(p, a, b)
  BY RowTypes DEF RenamedRows, FolderPaths
<1>5. \A x \in Paths : IsPrefix(x, p) /\ x # <<>> => x \in FolderPaths(F)
  BY <1>4 DEF Closed, GoodFolders, RenamedRows
<1>6. CASE ~IsPrefix(a, p)
  <2>1. IsPrefix(q, p)
    BY <1>4, <1>6 DEF Moved
  <2>2. ~IsPrefix(a, q)
    BY <1>1, <1>6, <2>1, PrefixOrder DEF Paths
  <2>3. q \in FolderPaths(F) /\ Moved(q, a, b) = q
    BY <1>5, <2>1, <2>2 DEF Moved
  <2> QED BY <1>3, <2>3
<1>7. CASE IsPrefix(a, p)
  <2>1. PICK r \in Paths : a \o r = p
    BY <1>1, <1>4, <1>7, PrefixRest DEF Paths
  <2>2. E[g].path = b \o r
    BY <1>4, <1>9, <2>1
  <2>3. PICK z \in Paths : z = b \o r /\ IsPrefix(b, z)
    BY <1>1, ConcatPrefix DEF Paths
  <2>4. IsPrefix(q, b) \/ IsPrefix(b, q)
    <3>1. IsPrefix(q, z) /\ IsPrefix(b, z) /\ z \in Seq(DiskNames)
      BY <2>2, <2>3 DEF Paths
    <3>2. q \in Seq(DiskNames) /\ b \in Seq(DiskNames)
      BY <1>1 DEF Paths
    <3> QED BY <3>1, <3>2, PrefixOrder
  <2>5. CASE q = b
    BY <1>2, <1>8, <2>5 DEF FolderPaths
  <2>6. CASE IsPrefix(q, b) /\ q # b
    <3>1. IsPrefix(q, PathOf(F, F[d].parent))
      BY <1>1, <2>6
    <3>2. q \in FolderPaths(F)
      BY <1>1, <3>1, PrefixOfListed DEF GoodFolders
    <3>3. ~IsPrefix(a, q)
      BY <1>1, <3>1, PrefixOrder DEF Paths
    <3>4. Moved(q, a, b) = q
      BY <3>3 DEF Moved
    <3> QED BY <1>3, <3>2, <3>4
  <2>7. CASE IsPrefix(b, q)
    <3>1. PICK c \in Paths : b \o c = q
      BY <1>1, <2>7, PrefixRest DEF Paths
    <3>2. IsPrefix(c, r)
      BY <1>1, <2>2, <3>1, ConcatOrder DEF Paths
    <3>3. IsPrefix(a \o c, a \o r)
      BY <1>1, <3>2, ConcatOrder DEF Paths
    <3>4. PICK x \in Paths : x = a \o c /\ IsPrefix(a, x)
      BY <1>1, ConcatPrefix DEF Paths
    <3>5. x # <<>>
      BY <1>1, <3>4, EmptySeq DEF IsPrefix, Paths
    <3>6. x \in FolderPaths(F)
      BY <1>5, <2>1, <3>3, <3>4, <3>5
    <3>7. Moved(x, a, b) = q
      BY <1>9, <3>1, <3>4
    <3> QED BY <1>3, <3>6, <3>7
  <2> QED BY <2>4, <2>5, <2>6, <2>7
<1> QED BY <1>6, <1>7

LEMMA FolderRenamed ==
  ASSUME NEW F, NEW G, RowsTyped(F, G), GoodFolders(F, G),
         NEW d, NEW n, NEW a, NEW b, Sibling(F, G, d, n, a, b),
         NEW E, RenamedRows(F, E, d, n, a, b)
  PROVE  GoodFolders(E, G)
BY RenamedCoherent, RenamedDistinct, RenamedClosed DEF GoodFolders

-----------------------------------------------------------------------------
(* The directories of the folders stay where they are while the tree takes  *)
(* the changes that the commands make beside them.                          *)

Components == DiskNames \cup Slots \cup {Nil}
TreePaths == Seq(Components)

LEMMA PathsInTrees ==
  /\ Paths \subseteq TreePaths
  /\ \A e \in Slots \cup {Nil} : <<e>> \in TreePaths
<1>1. DiskNames \subseteq Components
  BY DEF Components
<1>2. Paths \subseteq TreePaths
  <2> SUFFICES ASSUME NEW q \in Seq(DiskNames) PROVE q \in Seq(Components)
    BY DEF Paths, TreePaths
  <2> QED BY <1>1
<1> QED BY <1>2 DEF Components, TreePaths

\* Nothing of the folders F is at p or below it.
Beside(F, p) == p \in TreePaths /\ \A g \in DOMAIN F : ~IsPrefix(p, F[g].path)

LEMMA FreePathIsBeside ==
  ASSUME NEW F, Closed(F), NEW p \in Paths, p # <<>>, p \notin FolderPaths(F)
  PROVE  Beside(F, p)
BY NoneBelow, PathsInTrees DEF Beside

LEMMA MoveKeepsFolders ==
  ASSUME NEW F, NEW t, DOMAIN t \subseteq TreePaths, OnDisk(F, t),
         NEW a, Beside(F, a), NEW b, Beside(F, b)
  PROVE  DOMAIN Move(t, a, b) \subseteq TreePaths /\ OnDisk(F, Move(t, a, b))
<1>1. CASE a = b \/ SameFile(t, a, t, b)
  BY <1>1 DEF Move
<1>2. CASE ~(a = b \/ SameFile(t, a, t, b))
  <2>1. PICK m : m = Move(t, a, b)
    OBVIOUS
  <2>2. Placed(Components, t, {a}, b, Subtree(t, a), m)
    BY <1>2, <2>1, MoveEffect DEF Beside, TreePaths
  <2>3. DOMAIN m \subseteq TreePaths /\ \A g \in DOMAIN F : IsDir(m, F[g].path)
    BY <2>2 DEF Placed, TreePaths, Beside, OnDisk, IsDir
  <2> QED BY <2>1, <2>3 DEF OnDisk
<1> QED BY <1>1, <1>2

LEMMA ArrivalKeepsFolders ==
  ASSUME NEW F, NEW t, DOMAIN t \subseteq TreePaths, OnDisk(F, t),
         NEW s, DOMAIN s \subseteq TreePaths, NEW a \in TreePaths, NEW b, Beside(F, b)
  PROVE  DOMAIN RenamedTo(s, a, t, b) \subseteq TreePaths /\ OnDisk(F, RenamedTo(s, a, t, b))
<1>1. CASE SameFile(s, a, t, b)
  BY <1>1 DEF RenamedTo
<1>2. CASE ~SameFile(s, a, t, b)
  <2>1. PICK m : m = RenamedTo(s, a, t, b)
    OBVIOUS
  <2>2. Placed(Components, t, {}, b, Subtree(s, a), m)
    BY <1>2, <2>1, RenameEffect DEF Beside, TreePaths
  <2>3. DOMAIN m \subseteq TreePaths /\ \A g \in DOMAIN F : IsDir(m, F[g].path)
    BY <2>2 DEF Placed, TreePaths, Beside, OnDisk, IsDir
  <2> QED BY <2>1, <2>3 DEF OnDisk
<1> QED BY <1>1, <1>2

LEMMA DepartureKeepsFolders ==
  ASSUME NEW F, NEW t, DOMAIN t \subseteq TreePaths, OnDisk(F, t),
         NEW s, NEW a, Beside(F, a), NEW b
  PROVE  DOMAIN RenamedFrom(t, a, s, b) \subseteq TreePaths /\ OnDisk(F, RenamedFrom(t, a, s, b))
BY DEF RenamedFrom, Prune, Below, Beside, OnDisk, IsDir

\* Whatever arrives in a tree, its paths stay sequences of components.
LEMMA ArrivalTyped ==
  ASSUME NEW t, DOMAIN t \subseteq TreePaths, NEW s, DOMAIN s \subseteq TreePaths,
         NEW a \in TreePaths, NEW b \in TreePaths
  PROVE  /\ DOMAIN RenamedTo(s, a, t, b) \subseteq TreePaths
         /\ DOMAIN RenamedFrom(s, a, t, b) \subseteq TreePaths
<1> DEFINE F == [g \in {} |-> Nil]
<1>1. OnDisk(F, t) /\ Beside(F, b) /\ OnDisk(F, s) /\ Beside(F, a)
  BY DEF OnDisk, Beside
<1> HIDE DEF F
<1>2. DOMAIN RenamedTo(s, a, t, b) \subseteq TreePaths
  BY <1>1, ArrivalKeepsFolders
<1>3. DOMAIN RenamedFrom(s, a, t, b) \subseteq TreePaths
  BY <1>1, DepartureKeepsFolders
<1> QED BY <1>2, <1>3

LEMMA MkdirKeepsFolders ==
  ASSUME NEW F, NEW t, DOMAIN t \subseteq TreePaths, OnDisk(F, t),
         NEW p \in TreePaths, CanMkdirAll(t, p)
  PROVE  /\ DOMAIN MkdirAll(t, p) \subseteq TreePaths /\ OnDisk(F, MkdirAll(t, p))
         /\ IsDir(MkdirAll(t, p), p)
<1>1. PICK m : m = MkdirAll(t, p)
  OBVIOUS
<1>2. /\ DOMAIN m \subseteq TreePaths
      /\ \A q \in DOMAIN t : q \in DOMAIN m /\ m[q] = t[q]
      /\ \A q \in TreePaths : IsPrefix(q, p) => IsDir(m, q)
  BY <1>1, MkdirAllEffect DEF TreePaths
<1>3. IsPrefix(p, p)
  BY PrefixOrder DEF TreePaths
<1>4. \A g \in DOMAIN F : IsDir(m, F[g].path)
  BY <1>2 DEF OnDisk, IsDir
<1> QED BY <1>1, <1>2, <1>3, <1>4 DEF OnDisk

LEMMA NewFileKeepsFolders ==
  ASSUME NEW F, NEW t, DOMAIN t \subseteq TreePaths, OnDisk(F, t),
         NEW p \in TreePaths, p \notin FolderPaths(F), NEW i
  PROVE  DOMAIN AddFile(t, p, i) \subseteq TreePaths /\ OnDisk(F, AddFile(t, p, i))
BY DEF AddFile, OnDisk, IsDir, FolderPaths

\* The rename of a folder's directory takes the directories of all the folders below it.
LEMMA FolderDirsMoved ==
  ASSUME NEW F, NEW G, RowsTyped(F, G), GoodFolders(F, G),
         NEW d, NEW n, NEW a, NEW b, Sibling(F, G, d, n, a, b),
         NEW E, RenamedRows(F, E, d, n, a, b),
         NEW t, DOMAIN t \subseteq TreePaths, OnDisk(F, t)
  PROVE  DOMAIN Move(t, a, b) \subseteq TreePaths /\ OnDisk(E, Move(t, a, b))
<1>1. /\ a \in Paths /\ b \in Paths /\ a # b /\ b # <<>>
      /\ \A g \in DOMAIN F : F[g].path \in Paths
  BY SiblingFacts, RowTypes
<1>2. \A g \in DOMAIN F : ~IsPrefix(b, F[g].path)
  BY <1>1, NoneBelow DEF Sibling, GoodFolders
<1>3. ~SameFile(t, a, t, b)
  BY DEF Sibling, OnDisk, IsDir, IsFile, SameFile
<1>4. a \in TreePaths /\ b \in TreePaths
  BY <1>1, PathsInTrees
<1>5. PICK m, s : m = Move(t, a, b) /\ s = Subtree(t, a)
  OBVIOUS
<1>6. Placed(Components, t, {a}, b, s, m)
  BY <1>1, <1>3, <1>4, <1>5, MoveEffect DEF TreePaths
<1>7. \A r \in TreePaths : a \o r \in DOMAIN t => r \in DOMAIN s /\ s[r] = t[a \o r]
  BY <1>4, <1>5, SubtreeEffect DEF TreePaths
<1>8. ASSUME NEW g \in DOMAIN F PROVE IsDir(m, Moved(F[g].path, a, b))
  <2>1. IsDir(t, F[g].path)
    BY DEF OnDisk
  <2>2. CASE IsPrefix(a, F[g].path)
    <3>1. PICK r \in Paths : r = Rest(F[g].path, a) /\ a \o r = F[g].path
      BY <1>1, <2>2, PrefixRest DEF Paths
    <3>2. r \in DOMAIN s /\ s[r] = Dir
      BY <1>7, <2>1, <3>1, PathsInTrees DEF IsDir
    <3>3. b \o r \in DOMAIN m /\ m[b \o r] = Dir
      BY <1>6, <3>2 DEF Placed
    <3> QED BY <2>2, <3>1, <3>3 DEF Moved, IsDir
  <2>3. CASE ~IsPrefix(a, F[g].path)
    <3>1. F[g].path \in DOMAIN m /\ m[F[g].path] = Dir
      BY <1>2, <1>6, <2>1, <2>3 DEF Placed, IsDir
    <3> QED BY <2>3, <3>1 DEF Moved, IsDir
  <2> QED BY <2>2, <2>3
<1>9. OnDisk(E, m)
  BY <1>8 DEF OnDisk, RenamedRows
<1> QED BY <1>5, <1>6, <1>9 DEF Placed, TreePaths

-----------------------------------------------------------------------------
(* The invariant of the folder tree, when one command runs at a time.  The  *)
(* tables are looked at as they will be when the command in flight is done: *)
(* rename_folder and delete_folder_to_bin change the disk first and the     *)
(* rows after.                                                              *)

Solo == CHOOSE p \in Procs : TRUE

Renaming == {"updateFolder", "updateBelow"}
Deleting == {"binFiles", "dropFolders"}

\* One command at a time, on free names; and no fault between the disk and the rows of a folder.
OneCareful == Careful /\ \E p : Procs = {p}
FoldersWhole == OneCareful /\ FaultPoints \cap (Renaming \cup Deleting) = {}

Renamed(F, g, c) ==
  IF c.pc = "updateFolder" /\ g = c.folder THEN [F[g] EXCEPT !.name = c.name, !.path = c.dst] ELSE F[g]
Rewritten(F, c) ==
  [g \in DOMAIN F |-> [Renamed(F, g, c) EXCEPT !.path = SwapPrefix(@, c.src, c.dst)]]
Dropped(F, c) == [g \in DOMAIN F \ DoomedOf(F, c.folder, c.src) |-> F[g]]
Settled(F, c) ==
  IF c.pc \in Renaming THEN Rewritten(F, c) ELSE IF c.pc \in Deleting THEN Dropped(F, c) ELSE F

Moving == {"moveDisk", "moveRow"}
RenamingFile == {"renameDisk", "renameRow"}
Restoring == {"restoreDisk", "restoreRow"}
Making == FolderInserts

Free(F, p) == p # <<>> /\ p \notin FolderPaths(F)

\* The target of a command is where its row will be, and no folder is there.
HoldsTarget(F, G, t, c) ==
  /\ c.pc \in FileInserts \cup Making \cup Moving \cup RenamingFile \cup Restoring => Free(F, c.dst)
  /\ c.pc \in {"moveDisk", "renameDisk", "binDisk"} => Free(F, c.src)
  /\ c.pc \in FileInserts \cup Making =>
       Has(F, c.folder) /\ c.dst = Append(PathOf(F, c.folder), Sanitise[c.name])
  /\ c.pc \in Moving =>
       /\ Has(F, c.folder) /\ c.file \in DOMAIN G
       /\ c.dst = Append(PathOf(F, c.folder), Sanitise[G[c.file].name])
  /\ c.pc \in RenamingFile =>
       /\ c.file \in DOMAIN G /\ Has(F, G[c.file].folder)
       /\ c.dst = Append(PathOf(F, G[c.file].folder), Sanitise[c.name])
  /\ c.pc \in Restoring =>
       /\ c.file \in DOMAIN G /\ Has(F, G[c.file].from)
       /\ c.dst = Append(PathOf(F, G[c.file].from), Sanitise[G[c.file].name])
  /\ c.pc = "renameDir" => Sibling(F, G, c.folder, c.name, c.src, c.dst)
  /\ c.pc = "binDir" => c.folder \in DOMAIN F /\ c.src = F[c.folder].path
  /\ c.pc \in Making => \A f : Shows(F, G, f) => RowPath(F, G, f) # c.dst
  /\ c.pc = "insertFolder" => IsDir(t, c.dst)

Whole(F, G, t, c) ==
  /\ GoodFolders(Settled(F, c), G) /\ OnDisk(Settled(F, c), t)
  /\ HoldsTarget(F, G, t, c)
TreePathsOK == DOMAIN tree \subseteq TreePaths /\ DOMAIN bin \subseteq TreePaths
TreeInv == TreePathsOK /\ Whole(folders, files, tree, cmd[Solo])

LEMMA OnlySolo == ASSUME OneCareful PROVE Procs = {Solo}
BY DEF OneCareful, Solo

LEMMA SettledSame ==
  ASSUME NEW F, NEW c, c.pc \notin Renaming \cup Deleting
  PROVE  Settled(F, c) = F
BY DEF Settled

LEMMA IdleWhole ==
  ASSUME NEW F, NEW G, NEW t, NEW c, c.pc = "idle" \/ c.pc = "purgeRows" \/ c.pc = "binRow"
  PROVE  Whole(F, G, t, c) <=> GoodFolders(F, G) /\ OnDisk(F, t)
BY DEF Whole, Settled, HoldsTarget, Renaming, Deleting, FileInserts, FolderInserts, Making, Moving,
       RenamingFile, Restoring

LEMMA IdleIsIdle == Idle.pc = "idle"
BY IdleOK

LEMMA RowsAreTyped ==
  ASSUME StoreInv PROVE RowsTyped(folders, files)
BY StoreInvParts DEF RowsOK, RowsTyped, FolderIds

LEMMA CommandIsTyped ==
  ASSUME StoreInv, NEW p \in Procs
  PROVE  /\ cmd[p] \in Command /\ LocalsOK(cmd[p]) /\ DOMAIN cmd = Procs
         /\ cmd[p].src \in Paths /\ cmd[p].dst \in Paths /\ cmd[p].slot \in Slots \cup {Nil}
BY StoreInvParts DEF CmdOK, LocalsOK, Command

\* The step of the only command leads to these tables, this tree and these locals.
LEMMA WholeStep ==
  ASSUME StoreInv, OneCareful, NEW p \in Procs, NEW c, cmd' = [cmd EXCEPT ![p] = c],
         TreePathsOK', Whole(folders', files', tree', c)
  PROVE  TreeInv'
<1>1. cmd'[Solo] = c
  BY OnlySolo, CommandIsTyped
<1> QED BY <1>1 DEF TreeInv, Whole

LEMMA WholeDone ==
  ASSUME StoreInv, OneCareful, NEW p \in Procs, Done(p),
         TreePathsOK', GoodFolders(folders', files'), OnDisk(folders', tree')
  PROVE  TreeInv'
<1>1. Whole(folders', files', tree', Idle)
  BY IdleIsIdle, IdleWhole
<1> QED BY <1>1, WholeStep DEF Done

LEMMA WholeGoto ==
  ASSUME StoreInv, OneCareful, NEW p \in Procs, NEW to, Goto(p, to), TreePathsOK',
         \A c : /\ c.pc = to /\ c.src = cmd[p].src /\ c.dst = cmd[p].dst
                /\ c.folder = cmd[p].folder /\ c.name = cmd[p].name /\ c.file = cmd[p].file
                => Whole(folders', files', tree', c)
  PROVE  TreeInv'
<1>1. cmd[p] \in Command
  BY CommandIsTyped
<1>2. PICK c : c = [cmd[p] EXCEPT !.pc = to]
  OBVIOUS
<1>3. /\ c.pc = to /\ c.src = cmd[p].src /\ c.dst = cmd[p].dst
      /\ c.folder = cmd[p].folder /\ c.name = cmd[p].name /\ c.file = cmd[p].file
  BY <1>1, <1>2 DEF Command
<1>4. cmd' = [cmd EXCEPT ![p] = c]
  BY <1>2, CommandIsTyped DEF Goto
<1> QED BY <1>3, <1>4, WholeStep

\* What the invariant says before a step that finds the rows settled.
LEMMA WholeBefore ==
  ASSUME StoreInv, OneCareful, TreeInv, NEW p \in Procs, cmd[p].pc \notin Renaming \cup Deleting
  PROVE  /\ GoodFolders(folders, files) /\ OnDisk(folders, tree) /\ RowsTyped(folders, files)
         /\ HoldsTarget(folders, files, tree, cmd[p]) /\ TreePathsOK
<1>1. p = Solo
  BY OnlySolo
<1> QED BY <1>1, SettledSame, RowsAreTyped DEF TreeInv, Whole

\* Starting: a free name is the path of no folder and of no live row.
LEMMA FreeTarget ==
  ASSUME StoreInv, OneCareful, TreeInv, NEW p \in Procs, At(p, "idle"),
         NEW d, Listed(d), NEW n \in Names, Polite(PathIn(d, n))
  PROVE  /\ PathIn(d, n) = Append(PathOf(folders, d), Sanitise[n]) /\ Has(folders, d)
         /\ Free(folders, PathIn(d, n))
         /\ \A f : Shows(folders, files, f) => RowPath(folders, files, f) # PathIn(d, n)
<1>1. GoodFolders(folders, files) /\ OnDisk(folders, tree) /\ RowsTyped(folders, files)
  BY WholeBefore DEF At, Renaming, Deleting
<1>2. Has(folders, d) /\ PathIn(d, n) = Append(PathOf(folders, d), Sanitise[n])
  BY DEF Listed, Has, PathIn, DirOf, PathOf
<1>3. PathOf(folders, d) \in Paths /\ Sanitise[n] \in DiskNames
  BY <1>1, <1>2, RowTypes, NamesAssumption
<1>4. PathIn(d, n) # <<>>
  BY <1>2, <1>3, PrefixAppend DEF Paths
<1>5. PathIn(d, n) \notin DOMAIN tree
  BY DEF Polite, OneCareful
<1>6. PathIn(d, n) \notin FolderPaths(folders)
  BY <1>1, <1>5 DEF OnDisk, IsDir, FolderPaths
<1>7. ASSUME NEW f, Shows(folders, files, f) PROVE RowPath(folders, files, f) # PathIn(d, n)
  <2>1. f \in DOMAIN files /\ Live(f) /\ Listed(files[f].folder)
    BY <1>7 DEF Shows, Live, Listed, Has
  <2>2. FilePath(f) # PathIn(d, n)
    BY <2>1 DEF Polite, OneCareful
  <2>3. FilePath(f) = RowPath(folders, files, f)
    BY DEF FilePath, PathIn, DirOf, RowPath, PathOf
  <2> QED BY <2>2, <2>3
<1> QED BY <1>2, <1>4, <1>6, <1>7 DEF Free

LEMMA WholeStart ==
  ASSUME StoreInv, OneCareful, TreeInv, NEW p \in Procs, NEW op, NEW c, Start(p, op, c),
         c.pc \notin Renaming \cup Deleting, HoldsTarget(folders, files, tree, c)
  PROVE  TreeInv'
<1>1. GoodFolders(folders, files) /\ OnDisk(folders, tree) /\ TreePathsOK
  BY WholeBefore DEF Start, At, Renaming, Deleting
<1>2. Whole(folders, files, tree, c)
  BY <1>1, SettledSame DEF Whole
<1>3. UNCHANGED <<folders, files, tree, bin>>
  BY DEF Start, rows, disk
<1>4. Whole(folders', files', tree', c)
  BY <1>2, <1>3
<1>5. TreePathsOK'
  BY <1>1, <1>3 DEF TreePathsOK
<1> QED BY <1>4, <1>5, WholeStep DEF Start

LEMMA FolderStartsWhole ==
  ASSUME StoreInv, OneCareful, TreeInv, NEW p \in Procs,
         CreateFolder(p) \/ RenameFolder(p) \/ DeleteFolder(p)
  PROVE  TreeInv'
<1> USE DEF Renaming, Deleting, HoldsTarget, FileInserts, FolderInserts, Making, Moving, RenamingFile,
            Restoring, Idle
<1>1. UserNames \subseteq Names
  BY NamesAssumption
<1>2. ASSUME CreateFolder(p) PROVE TreeInv'
  <2>1. PICK d \in DOMAIN folders \cup {Root}, n \in UserNames :
          /\ Polite(PathIn(d, n))
          /\ Start(p, "create_folder",
               [Idle EXCEPT !.pc = "mkdir", !.folder = d, !.name = n, !.dst = PathIn(d, n)])
    BY <1>2 DEF CreateFolder
  <2>2. At(p, "idle") /\ Listed(d)
    BY <2>1 DEF Start, Listed
  <2>3. /\ PathIn(d, n) = Append(PathOf(folders, d), Sanitise[n]) /\ Has(folders, d)
        /\ Free(folders, PathIn(d, n))
        /\ \A f : Shows(folders, files, f) => RowPath(folders, files, f) # PathIn(d, n)
    BY <1>1, <2>1, <2>2, FreeTarget
  <2>4. PICK c : c = [Idle EXCEPT !.pc = "mkdir", !.folder = d, !.name = n, !.dst = PathIn(d, n)]
    OBVIOUS
  <2>5. c.pc = "mkdir" /\ c.folder = d /\ c.name = n /\ c.dst = PathIn(d, n)
    BY <2>4
  <2>6. HoldsTarget(folders, files, tree, c)
    BY <2>3, <2>5
  <2> QED BY <2>1, <2>4, <2>5, <2>6, WholeStart
<1>3. ASSUME RenameFolder(p) PROVE TreeInv'
  <2>1. PICK g \in DOMAIN folders, n \in UserNames :
          /\ Listed(folders[g].parent) /\ Polite(PathIn(folders[g].parent, n))
          /\ Start(p, "rename_folder",
               [Idle EXCEPT !.pc = "renameDir", !.folder = g, !.name = n,
                            !.src = folders[g].path, !.dst = PathIn(folders[g].parent, n)])
    BY <1>3 DEF RenameFolder
  <2>2. At(p, "idle")
    BY <2>1 DEF Start
  <2>3. PICK d, to : d = folders[g].parent /\ to = PathIn(d, n)
    OBVIOUS
  <2>4. /\ to = Append(PathOf(folders, d), Sanitise[n])
        /\ Free(folders, to)
        /\ \A f : Shows(folders, files, f) => RowPath(folders, files, f) # to
    BY <1>1, <2>1, <2>2, <2>3, FreeTarget
  <2>5. Sibling(folders, files, g, n, folders[g].path, to)
    BY <1>1, <2>3, <2>4 DEF Sibling, Free
  <2>6. PICK c : c = [Idle EXCEPT !.pc = "renameDir", !.folder = g, !.name = n,
                                  !.src = folders[g].path, !.dst = to]
    OBVIOUS
  <2>7. c.pc = "renameDir" /\ c.folder = g /\ c.name = n /\ c.src = folders[g].path /\ c.dst = to
    BY <2>6
  <2>8. HoldsTarget(folders, files, tree, c)
    BY <2>5, <2>7
  <2> QED BY <2>1, <2>3, <2>6, <2>7, <2>8, WholeStart
<1>4. ASSUME DeleteFolder(p) PROVE TreeInv'
  <2>1. PICK g, e :
          /\ g \in DOMAIN folders
          /\ Start(p, "delete_folder",
               [Idle EXCEPT !.pc = "binDir", !.folder = g, !.src = folders[g].path, !.slot = e])
    BY <1>4 DEF DeleteFolder
  <2>2. PICK c : c = [Idle EXCEPT !.pc = "binDir", !.folder = g, !.src = folders[g].path, !.slot = e]
    OBVIOUS
  <2>3. c.pc = "binDir" /\ c.folder = g /\ c.src = folders[g].path
    BY <2>2
  <2>4. HoldsTarget(folders, files, tree, c)
    BY <2>1, <2>3
  <2> QED BY <2>1, <2>2, <2>3, <2>4, WholeStart
<1> QED BY <1>2, <1>3, <1>4

\* The path of a live row is no folder's.
LEMMA FreeSource ==
  ASSUME StoreInv, OneCareful, TreeInv, NEW p \in Procs, At(p, "idle"),
         NEW f, Live(f), Listed(files[f].folder)
  PROVE  Free(folders, FilePath(f))
<1>1. GoodFolders(folders, files) /\ RowsTyped(folders, files)
  BY WholeBefore DEF At, Renaming, Deleting
<1>2. Shows(folders, files, f) /\ f \in DOMAIN files /\ FilePath(f) = RowPath(folders, files, f)
  BY DEF Live, Shows, Listed, Has, FilePath, PathIn, DirOf, RowPath, PathOf
<1>3. PathOf(folders, files[f].folder) \in Paths /\ Sanitise[files[f].name] \in DiskNames
  BY <1>1, <1>2, RowTypes, NamesAssumption DEF Shows
<1>4. RowPath(folders, files, f) # <<>>
  BY <1>3, PrefixAppend DEF Paths, RowPath
<1> QED BY <1>1, <1>2, <1>4 DEF Free, Apart, GoodFolders

LEMMA FileStartsWhole ==
  ASSUME StoreInv, OneCareful, TreeInv, NEW p \in Procs,
         MoveFile(p) \/ RenameFile(p) \/ Ingest(p) \/ CopyFile(p)
  PROVE  TreeInv'
<1> USE DEF Renaming, Deleting, HoldsTarget, FileInserts, FolderInserts, Making, Moving, RenamingFile,
            Restoring, Idle
<1>1. /\ UserNames \subseteq Names /\ \A n \in DOMAIN CopyName : CopyName[n] \in Names
      /\ \A f \in DOMAIN files : files[f].name \in Names
  BY NamesAssumption, RowsAreTyped, RowTypes
<1>2. ASSUME MoveFile(p) PROVE TreeInv'
  <2>1. PICK f \in DOMAIN files, d \in DOMAIN folders \cup {Root} :
          /\ Live(f) /\ Listed(files[f].folder) /\ Polite(PathIn(d, files[f].name))
          /\ Start(p, "move_file",
               [Idle EXCEPT !.pc = "moveDisk", !.file = f, !.folder = d,
                            !.src = FilePath(f), !.dst = PathIn(d, files[f].name)])
    BY <1>2 DEF MoveFile
  <2>2. At(p, "idle") /\ Listed(d) /\ files[f].name \in Names
    BY <1>1, <2>1 DEF Start, Listed
  <2>3. PICK n, to : n = files[f].name /\ to = PathIn(d, n)
    OBVIOUS
  <2>4. /\ to = Append(PathOf(folders, d), Sanitise[n]) /\ Has(folders, d)
        /\ Free(folders, to)
    BY <2>1, <2>2, <2>3, FreeTarget
  <2>5. Free(folders, FilePath(f))
    BY <2>1, <2>2, FreeSource
  <2>6. PICK c : c = [Idle EXCEPT !.pc = "moveDisk", !.file = f, !.folder = d,
                                  !.src = FilePath(f), !.dst = to]
    OBVIOUS
  <2>7. c.pc = "moveDisk" /\ c.file = f /\ c.folder = d /\ c.src = FilePath(f) /\ c.dst = to
    BY <2>6
  <2>8. HoldsTarget(folders, files, tree, c)
    BY <2>1, <2>3, <2>4, <2>5, <2>7
  <2> QED BY <2>1, <2>3, <2>6, <2>7, <2>8, WholeStart
<1>3. ASSUME RenameFile(p) PROVE TreeInv'
  <2>1. PICK f \in DOMAIN files, n \in UserNames :
          /\ Live(f) /\ Listed(files[f].folder) /\ Polite(PathIn(files[f].folder, n))
          /\ Start(p, "rename_file",
               [Idle EXCEPT !.pc = "renameDisk", !.file = f, !.name = n,
                            !.src = FilePath(f), !.dst = PathIn(files[f].folder, n)])
    BY <1>3 DEF RenameFile
  <2>2. At(p, "idle")
    BY <2>1 DEF Start
  <2>3. PICK d, to : d = files[f].folder /\ to = PathIn(d, n)
    OBVIOUS
  <2>4. /\ to = Append(PathOf(folders, d), Sanitise[n]) /\ Has(folders, d)
        /\ Free(folders, to)
    BY <1>1, <2>1, <2>2, <2>3, FreeTarget
  <2>5. Free(folders, FilePath(f))
    BY <2>1, <2>2, FreeSource
  <2>6. PICK c : c = [Idle EXCEPT !.pc = "renameDisk", !.file = f, !.name = n,
                                  !.src = FilePath(f), !.dst = to]
    OBVIOUS
  <2>7. c.pc = "renameDisk" /\ c.file = f /\ c.name = n /\ c.src = FilePath(f) /\ c.dst = to
    BY <2>6
  <2>8. HoldsTarget(folders, files, tree, c)
    BY <2>1, <2>3, <2>4, <2>5, <2>7
  <2> QED BY <2>1, <2>3, <2>6, <2>7, <2>8, WholeStart
<1>4. ASSUME Ingest(p) PROVE TreeInv'
  <2>1. PICK h \in Contents, n \in UserNames, d \in DOMAIN folders \cup {Root} :
          /\ Polite(PathIn(d, n))
          /\ Start(p, "ingest",
               [Idle EXCEPT !.pc = IF h \in DOMAIN blobs THEN "link" ELSE "blobOpen",
                            !.hash = h, !.name = n, !.folder = d, !.dst = PathIn(d, n)])
    BY <1>4 DEF Ingest
  <2>2. At(p, "idle") /\ Listed(d)
    BY <2>1 DEF Start, Listed
  <2>3. PICK to : to = PathIn(d, n)
    OBVIOUS
  <2>4. /\ to = Append(PathOf(folders, d), Sanitise[n]) /\ Has(folders, d)
        /\ Free(folders, to)
    BY <1>1, <2>1, <2>2, <2>3, FreeTarget
  <2>5. PICK c : c = [Idle EXCEPT !.pc = IF h \in DOMAIN blobs THEN "link" ELSE "blobOpen",
                                  !.hash = h, !.name = n, !.folder = d, !.dst = to]
    OBVIOUS
  <2>6. c.pc \in {"link", "blobOpen"} /\ c.name = n /\ c.folder = d /\ c.dst = to
    BY <2>5
  <2>7. HoldsTarget(folders, files, tree, c)
    BY <2>4, <2>6
  <2> QED BY <2>1, <2>3, <2>5, <2>6, <2>7, WholeStart
<1>5. ASSUME CopyFile(p) PROVE TreeInv'
  <2>1. PICK f \in DOMAIN files, d \in DOMAIN folders \cup {Root}, n \in Names :
          /\ Polite(PathIn(d, n))
          /\ Start(p, "copy_file",
               [Idle EXCEPT !.pc = "link", !.hash = files[f].hash, !.name = n,
                            !.folder = d, !.dst = PathIn(d, n)])
    BY <1>1, <1>5 DEF CopyFile
  <2>2. At(p, "idle") /\ Listed(d)
    BY <2>1 DEF Start, Listed
  <2>3. PICK to, h : to = PathIn(d, n) /\ h = files[f].hash
    OBVIOUS
  <2>4. /\ to = Append(PathOf(folders, d), Sanitise[n]) /\ Has(folders, d)
        /\ Free(folders, to)
    BY <2>1, <2>2, <2>3, FreeTarget
  <2>5. PICK c : c = [Idle EXCEPT !.pc = "link", !.hash = h, !.name = n, !.folder = d, !.dst = to]
    OBVIOUS
  <2>6. c.pc = "link" /\ c.name = n /\ c.folder = d /\ c.dst = to
    BY <2>5
  <2>7. HoldsTarget(folders, files, tree, c)
    BY <2>4, <2>6
  <2> QED BY <2>1, <2>3, <2>5, <2>6, <2>7, WholeStart
<1> QED BY <1>2, <1>3, <1>4, <1>5

LEMMA EmptiedBinTyped ==
  ASSUME TreePathsOK, NEW b, DOMAIN b \subseteq DOMAIN bin, UNCHANGED tree, bin' = b
  PROVE  TreePathsOK'
BY DEF TreePathsOK

LEMMA BinStartsWhole ==
  ASSUME StoreInv, OneCareful, TreeInv, NEW p \in Procs,
         DeleteFile(p) \/ Restore(p) \/ EmptyBin(p)
  PROVE  TreeInv'
<1> USE DEF Renaming, Deleting, HoldsTarget, FileInserts, FolderInserts, Making, Moving, RenamingFile,
            Restoring, Idle
<1>1. \A f \in DOMAIN files : files[f].name \in Names
  BY RowsAreTyped, RowTypes
<1>2. ASSUME DeleteFile(p) PROVE TreeInv'
  <2>1. PICK f, e :
          /\ f \in DOMAIN files /\ Live(f) /\ Listed(files[f].folder)
          /\ Start(p, "delete_file",
               [Idle EXCEPT !.pc = "binDisk", !.file = f, !.folder = files[f].folder,
                            !.src = FilePath(f), !.slot = e])
    BY <1>2 DEF DeleteFile
  <2>2. Free(folders, FilePath(f))
    BY <2>1, FreeSource DEF Start
  <2>3. PICK c : c = [Idle EXCEPT !.pc = "binDisk", !.file = f, !.folder = files[f].folder,
                                  !.src = FilePath(f), !.slot = e]
    OBVIOUS
  <2>4. c.pc = "binDisk" /\ c.src = FilePath(f)
    BY <2>3
  <2>5. HoldsTarget(folders, files, tree, c)
    BY <2>2, <2>4
  <2> QED BY <2>1, <2>3, <2>4, <2>5, WholeStart
<1>3. ASSUME Restore(p) PROVE TreeInv'
  <2>1. PICK f, e :
          /\ f \in DOMAIN files /\ Listed(files[f].from) /\ Polite(PathIn(files[f].from, files[f].name))
          /\ Start(p, "restore",
               [Idle EXCEPT !.pc = "restoreDisk", !.file = f, !.slot = e,
                            !.dst = PathIn(files[f].from, files[f].name)])
    BY <1>3 DEF Restore
  <2>2. At(p, "idle")
    BY <2>1 DEF Start
  <2>3. PICK d, n, to : d = files[f].from /\ n = files[f].name /\ to = PathIn(d, n)
    OBVIOUS
  <2>4. n \in Names
    BY <1>1, <2>1, <2>3
  <2>5. /\ to = Append(PathOf(folders, d), Sanitise[n]) /\ Has(folders, d)
        /\ Free(folders, to)
    BY <2>1, <2>2, <2>3, <2>4, FreeTarget
  <2>6. PICK c : c = [Idle EXCEPT !.pc = "restoreDisk", !.file = f, !.slot = e, !.dst = to]
    OBVIOUS
  <2>7. c.pc = "restoreDisk" /\ c.file = f /\ c.dst = to
    BY <2>6
  <2>8. HoldsTarget(folders, files, tree, c)
    BY <2>1, <2>3, <2>5, <2>7
  <2> QED BY <2>1, <2>3, <2>6, <2>7, <2>8, WholeStart
<1>4. ASSUME EmptyBin(p) PROVE TreeInv'
  <2>1. cmd[p].pc = "idle" /\ UNCHANGED <<folders, files, tree>>
    BY <1>4 DEF EmptyBin, At, rows
  <2>2. GoodFolders(folders, files) /\ OnDisk(folders, tree) /\ TreePathsOK
    BY <2>1, WholeBefore
  <2>3. PICK c : c = [Idle EXCEPT !.pc = "purgeRows"]
    OBVIOUS
  <2>4. c.pc = "purgeRows" /\ cmd' = [cmd EXCEPT ![p] = c]
    BY <1>4, <2>3 DEF EmptyBin
  <2>5. Whole(folders, files, tree, c)
    BY <2>2, <2>4, IdleWhole
  <2>6. Whole(folders', files', tree', c)
    BY <2>1, <2>5
  <2>7. DOMAIN bin' \subseteq DOMAIN bin
    BY <1>4 DEF EmptyBin
  <2>8. TreePathsOK'
    BY <2>1, <2>2, <2>7, EmptiedBinTyped
  <2> QED BY <2>4, <2>6, <2>8, WholeStep
<1> QED BY <1>2, <1>3, <1>4

\* The steps on the disk.
LEMMA MakeDirWhole ==
  ASSUME StoreInv, OneCareful, TreeInv, NEW p \in Procs, MakeDir(p)
  PROVE  TreeInv'
<1> DEFINE d == cmd[p]
<1>1. d.pc = "mkdir" /\ UNCHANGED <<folders, files, bin>> /\ d.dst \in TreePaths
  BY CommandIsTyped, PathsInTrees DEF MakeDir, At, rows
<1>2. /\ GoodFolders(folders, files) /\ OnDisk(folders, tree)
      /\ HoldsTarget(folders, files, tree, d) /\ TreePathsOK
  BY <1>1, WholeBefore DEF Renaming, Deleting
<1>3. CASE CanMkdirAll(tree, d.dst)
  <2>1. PICK t : t = MkdirAll(tree, d.dst)
    OBVIOUS
  <2>2. DOMAIN t \subseteq TreePaths /\ OnDisk(folders, t) /\ IsDir(t, d.dst)
    BY <1>1, <1>2, <1>3, <2>1, MkdirKeepsFolders DEF TreePathsOK
  <2>3. tree' = t /\ Goto(p, "insertFolder")
    BY <1>3, <2>1 DEF MakeDir
  <2>4. ASSUME NEW c, c.pc = "insertFolder", c.dst = d.dst, c.folder = d.folder, c.name = d.name
        PROVE  Whole(folders, files, t, c)
    <3>1. HoldsTarget(folders, files, t, c)
      BY <1>1, <1>2, <2>2, <2>4 DEF HoldsTarget, FileInserts, FolderInserts, Making, Moving,
         RenamingFile, Restoring
    <3>2. Settled(folders, c) = folders
      BY <2>4, SettledSame DEF Renaming, Deleting
    <3> QED BY <1>2, <2>2, <3>1, <3>2 DEF Whole
  <2>5. TreePathsOK'
    BY <1>1, <1>2, <2>2, <2>3 DEF TreePathsOK
  <2> HIDE DEF d
  <2>6. ASSUME NEW c, c.pc = "insertFolder", c.dst = d.dst, c.folder = d.folder, c.name = d.name
        PROVE  Whole(folders', files', tree', c)
    BY <1>1, <2>3, <2>4, <2>6
  <2> QED BY <2>3, <2>5, <2>6, WholeGoto DEF d
<1>4. CASE ~CanMkdirAll(tree, d.dst)
  <2>1. Done(p) /\ UNCHANGED tree
    BY <1>4 DEF MakeDir
  <2>2. TreePathsOK' /\ GoodFolders(folders', files') /\ OnDisk(folders', tree')
    BY <1>1, <1>2, <2>1 DEF TreePathsOK
  <2> QED BY <2>1, <2>2, WholeDone
<1> QED BY <1>3, <1>4

\* The rows that rename_folder is about to write.
LEMMA RewrittenRows ==
  ASSUME NEW F, NEW G, RowsTyped(F, G), GoodFolders(F, G), NEW c, c.pc = "updateFolder",
         Sibling(F, G, c.folder, c.name, c.src, c.dst)
  PROVE  RenamedRows(F, Rewritten(F, c), c.folder, c.name, c.src, c.dst)
<1> PICK a, b : a = c.src /\ b = c.dst
  OBVIOUS
<1>1. /\ a \in Paths /\ b \in Paths /\ a # b /\ ~IsPrefix(a, b)
      /\ \A g \in DOMAIN F : F[g].path \in Paths /\ F[g] \in Folder
  BY SiblingFacts, RowTypes DEF RowsTyped
<1>2. ASSUME NEW g \in DOMAIN F, g # c.folder
      PROVE  /\ Rewritten(F, c)[g].parent = F[g].parent /\ Rewritten(F, c)[g].name = F[g].name
             /\ Rewritten(F, c)[g].path = Moved(F[g].path, a, b)
  <2>1. F[g].path # a
    BY <1>2 DEF Sibling, Distinct, GoodFolders
  <2>2. SwapPrefix(F[g].path, a, b) = Moved(F[g].path, a, b)
    BY <2>1 DEF SwapPrefix, Moved, IsStrictPrefix, Rest
  <2>3. Rewritten(F, c)[g] = [F[g] EXCEPT !.path = SwapPrefix(F[g].path, a, b)]
    BY <1>2 DEF Rewritten, Renamed
  <2> QED BY <1>1, <2>2, <2>3 DEF Folder
<1>3. ASSUME NEW g \in DOMAIN F, g = c.folder
      PROVE  /\ Rewritten(F, c)[g].parent = F[g].parent /\ Rewritten(F, c)[g].name = c.name
             /\ Rewritten(F, c)[g].path = Moved(F[g].path, a, b)
  <2>1. PICK r : r = [F[g] EXCEPT !.name = c.name, !.path = b]
    OBVIOUS
  <2>2. r.parent = F[g].parent /\ r.name = c.name /\ r.path = b
    BY <1>1, <2>1 DEF Folder
  <2>3. SwapPrefix(b, a, b) = b
    BY <1>1 DEF SwapPrefix, IsStrictPrefix
  <2>4. Renamed(F, g, c) = r
    BY <1>3, <2>1 DEF Renamed
  <2>5. Rewritten(F, c)[g] = [r EXCEPT !.path = SwapPrefix(r.path, a, b)]
    BY <2>4 DEF Rewritten
  <2>6. r = [name |-> c.name, parent |-> F[g].parent, path |-> b]
    BY <1>1, <2>1 DEF Folder
  <2>7. Moved(F[g].path, a, b) = b
    BY <1>1, <1>3, MovedFacts, ZenonT(40) DEF Sibling
  <2> QED BY <2>2, <2>3, <2>5, <2>6, <2>7
<1>4. DOMAIN Rewritten(F, c) = DOMAIN F
  BY DEF Rewritten
<1> QED BY <1>2, <1>3, <1>4 DEF RenamedRows

LEMMA RenameDirWhole ==
  ASSUME StoreInv, OneCareful, TreeInv, NEW p \in Procs, RenameDir(p)
  PROVE  TreeInv'
<1> DEFINE d == cmd[p]
<1>1. d.pc = "renameDir" /\ UNCHANGED <<folders, files, bin>>
  BY DEF RenameDir, At, rows
<1>2. /\ GoodFolders(folders, files) /\ OnDisk(folders, tree) /\ RowsTyped(folders, files)
      /\ HoldsTarget(folders, files, tree, d) /\ TreePathsOK
  BY <1>1, WholeBefore DEF Renaming, Deleting
<1>3. Sibling(folders, files, d.folder, d.name, d.src, d.dst)
  BY <1>1, <1>2 DEF HoldsTarget
<1>4. CASE CanMove(tree, d.src, d.dst)
  <2>1. PICK t : t = Move(tree, d.src, d.dst)
    OBVIOUS
  <2>2. tree' = t /\ Goto(p, "updateFolder")
    BY <1>4, <2>1 DEF RenameDir
  <2> HIDE DEF d
  <2>3. ASSUME NEW c, c.pc = "updateFolder", c.src = d.src, c.dst = d.dst, c.folder = d.folder,
               c.name = d.name
        PROVE  Whole(folders, files, t, c) /\ DOMAIN t \subseteq TreePaths
    <3>1. PICK E : E = Rewritten(folders, c)
      OBVIOUS
    <3>2. RenamedRows(folders, E, d.folder, d.name, d.src, d.dst)
      BY <1>2, <1>3, <2>3, <3>1, RewrittenRows
    <3>3. GoodFolders(E, files)
      BY <1>2, <1>3, <3>2, FolderRenamed
    <3>4. DOMAIN t \subseteq TreePaths /\ OnDisk(E, t)
      BY <1>2, <1>3, <2>1, <3>2, FolderDirsMoved DEF TreePathsOK
    <3>5. Settled(folders, c) = E
      BY <2>3, <3>1 DEF Settled, Renaming
    <3>6. HoldsTarget(folders, files, t, c)
      BY <2>3 DEF HoldsTarget, FileInserts, FolderInserts, Making, Moving, RenamingFile, Restoring
    <3> QED BY <3>3, <3>4, <3>5, <3>6 DEF Whole
  <2>4. DOMAIN t \subseteq TreePaths
    <3>1. PICK c : c = [pc |-> "updateFolder", src |-> d.src, dst |-> d.dst, folder |-> d.folder,
                        name |-> d.name]
      OBVIOUS
    <3>2. /\ c.pc = "updateFolder" /\ c.src = d.src /\ c.dst = d.dst /\ c.folder = d.folder
          /\ c.name = d.name
      BY <3>1
    <3> QED BY <2>3, <3>2
  <2>5. TreePathsOK'
    BY <1>1, <1>2, <2>2, <2>4 DEF TreePathsOK
  <2>6. ASSUME NEW c, c.pc = "updateFolder", c.src = d.src, c.dst = d.dst, c.folder = d.folder,
               c.name = d.name
        PROVE  Whole(folders', files', tree', c)
    BY <1>1, <2>2, <2>3, <2>6
  <2> QED BY <2>2, <2>5, <2>6, WholeGoto DEF d
<1>5. CASE ~CanMove(tree, d.src, d.dst)
  <2>1. Done(p) /\ UNCHANGED tree
    BY <1>5 DEF RenameDir
  <2>2. TreePathsOK' /\ GoodFolders(folders', files') /\ OnDisk(folders', tree')
    BY <1>1, <1>2, <2>1 DEF TreePathsOK
  <2> QED BY <2>1, <2>2, WholeDone
<1> QED BY <1>4, <1>5

LEMMA BinDirWhole ==
  ASSUME StoreInv, OneCareful, TreeInv, NEW p \in Procs, BinDir(p)
  PROVE  TreeInv'
<1> DEFINE d == cmd[p]
<1>1. /\ d.pc = "binDir" /\ UNCHANGED <<folders, files>>
      /\ d.src \in TreePaths /\ <<d.slot>> \in TreePaths
  BY CommandIsTyped, PathsInTrees DEF BinDir, At, rows
<1>2. /\ GoodFolders(folders, files) /\ OnDisk(folders, tree) /\ RowsTyped(folders, files)
      /\ HoldsTarget(folders, files, tree, d) /\ TreePathsOK
  BY <1>1, WholeBefore DEF Renaming, Deleting
<1>3. d.folder \in DOMAIN folders /\ d.src = folders[d.folder].path
  BY <1>1, <1>2 DEF HoldsTarget
<1>4. CASE CanRename(tree, d.src, bin, <<d.slot>>)
  <2>1. PICK t, b : /\ t = RenamedFrom(tree, d.src, bin, <<d.slot>>)
                    /\ b = RenamedTo(tree, d.src, bin, <<d.slot>>)
    OBVIOUS
  <2>2. tree' = t /\ bin' = b /\ Goto(p, "binFiles")
    BY <1>4, <2>1 DEF BinDir
  <2>3. DOMAIN b \subseteq TreePaths
    BY <1>1, <1>2, <2>1, ArrivalTyped DEF TreePathsOK
  <2> HIDE DEF d
  <2>4. ASSUME NEW c, c.pc = "binFiles", c.src = d.src, c.folder = d.folder
        PROVE  Whole(folders, files, t, c) /\ DOMAIN t \subseteq TreePaths
    <3>1. PICK E : E = Dropped(folders, c)
      OBVIOUS
    <3>2. /\ DOMAIN E = DOMAIN folders \ DoomedOf(folders, d.folder, d.src)
          /\ \A g \in DOMAIN E : E[g] = folders[g]
      BY <2>4, <3>1 DEF Dropped
    <3>3. GoodFolders(E, files) /\ \A g \in DOMAIN E : ~IsPrefix(d.src, E[g].path)
      BY <1>2, <1>3, <3>2, FoldersDropped
    <3>4. Beside(E, d.src)
      BY <1>1, <3>3 DEF Beside
    <3>5. OnDisk(E, tree)
      BY <1>2, <3>2 DEF OnDisk
    <3>6. DOMAIN t \subseteq TreePaths /\ OnDisk(E, t)
      BY <1>2, <2>1, <3>4, <3>5, DepartureKeepsFolders DEF TreePathsOK
    <3>7. Settled(folders, c) = E
      BY <2>4, <3>1 DEF Settled, Renaming, Deleting
    <3>8. HoldsTarget(folders, files, t, c)
      BY <2>4 DEF HoldsTarget, FileInserts, FolderInserts, Making, Moving, RenamingFile, Restoring
    <3> QED BY <3>3, <3>6, <3>7, <3>8 DEF Whole
  <2>5. DOMAIN t \subseteq TreePaths
    <3>1. PICK c : c = [pc |-> "binFiles", src |-> d.src, folder |-> d.folder]
      OBVIOUS
    <3>2. c.pc = "binFiles" /\ c.src = d.src /\ c.folder = d.folder
      BY <3>1
    <3> QED BY <2>4, <3>2
  <2>6. TreePathsOK'
    BY <2>2, <2>3, <2>5 DEF TreePathsOK
  <2>7. ASSUME NEW c, c.pc = "binFiles", c.src = d.src, c.folder = d.folder
        PROVE  Whole(folders', files', tree', c)
    BY <1>1, <2>2, <2>4, <2>7
  <2> QED BY <2>2, <2>6, <2>7, WholeGoto DEF d
<1>5. CASE ~CanRename(tree, d.src, bin, <<d.slot>>)
  <2>1. Done(p) /\ UNCHANGED <<tree, bin>>
    BY <1>5 DEF BinDir
  <2>2. TreePathsOK' /\ GoodFolders(folders', files') /\ OnDisk(folders', tree')
    BY <1>1, <1>2, <2>1 DEF TreePathsOK
  <2> QED BY <2>1, <2>2, WholeDone
<1> QED BY <1>4, <1>5

\* From one step of a command on a file to a later one.
Continues(from, to) ==
  \/ from \in FileInserts /\ to \in FileInserts
  \/ from = "moveDisk" /\ to = "moveRow"
  \/ from = "renameDisk" /\ to = "renameRow"
  \/ from = "binDisk" /\ to = "binRow"
  \/ from = "restoreDisk" /\ to = "restoreRow"

LEMMA ContinuesTarget ==
  ASSUME NEW F, NEW G, NEW t, NEW u, NEW c, NEW d, HoldsTarget(F, G, t, c), Continues(c.pc, d.pc),
         d.src = c.src, d.dst = c.dst, d.folder = c.folder, d.name = c.name, d.file = c.file
  PROVE  /\ HoldsTarget(F, G, u, d)
         /\ c.pc \notin Renaming \cup Deleting /\ d.pc \notin Renaming \cup Deleting
BY DEF Continues, HoldsTarget, FileInserts, FolderInserts, Making, Moving, RenamingFile, Restoring,
       Renaming, Deleting

\* A step of a command on a file that changes the trees beside the folders.
LEMMA FileDiskWhole ==
  ASSUME StoreInv, OneCareful, TreeInv, NEW p \in Procs, UNCHANGED <<folders, files>>,
         NEW to, Continues(cmd[p].pc, to),
         \/ Done(p) \/ Goto(p, to)
         \/ \E c : /\ cmd' = [cmd EXCEPT ![p] = c]
                   /\ c.pc = to /\ c.src = cmd[p].src /\ c.dst = cmd[p].dst
                   /\ c.folder = cmd[p].folder /\ c.name = cmd[p].name /\ c.file = cmd[p].file,
         OnDisk(folders, tree'), TreePathsOK'
  PROVE  TreeInv'
<1>1. cmd[p].pc \notin Renaming \cup Deleting
  BY DEF Continues, Renaming, Deleting, FileInserts
<1>2. GoodFolders(folders, files) /\ HoldsTarget(folders, files, tree, cmd[p])
  BY <1>1, WholeBefore
<1>3. CASE Done(p)
  <2>1. GoodFolders(folders', files') /\ OnDisk(folders', tree')
    BY <1>2
  <2> QED BY <1>3, <2>1, WholeDone
<1>4. ASSUME NEW c, c.pc = to, c.src = cmd[p].src, c.dst = cmd[p].dst,
             c.folder = cmd[p].folder, c.name = cmd[p].name, c.file = cmd[p].file
      PROVE  Whole(folders', files', tree', c)
  <2>1. PICK u : u = tree'
    OBVIOUS
  <2>2. HoldsTarget(folders, files, u, c) /\ c.pc \notin Renaming \cup Deleting
    BY <1>2, <1>4, ContinuesTarget
  <2>3. Whole(folders, files, u, c)
    BY <1>2, <2>1, <2>2, SettledSame DEF Whole
  <2> QED BY <2>1, <2>3
<1>5. CASE Goto(p, to)
  BY <1>4, <1>5, WholeGoto
<1>6. CASE ~(Done(p) \/ Goto(p, to))
  BY <1>4, <1>6, WholeStep
<1> QED BY <1>3, <1>5, <1>6

LEMMA RenameDiskWhole ==
  ASSUME StoreInv, OneCareful, TreeInv, NEW p \in Procs, RenameDisk(p)
  PROVE  TreeInv'
<1> PICK a, b : a = cmd[p].src /\ b = cmd[p].dst
  OBVIOUS
<1>1. /\ cmd[p].pc = "renameDisk" /\ UNCHANGED <<folders, files, bin>>
      /\ tree' = tree \/ tree' = Move(tree, a, b)
      /\ Done(p) \/ Goto(p, "renameRow")
  BY DEF RenameDisk, At, rows
<1>2. a \in Paths /\ b \in Paths
  BY CommandIsTyped
<1>3. /\ GoodFolders(folders, files) /\ OnDisk(folders, tree) /\ TreePathsOK
      /\ HoldsTarget(folders, files, tree, cmd[p])
  BY <1>1, WholeBefore DEF Renaming, Deleting
<1>4. Free(folders, a) /\ Free(folders, b)
  BY <1>1, <1>3 DEF HoldsTarget, RenamingFile
<1>5. Beside(folders, a) /\ Beside(folders, b)
  BY <1>2, <1>3, <1>4, FreePathIsBeside DEF Free, GoodFolders
<1>6. DOMAIN tree' \subseteq TreePaths /\ OnDisk(folders, tree')
  BY <1>1, <1>3, <1>5, MoveKeepsFolders DEF TreePathsOK
<1>7. TreePathsOK'
  BY <1>1, <1>3, <1>6 DEF TreePathsOK
<1>8. Continues(cmd[p].pc, "renameRow")
  BY <1>1 DEF Continues
<1> QED BY <1>1, <1>6, <1>7, <1>8, FileDiskWhole

LEMMA BinDiskWhole ==
  ASSUME StoreInv, OneCareful, TreeInv, NEW p \in Procs, BinDisk(p)
  PROVE  TreeInv'
<1> PICK a, e : a = cmd[p].src /\ e = <<cmd[p].slot>>
  OBVIOUS
<1>1. /\ cmd[p].pc = "binDisk" /\ (Done(p) \/ Goto(p, "binRow")) /\ UNCHANGED <<folders, files>>
      /\ \/ UNCHANGED <<tree, bin>>
         \/ tree' = RenamedFrom(tree, a, bin, e) /\ bin' = RenamedTo(tree, a, bin, e)
  BY DEF BinDisk, At, rows
<1>2. a \in Paths /\ a \in TreePaths /\ e \in TreePaths
  BY CommandIsTyped, PathsInTrees
<1>3. /\ GoodFolders(folders, files) /\ OnDisk(folders, tree) /\ TreePathsOK
      /\ HoldsTarget(folders, files, tree, cmd[p])
  BY <1>1, WholeBefore DEF Renaming, Deleting
<1>4. Free(folders, a)
  BY <1>1, <1>3 DEF HoldsTarget
<1>5. Beside(folders, a)
  BY <1>2, <1>3, <1>4, FreePathIsBeside DEF Free, GoodFolders
<1>6. DOMAIN tree' \subseteq TreePaths /\ OnDisk(folders, tree')
  BY <1>1, <1>3, <1>5, DepartureKeepsFolders DEF TreePathsOK
<1>7. DOMAIN bin' \subseteq TreePaths
  BY <1>1, <1>2, <1>3, ArrivalTyped DEF TreePathsOK
<1>8. TreePathsOK'
  BY <1>6, <1>7 DEF TreePathsOK
<1>9. Continues(cmd[p].pc, "binRow")
  BY <1>1 DEF Continues
<1> QED BY <1>1, <1>6, <1>8, <1>9, FileDiskWhole

\* A file's target is in a folder that is listed, so its directory is a path.
LEMMA TargetDirectory ==
  ASSUME StoreInv, OneCareful, TreeInv, NEW p \in Procs,
         cmd[p].pc \in FileInserts \cup {"restoreDisk", "moveDisk"}
  PROVE  /\ Front(cmd[p].dst) \in TreePaths /\ cmd[p].dst \in TreePaths
         /\ Beside(folders, cmd[p].dst) /\ cmd[p].dst \notin FolderPaths(folders)
<1>1. /\ GoodFolders(folders, files) /\ RowsTyped(folders, files)
      /\ HoldsTarget(folders, files, tree, cmd[p])
  BY WholeBefore DEF Renaming, Deleting, FileInserts
<1>2. cmd[p].pc \in FileInserts => cmd[p].name \in Names
  BY CommandIsTyped DEF LocalsOK, NamedPCs
<1>3. PICK k \in Paths, m \in DiskNames : cmd[p].dst = Append(k, m)
  <2>1. CASE cmd[p].pc \in FileInserts
    BY <1>1, <1>2, <2>1, RowTypes, NamesAssumption DEF HoldsTarget
  <2>2. CASE cmd[p].pc = "restoreDisk"
    BY <1>1, <2>2, RowTypes, NamesAssumption DEF HoldsTarget, Restoring
  <2>3. CASE cmd[p].pc = "moveDisk"
    BY <1>1, <2>3, RowTypes, NamesAssumption DEF HoldsTarget, Moving
  <2> QED BY <2>1, <2>2, <2>3
<1>4. Front(cmd[p].dst) = k
  BY <1>3, PrefixAppend DEF Paths
<1>5. cmd[p].dst \in Paths
  BY CommandIsTyped
<1>6. Free(folders, cmd[p].dst)
  BY <1>1 DEF HoldsTarget, Restoring, Moving
<1>7. Beside(folders, cmd[p].dst)
  BY <1>1, <1>5, <1>6, FreePathIsBeside DEF Free, GoodFolders
<1> QED BY <1>3, <1>4, <1>5, <1>6, <1>7, PathsInTrees DEF Free

LEMMA MoveDiskWhole ==
  ASSUME StoreInv, OneCareful, TreeInv, NEW p \in Procs, MoveDisk(p)
  PROVE  TreeInv'
<1> PICK a, b, k : a = cmd[p].src /\ b = cmd[p].dst /\ k = Front(b)
  OBVIOUS
<1> PICK t : t = MkdirAll(tree, k)
  OBVIOUS
<1>1. /\ cmd[p].pc = "moveDisk" /\ UNCHANGED <<folders, files, bin>>
      /\ \/ CanMkdirAll(tree, k) /\ tree' = Move(t, a, b)
         \/ CanMkdirAll(tree, k) /\ tree' = t
         \/ tree' = tree
      /\ Done(p) \/ Goto(p, "moveRow")
  BY DEF MoveDisk, At, rows
<1>2. a \in Paths /\ k \in TreePaths /\ Beside(folders, b)
  BY <1>1, CommandIsTyped, TargetDirectory
<1>3. /\ GoodFolders(folders, files) /\ OnDisk(folders, tree) /\ TreePathsOK
      /\ HoldsTarget(folders, files, tree, cmd[p])
  BY <1>1, WholeBefore DEF Renaming, Deleting
<1>4. Free(folders, a)
  BY <1>1, <1>3 DEF HoldsTarget
<1>5. Beside(folders, a)
  BY <1>2, <1>3, <1>4, FreePathIsBeside DEF Free, GoodFolders
<1>6. CanMkdirAll(tree, k) => DOMAIN t \subseteq TreePaths /\ OnDisk(folders, t)
  BY <1>2, <1>3, MkdirKeepsFolders DEF TreePathsOK
<1>7. CanMkdirAll(tree, k) => DOMAIN Move(t, a, b) \subseteq TreePaths /\ OnDisk(folders, Move(t, a, b))
  BY <1>2, <1>5, <1>6, MoveKeepsFolders
<1>8. DOMAIN tree' \subseteq TreePaths /\ OnDisk(folders, tree')
  BY <1>1, <1>3, <1>6, <1>7 DEF TreePathsOK
<1>9. TreePathsOK'
  BY <1>1, <1>3, <1>8 DEF TreePathsOK
<1>10. Continues(cmd[p].pc, "moveRow")
  BY <1>1 DEF Continues
<1> QED BY <1>1, <1>8, <1>9, <1>10, FileDiskWhole

LEMMA LinkWhole ==
  ASSUME StoreInv, OneCareful, TreeInv, NEW p \in Procs, Link(p)
  PROVE  TreeInv'
<1> PICK b, k : b = cmd[p].dst /\ k = Front(b)
  OBVIOUS
<1> PICK t, i : t = MkdirAll(tree, k) /\ i = blobs[cmd[p].hash]
  OBVIOUS
<1>1. /\ cmd[p].pc = "link" /\ UNCHANGED <<folders, files, bin>>
      /\ \/ CanMkdirAll(tree, k) /\ tree' = AddFile(t, b, i)
         \/ CanMkdirAll(tree, k) /\ tree' = t
         \/ tree' = tree
      /\ Done(p) \/ Goto(p, "insertFile") \/ Goto(p, "copyOpen")
  BY DEF Link, At, rows
<1>2. k \in TreePaths /\ b \in TreePaths /\ b \notin FolderPaths(folders)
  BY <1>1, TargetDirectory DEF FileInserts
<1>3. OnDisk(folders, tree) /\ TreePathsOK
  BY <1>1, WholeBefore DEF Renaming, Deleting
<1>4. CanMkdirAll(tree, k) => DOMAIN t \subseteq TreePaths /\ OnDisk(folders, t)
  BY <1>2, <1>3, MkdirKeepsFolders DEF TreePathsOK
<1>5. CanMkdirAll(tree, k) => DOMAIN AddFile(t, b, i) \subseteq TreePaths /\ OnDisk(folders, AddFile(t, b, i))
  BY <1>2, <1>4, NewFileKeepsFolders
<1>6. DOMAIN tree' \subseteq TreePaths /\ OnDisk(folders, tree')
  BY <1>1, <1>3, <1>4, <1>5 DEF TreePathsOK
<1>7. TreePathsOK'
  BY <1>1, <1>3, <1>6 DEF TreePathsOK
<1>8. Continues(cmd[p].pc, "insertFile") /\ Continues(cmd[p].pc, "copyOpen")
  BY <1>1 DEF Continues, FileInserts
<1> QED BY <1>1, <1>6, <1>7, <1>8, FileDiskWhole

LEMMA CopyOpenWhole ==
  ASSUME StoreInv, OneCareful, TreeInv, NEW p \in Procs, CopyOpen(p)
  PROVE  TreeInv'
<1> PICK b, i : b = cmd[p].dst /\ i = Len(data) + 1
  OBVIOUS
<1>1. /\ cmd[p].pc = "copyOpen" /\ UNCHANGED <<folders, files, bin>>
      /\ tree' = AddFile(tree, b, i) \/ tree' = tree
      /\ Done(p) \/ \E j : cmd' = [cmd EXCEPT ![p].pc = "copyWrite", ![p].ino = j]
  BY DEF CopyOpen, At, rows
<1>2. b \in TreePaths /\ b \notin FolderPaths(folders)
  BY <1>1, TargetDirectory DEF FileInserts
<1>3. OnDisk(folders, tree) /\ TreePathsOK
  BY <1>1, WholeBefore DEF Renaming, Deleting
<1>4. DOMAIN tree' \subseteq TreePaths /\ OnDisk(folders, tree')
  BY <1>1, <1>2, <1>3, NewFileKeepsFolders DEF TreePathsOK
<1>5. TreePathsOK'
  BY <1>1, <1>3, <1>4 DEF TreePathsOK
<1>6. Continues(cmd[p].pc, "copyWrite")
  BY <1>1 DEF Continues, FileInserts
<1>7. CASE Done(p)
  BY <1>1, <1>4, <1>5, <1>6, <1>7, FileDiskWhole
<1>8. CASE ~Done(p)
  <2>1. PICK j : cmd' = [cmd EXCEPT ![p].pc = "copyWrite", ![p].ino = j]
    BY <1>1, <1>8
  <2>2. cmd[p] \in Command /\ DOMAIN cmd = Procs
    BY CommandIsTyped
  <2>3. PICK c : c = [cmd[p] EXCEPT !.pc = "copyWrite", !.ino = j]
    OBVIOUS
  <2>4. /\ c.pc = "copyWrite" /\ c.src = cmd[p].src /\ c.dst = cmd[p].dst
        /\ c.folder = cmd[p].folder /\ c.name = cmd[p].name /\ c.file = cmd[p].file
    BY <2>2, <2>3 DEF Command
  <2>5. cmd' = [cmd EXCEPT ![p] = c]
    BY <2>1, <2>2, <2>3
  <2> QED BY <1>1, <1>4, <1>5, <1>6, <2>4, <2>5, FileDiskWhole
<1> QED BY <1>7, <1>8

LEMMA BlobStepsWhole ==
  ASSUME StoreInv, OneCareful, TreeInv, NEW p \in Procs,
         BlobOpen(p) \/ BlobWrite(p) \/ CopyWrite(p)
  PROVE  TreeInv'
<1>1. cmd[p].pc \in FileInserts /\ UNCHANGED <<folders, files, tree, bin>>
  BY DEF BlobOpen, BlobWrite, CopyWrite, At, rows, FileInserts
<1>2. /\ OnDisk(folders, tree) /\ TreePathsOK /\ HoldsTarget(folders, files, tree, cmd[p])
  BY <1>1, WholeBefore DEF Renaming, Deleting, FileInserts
<1>3. OnDisk(folders, tree') /\ TreePathsOK'
  BY <1>1, <1>2 DEF TreePathsOK
<1>4. \A to \in FileInserts : Continues(cmd[p].pc, to)
  BY <1>1 DEF Continues
<1>5. CASE BlobOpen(p)
  BY <1>1, <1>3, <1>4, <1>5, FileDiskWhole DEF BlobOpen, FileInserts
<1>6. CASE CopyWrite(p)
  BY <1>1, <1>3, <1>4, <1>6, FileDiskWhole DEF CopyWrite, FileInserts
<1>7. CASE BlobWrite(p) /\ Done(p)
  BY <1>1, <1>3, <1>4, <1>7, FileDiskWhole
<1>8. CASE BlobWrite(p) /\ ~Done(p)
  <2>1. PICK b : /\ b = PathIn(cmd[p].folder, cmd[p].name)
                 /\ cmd' = [cmd EXCEPT ![p].pc = "link", ![p].dst = b]
    BY <1>8 DEF BlobWrite
  <2>2. cmd[p] \in Command /\ DOMAIN cmd = Procs
    BY CommandIsTyped
  <2>3. b = cmd[p].dst
    BY <1>1, <1>2, <2>1 DEF HoldsTarget, PathIn, DirOf, PathOf
  <2>4. PICK c : c = [cmd[p] EXCEPT !.pc = "link", !.dst = b]
    OBVIOUS
  <2>5. /\ c.pc = "link" /\ c.src = cmd[p].src /\ c.dst = cmd[p].dst
        /\ c.folder = cmd[p].folder /\ c.name = cmd[p].name /\ c.file = cmd[p].file
    BY <2>2, <2>3, <2>4 DEF Command
  <2>6. cmd' = [cmd EXCEPT ![p] = c]
    BY <2>1, <2>2, <2>4
  <2>7. Continues(cmd[p].pc, "link")
    BY <1>4 DEF FileInserts
  <2> QED BY <1>1, <1>3, <2>5, <2>6, <2>7, FileDiskWhole
<1> QED BY <1>5, <1>6, <1>7, <1>8

LEMMA RestoreDiskWhole ==
  ASSUME StoreInv, OneCareful, TreeInv, NEW p \in Procs, RestoreDisk(p)
  PROVE  TreeInv'
<1> PICK b, k, e : b = cmd[p].dst /\ k = Front(b) /\ e = <<cmd[p].slot>>
  OBVIOUS
<1> PICK t : t = MkdirAll(tree, k)
  OBVIOUS
<1>1. /\ cmd[p].pc = "restoreDisk" /\ UNCHANGED <<folders, files>>
      /\ \/ CanMkdirAll(tree, k) /\ tree' = t /\ UNCHANGED bin
         \/ /\ CanMkdirAll(tree, k)
            /\ tree' = RenamedTo(bin, e, t, b) /\ bin' = RenamedFrom(bin, e, t, b)
         \/ UNCHANGED <<tree, bin>>
      /\ Done(p) \/ Goto(p, "restoreRow")
  BY DEF RestoreDisk, At, rows
<1>2. k \in TreePaths /\ b \in TreePaths /\ Beside(folders, b)
  BY <1>1, TargetDirectory
<1>3. OnDisk(folders, tree) /\ TreePathsOK
  BY <1>1, WholeBefore DEF Renaming, Deleting
<1>4. e \in TreePaths
  BY CommandIsTyped, PathsInTrees
<1>5. CanMkdirAll(tree, k) => DOMAIN t \subseteq TreePaths /\ OnDisk(folders, t)
  BY <1>2, <1>3, MkdirKeepsFolders DEF TreePathsOK
<1>6. ASSUME CanMkdirAll(tree, k)
      PROVE  /\ DOMAIN RenamedTo(bin, e, t, b) \subseteq TreePaths
             /\ OnDisk(folders, RenamedTo(bin, e, t, b))
             /\ DOMAIN RenamedFrom(bin, e, t, b) \subseteq TreePaths
  <2>1. DOMAIN t \subseteq TreePaths /\ OnDisk(folders, t) /\ DOMAIN bin \subseteq TreePaths
    BY <1>3, <1>5, <1>6 DEF TreePathsOK
  <2>2. DOMAIN RenamedTo(bin, e, t, b) \subseteq TreePaths /\ OnDisk(folders, RenamedTo(bin, e, t, b))
    BY <1>2, <1>4, <2>1, ArrivalKeepsFolders
  <2>3. DOMAIN RenamedFrom(bin, e, t, b) \subseteq TreePaths
    BY <1>2, <1>4, <2>1, ArrivalTyped
  <2> QED BY <2>2, <2>3
<1>7. DOMAIN tree' \subseteq TreePaths /\ OnDisk(folders, tree') /\ DOMAIN bin' \subseteq TreePaths
  BY <1>1, <1>3, <1>5, <1>6 DEF TreePathsOK
<1>8. TreePathsOK'
  BY <1>7 DEF TreePathsOK
<1>9. Continues(cmd[p].pc, "restoreRow")
  BY <1>1 DEF Continues
<1> QED BY <1>1, <1>7, <1>8, <1>9, FileDiskWhole

\* The steps on the rows of folders: three of them lead to the rows foreseen.
LEMMA InsertFolderWhole ==
  ASSUME StoreInv, OneCareful, TreeInv, NEW p \in Procs, InsertFolder(p)
  PROVE  TreeInv'
<1> DEFINE d == cmd[p]
<1>1. /\ d.pc = "insertFolder" /\ Done(p) /\ UNCHANGED <<files, tree, bin>>
      /\ d.name \in Names /\ d.dst \in Paths
  BY CommandIsTyped DEF InsertFolder, At, disk, LocalsOK, NamedPCs, FolderInserts
<1>2. /\ GoodFolders(folders, files) /\ OnDisk(folders, tree) /\ RowsTyped(folders, files)
      /\ HoldsTarget(folders, files, tree, d) /\ TreePathsOK
  BY <1>1, WholeBefore DEF Renaming, Deleting
<1>3. /\ Has(folders, d.folder) /\ d.dst = Append(PathOf(folders, d.folder), Sanitise[d.name])
      /\ d.dst \notin FolderPaths(folders) /\ IsDir(tree, d.dst)
      /\ \A f : Shows(folders, files, f) => RowPath(folders, files, f) # d.dst
  BY <1>1, <1>2 DEF HoldsTarget, Making, FolderInserts, Free
<1>4. nextFolder \notin DOMAIN folders /\ nextFolder # Root
  BY StoreInvParts DEF RowsOK, Root
<1>5. PICK E : E = folders'
  OBVIOUS
<1>6. /\ DOMAIN E = DOMAIN folders \cup {nextFolder} /\ \A g \in DOMAIN folders : E[g] = folders[g]
      /\ E[nextFolder].name = d.name /\ E[nextFolder].parent = d.folder /\ E[nextFolder].path = d.dst
  BY <1>4, <1>5 DEF InsertFolder
<1> HIDE DEF d
<1>7. GoodFolders(E, files)
  BY <1>1, <1>2, <1>3, <1>4, <1>6, FolderInserted
<1>8. OnDisk(E, tree)
  BY <1>2, <1>3, <1>6 DEF OnDisk
<1>9. GoodFolders(folders', files') /\ OnDisk(folders', tree') /\ TreePathsOK'
  BY <1>1, <1>2, <1>5, <1>7, <1>8 DEF TreePathsOK
<1> QED BY <1>1, <1>9, WholeDone

LEMMA FoldersForeseen ==
  ASSUME StoreInv, OneCareful, TreeInv, NEW p \in Procs,
         UpdateFolder(p) \/ UpdateBelow(p) \/ DropFolders(p)
  PROVE  TreeInv'
<1>1. PICK E : E = Settled(folders, cmd[p])
  OBVIOUS
<1>2. p = Solo /\ UNCHANGED <<files, tree, bin>>
  BY OnlySolo DEF UpdateFolder, UpdateBelow, DropFolders, disk
<1>3. GoodFolders(E, files) /\ OnDisk(E, tree) /\ TreePathsOK
  BY <1>1, <1>2 DEF TreeInv, Whole
<1>4. TreePathsOK'
  BY <1>2, <1>3 DEF TreePathsOK
<1>5. CASE UpdateFolder(p)
  <2>1. cmd[p].pc = "updateFolder" /\ Goto(p, "updateBelow")
    BY <1>5 DEF UpdateFolder, At
  <2>2. PICK F : F = folders'
    OBVIOUS
  <2>3. F = [g \in DOMAIN folders |-> Renamed(folders, g, cmd[p])]
    BY <1>5, <2>1, <2>2 DEF UpdateFolder, Renamed
  <2>4. E = Rewritten(folders, cmd[p])
    BY <1>1, <2>1 DEF Settled, Renaming
  <2>5. ASSUME NEW c, c.pc = "updateBelow", c.src = cmd[p].src, c.dst = cmd[p].dst
        PROVE  Whole(F, files, tree, c)
    <3>1. \A g \in DOMAIN F : Renamed(F, g, c) = Renamed(folders, g, cmd[p])
      BY <2>3, <2>5 DEF Renamed
    <3>2. Rewritten(F, c) = Rewritten(folders, cmd[p])
      BY <2>3, <2>5, <3>1 DEF Rewritten
    <3>3. Settled(F, c) = E
      BY <2>4, <2>5, <3>2 DEF Settled, Renaming
    <3>4. HoldsTarget(F, files, tree, c)
      BY <2>5 DEF HoldsTarget, FileInserts, FolderInserts, Making, Moving, RenamingFile, Restoring
    <3> QED BY <1>3, <3>3, <3>4 DEF Whole
  <2>6. ASSUME NEW c, c.pc = "updateBelow", c.src = cmd[p].src, c.dst = cmd[p].dst
        PROVE  Whole(folders', files', tree', c)
    BY <1>2, <2>2, <2>5, <2>6
  <2> QED BY <1>4, <2>1, <2>6, WholeGoto
<1>6. CASE UpdateBelow(p)
  <2>1. cmd[p].pc = "updateBelow" /\ Done(p)
    BY <1>6 DEF UpdateBelow, At
  <2>2. E = Rewritten(folders, cmd[p])
    BY <1>1, <2>1 DEF Settled, Renaming
  <2>3. folders' = E
    BY <1>6, <2>1, <2>2 DEF UpdateBelow, Rewritten, Renamed
  <2>4. GoodFolders(folders', files') /\ OnDisk(folders', tree')
    BY <1>2, <1>3, <2>3
  <2> QED BY <1>4, <2>1, <2>4, WholeDone
<1>7. CASE DropFolders(p)
  <2>1. cmd[p].pc = "dropFolders" /\ Done(p)
    BY <1>7 DEF DropFolders, At
  <2>2. E = Dropped(folders, cmd[p])
    BY <1>1, <2>1 DEF Settled, Renaming, Deleting
  <2>3. folders' = E
    BY <1>7, <2>2 DEF DropFolders, Dropped, Doomed, DoomedOf
  <2>4. GoodFolders(folders', files') /\ OnDisk(folders', tree')
    BY <1>2, <1>3, <2>3
  <2> QED BY <1>4, <2>1, <2>4, WholeDone
<1> QED BY <1>5, <1>6, <1>7

\* Rows that are binned or stay where they are leave the paths of live rows apart.
LEMMA FewerShown ==
  ASSUME NEW F, NEW G, GoodFolders(F, G), NEW H,
         \A f : Shows(F, H, f) => \/ Shows(F, G, f) /\ RowPath(F, H, f) = RowPath(F, G, f)
                                  \/ RowPath(F, H, f) \notin FolderPaths(F)
  PROVE  GoodFolders(F, H)
BY DEF GoodFolders, Apart, Shows

LEMMA BinFilesWhole ==
  ASSUME StoreInv, OneCareful, TreeInv, NEW p \in Procs, BinFiles(p)
  PROVE  TreeInv'
<1>1. PICK E, H : E = Settled(folders, cmd[p]) /\ H = files'
  OBVIOUS
<1>2. p = Solo /\ UNCHANGED <<folders, tree, bin>> /\ cmd[p].pc = "binFiles" /\ Goto(p, "dropFolders")
  BY OnlySolo DEF BinFiles, At, disk
<1>3. GoodFolders(E, files) /\ OnDisk(E, tree) /\ TreePathsOK
  BY <1>1, <1>2 DEF TreeInv, Whole
<1>4. E = Dropped(folders, cmd[p])
  BY <1>1, <1>2 DEF Settled, Renaming, Deleting
<1>5. \A f : Shows(E, H, f) => Shows(E, files, f) /\ RowPath(E, H, f) = RowPath(E, files, f)
  <2>1. DOMAIN H = DOMAIN files /\ \A f \in DOMAIN H : H[f] = files[f] \/ H[f].binned
    <3>1. \A f \in DOMAIN files : files[f] \in File
      BY RowsAreTyped DEF RowsTyped
    <3> QED BY <1>1, <3>1 DEF BinFiles, File
  <2> QED BY <2>1 DEF Shows, RowPath
<1>6. GoodFolders(E, H)
  BY <1>3, <1>5, FewerShown
<1>7. ASSUME NEW c, c.pc = "dropFolders", c.src = cmd[p].src, c.folder = cmd[p].folder
      PROVE  Whole(folders, H, tree, c)
  <2>1. Settled(folders, c) = E
    BY <1>4, <1>7 DEF Settled, Renaming, Deleting, Dropped
  <2>2. HoldsTarget(folders, H, tree, c)
    BY <1>7 DEF HoldsTarget, FileInserts, FolderInserts, Making, Moving, RenamingFile, Restoring
  <2> QED BY <1>3, <1>6, <2>1, <2>2 DEF Whole
<1>8. ASSUME NEW c, c.pc = "dropFolders", c.src = cmd[p].src, c.folder = cmd[p].folder
      PROVE  Whole(folders', files', tree', c)
  BY <1>1, <1>2, <1>7, <1>8
<1>9. TreePathsOK'
  BY <1>2, <1>3 DEF TreePathsOK
<1> QED BY <1>2, <1>8, <1>9, WholeGoto

\* The steps on the rows of files end their command: a row that changes its path, or comes
\* to be shown, has the command's target.
LEMMA FileRowWhole ==
  ASSUME StoreInv, OneCareful, TreeInv, NEW p \in Procs, Done(p), UNCHANGED <<folders, tree, bin>>,
         cmd[p].pc \notin Renaming \cup Deleting,
         \A f : Shows(folders, files', f) =>
                  \/ Shows(folders, files, f) /\ RowPath(folders, files', f) = RowPath(folders, files, f)
                  \/ RowPath(folders, files', f) \notin FolderPaths(folders)
  PROVE  TreeInv'
<1>1. GoodFolders(folders, files) /\ OnDisk(folders, tree) /\ TreePathsOK
  BY WholeBefore
<1>2. GoodFolders(folders, files')
  BY <1>1, FewerShown
<1>3. GoodFolders(folders', files') /\ OnDisk(folders', tree') /\ TreePathsOK'
  BY <1>1, <1>2 DEF TreePathsOK
<1> QED BY <1>3, WholeDone

LEMMA FileRowsWhole ==
  ASSUME StoreInv, OneCareful, TreeInv, NEW p \in Procs,
         \/ MoveRow(p) \/ RenameRow(p) \/ InsertFile(p)
         \/ BinRow(p) \/ RestoreRow(p) \/ PurgeRows(p)
  PROVE  TreeInv'
<1> PICK d, H : d = cmd[p] /\ H = files'
  OBVIOUS
<1>1. /\ d.pc \in {"moveRow", "renameRow", "insertFile", "binRow", "restoreRow", "purgeRows"}
      /\ Done(p) /\ UNCHANGED <<folders, tree, bin>>
  BY DEF MoveRow, RenameRow, InsertFile, BinRow, RestoreRow, PurgeRows, At, disk
<1>2. cmd[p].pc \notin Renaming \cup Deleting
  BY <1>1 DEF Renaming, Deleting
<1>3. HoldsTarget(folders, files, tree, d)
  BY <1>2, WholeBefore
<1>4. \A f \in DOMAIN files : files[f] \in File
  BY RowsAreTyped DEF RowsTyped
<1> SUFFICES ASSUME NEW f, Shows(folders, H, f)
             PROVE  \/ Shows(folders, files, f) /\ RowPath(folders, H, f) = RowPath(folders, files, f)
                    \/ RowPath(folders, H, f) \notin FolderPaths(folders)
  BY <1>1, <1>2, FileRowWhole
<1>5. ASSUME f \in DOMAIN files, H[f] = files[f]
      PROVE  Shows(folders, files, f) /\ RowPath(folders, H, f) = RowPath(folders, files, f)
  BY <1>5 DEF Shows, RowPath
<1>6. ASSUME RowPath(folders, H, f) = d.dst, d.pc \in {"moveRow", "renameRow", "insertFile", "restoreRow"}
      PROVE  RowPath(folders, H, f) \notin FolderPaths(folders)
  BY <1>3, <1>6 DEF HoldsTarget, FileInserts, Making, Moving, RenamingFile, Restoring, Free
<1>7. CASE MoveRow(p)
  <2>1. d.pc = "moveRow" /\ f \in DOMAIN files
    BY <1>7 DEF MoveRow, At, Shows
  <2>2. CASE f = d.file
    <3>1. H[f].folder = d.folder /\ H[f].name = files[f].name
      BY <1>4, <1>7, <2>1, <2>2 DEF MoveRow, File
    <3>2. d.dst = Append(PathOf(folders, d.folder), Sanitise[files[f].name])
      BY <1>3, <2>1, <2>2 DEF HoldsTarget, Moving
    <3> QED BY <1>6, <2>1, <3>1, <3>2 DEF RowPath
  <2>3. CASE f # d.file
    <3>1. H[f] = files[f]
      BY <1>7, <2>1, <2>3 DEF MoveRow
    <3> QED BY <1>5, <2>1, <3>1
  <2> QED BY <2>2, <2>3
<1>8. CASE RenameRow(p)
  <2>1. d.pc = "renameRow" /\ f \in DOMAIN files
    BY <1>8 DEF RenameRow, At, Shows
  <2>2. CASE f = d.file
    <3>1. H[f].folder = files[f].folder /\ H[f].name = d.name
      BY <1>4, <1>8, <2>1, <2>2 DEF RenameRow, File
    <3>2. d.dst = Append(PathOf(folders, files[f].folder), Sanitise[d.name])
      BY <1>3, <2>1, <2>2 DEF HoldsTarget, RenamingFile
    <3> QED BY <1>6, <2>1, <3>1, <3>2 DEF RowPath
  <2>3. CASE f # d.file
    <3>1. H[f] = files[f]
      BY <1>8, <2>1, <2>3 DEF RenameRow
    <3> QED BY <1>5, <2>1, <3>1
  <2> QED BY <2>2, <2>3
<1>9. CASE InsertFile(p)
  <2>1. d.pc = "insertFile" /\ (f \in DOMAIN files \/ f = nextFile)
    BY <1>9 DEF InsertFile, At, Shows
  <2>2. CASE f = nextFile
    <3>1. H[f].folder = d.folder /\ H[f].name = d.name
      BY <1>9, <2>2 DEF InsertFile
    <3>2. d.dst = Append(PathOf(folders, d.folder), Sanitise[d.name])
      BY <1>3, <2>1 DEF HoldsTarget, FileInserts
    <3> QED BY <1>6, <2>1, <3>1, <3>2 DEF RowPath
  <2>3. CASE f # nextFile
    <3>1. f \in DOMAIN files /\ H[f] = files[f]
      BY <1>9, <2>1, <2>3 DEF InsertFile
    <3> QED BY <1>5, <3>1
  <2> QED BY <2>2, <2>3
<1>10. CASE BinRow(p)
  <2>1. f \in DOMAIN files /\ (H[f] = files[f] \/ H[f].binned)
    BY <1>4, <1>10 DEF BinRow, Shows, File
  <2> QED BY <1>5, <2>1 DEF Shows
<1>11. CASE RestoreRow(p)
  <2>1. d.pc = "restoreRow" /\ f \in DOMAIN files
    BY <1>11 DEF RestoreRow, At, Shows
  <2>2. CASE f = d.file
    <3>1. H[f].folder = files[f].from /\ H[f].name = files[f].name
      BY <1>4, <1>11, <2>1, <2>2 DEF RestoreRow, File
    <3>2. d.dst = Append(PathOf(folders, files[f].from), Sanitise[files[f].name])
      BY <1>3, <2>1, <2>2 DEF HoldsTarget, Restoring
    <3> QED BY <1>6, <2>1, <3>1, <3>2 DEF RowPath
  <2>3. CASE f # d.file
    <3>1. H[f] = files[f]
      BY <1>11, <2>1, <2>3 DEF RestoreRow
    <3> QED BY <1>5, <2>1, <3>1
  <2> QED BY <2>2, <2>3
<1>12. CASE PurgeRows(p)
  <2>1. f \in DOMAIN files /\ H[f] = files[f]
    BY <1>12 DEF PurgeRows, Shows
  <2> QED BY <1>5, <2>1
<1> QED BY <1>7, <1>8, <1>9, <1>10, <1>11, <1>12

LEMMA IdleStepWhole ==
  ASSUME TreeInv, Tick \/ UNCHANGED vars
  PROVE  TreeInv'
<1>1. UNCHANGED <<folders, files, tree, bin, cmd>>
  BY DEF Tick, vars, rows, disk
<1>2. PICK c : c = cmd[Solo]
  OBVIOUS
<1>3. cmd'[Solo] = c /\ Whole(folders, files, tree, c)
  BY <1>1, <1>2 DEF TreeInv
<1> QED BY <1>1, <1>3 DEF TreeInv, TreePathsOK, Whole

LEMMA FaultWhole ==
  ASSUME StoreInv, FoldersWhole, TreeInv, (\E p \in Procs : StepFails(p)) \/ Crash
  PROVE  TreeInv'
<1> USE DEF FoldersWhole
<1>1. ASSUME NEW p \in Procs, StepFails(p) PROVE TreeInv'
  <2>1. /\ cmd[p].pc \notin Renaming \cup Deleting /\ Done(p)
        /\ UNCHANGED <<folders, files, tree, bin>>
    BY <1>1 DEF StepFails, rows, disk
  <2>2. GoodFolders(folders, files) /\ OnDisk(folders, tree) /\ TreePathsOK
    BY <2>1, WholeBefore
  <2>3. GoodFolders(folders', files') /\ OnDisk(folders', tree') /\ TreePathsOK'
    BY <2>1, <2>2 DEF TreePathsOK
  <2> QED BY <2>1, <2>3, WholeDone
<1>2. CASE Crash
  <2>1. /\ cmd[Solo].pc \notin Renaming \cup Deleting /\ cmd'[Solo] = Idle
        /\ UNCHANGED <<folders, files, tree, bin>>
    BY <1>2, OnlySolo DEF Crash, Busy, rows, disk
  <2>2. GoodFolders(folders, files) /\ OnDisk(folders, tree) /\ TreePathsOK
    BY <2>1, OnlySolo, WholeBefore
  <2>3. Whole(folders', files', tree', Idle)
    BY <2>1, <2>2, IdleIsIdle, IdleWhole
  <2> QED BY <2>1, <2>2, <2>3 DEF TreeInv, TreePathsOK, Whole
<1> QED BY <1>1, <1>2

LEMMA TreeInit == ASSUME Init, OneCareful PROVE TreeInv
<1>1. cmd[Solo] = Idle
  BY OnlySolo DEF Init
<1>2. DOMAIN folders = {} /\ DOMAIN files = {} /\ DOMAIN tree = {<<>>} /\ DOMAIN bin = {<<>>}
  BY DEF Init, EmptyTree
<1>3. GoodFolders(folders, files) /\ OnDisk(folders, tree)
  BY <1>2 DEF GoodFolders, Coherent, Distinct, Closed, Apart, OnDisk
<1>4. <<>> \in TreePaths
  BY DEF TreePaths
<1> QED BY <1>1, <1>2, <1>3, <1>4, IdleIsIdle, IdleWhole DEF TreeInv, TreePathsOK

LEMMA CommandWhole ==
  ASSUME StoreInv, OneCareful, TreeInv, NEW p \in Procs,
         FolderCommand(p) \/ FileCommand(p) \/ BinCommand(p)
  PROVE  TreeInv'
<1>1. CASE FolderCommand(p)
  BY <1>1, FolderStartsWhole, MakeDirWhole, RenameDirWhole, BinDirWhole, InsertFolderWhole,
     FoldersForeseen, BinFilesWhole
  DEF FolderCommand
<1>2. CASE FileCommand(p)
  BY <1>2, FileStartsWhole, MoveDiskWhole, RenameDiskWhole, LinkWhole, CopyOpenWhole,
     BlobStepsWhole, FileRowsWhole
  DEF FileCommand
<1>3. CASE BinCommand(p)
  BY <1>3, BinStartsWhole, BinDiskWhole, RestoreDiskWhole, FileRowsWhole DEF BinCommand
<1> QED BY <1>1, <1>2, <1>3

LEMMA TreeNext ==
  ASSUME StoreInv, TreeInv, FoldersWhole, [Next]_vars
  PROVE  TreeInv'
BY CommandWhole, FaultWhole, IdleStepWhole DEF Next, FoldersWhole

LEMMA TreeGivesCoherence ==
  ASSUME StoreInv, TreeInv, OneCareful
  PROVE  FolderTreeCoherent
<1> SUFFICES ASSUME Quiet, NEW g \in DOMAIN folders
             PROVE  /\ Listed(folders[g].parent)
                    /\ folders[g].path = PathIn(folders[g].parent, folders[g].name)
  BY DEF FolderTreeCoherent
<1>1. cmd[Solo].pc = "idle" /\ Solo \in Procs
  BY OnlySolo DEF Quiet, Busy
<1>2. Coherent(folders)
  BY <1>1, WholeBefore DEF GoodFolders, Renaming, Deleting
<1> QED BY <1>2 DEF Coherent, Has, PathOf, Listed, PathIn, DirOf

\* Between commands every folder's stored disk_path is its parent's followed by its own
\* name and its parent's row exists, however deep the tree, whatever names share a prefix
\* (the LIKE of delete_folder_to_bin takes more than the folder, but always whole
\* subtrees; the REPLACE of rename_folder rewrites what is below the folder and no more),
\* with one command at a time, names that are free, and no fault between the rename on
\* disk and the rows of a folder.
THEOREM FolderPathsCohere == FoldersWhole => (Spec => []FolderTreeCoherent)
<1> SUFFICES ASSUME FoldersWhole PROVE Spec => []FolderTreeCoherent
  OBVIOUS
<1>1. Init => StoreInv /\ TreeInv
  BY StoreInit, TreeInit DEF FoldersWhole
<1>2. StoreInv /\ TreeInv /\ [Next]_vars => (StoreInv /\ TreeInv)'
  BY StoreNext, TreeNext
<1>3. StoreInv /\ TreeInv => FolderTreeCoherent
  BY TreeGivesCoherence DEF FoldersWhole
<1> QED BY <1>1, <1>2, <1>3, PTL DEF Spec
=============================================================================
