------------------------ MODULE SealedChannelProofs -------------------------
(***************************************************************************)
(* Theorems about SealedChannel, for any users, conversations, overlapping *)
(* polls and submits, caps, message and fault bounds.                      *)
(***************************************************************************)
EXTENDS SealedChannel, FiniteSetTheorems, TLAPS

-----------------------------------------------------------------------------
(* The invariant, part by part.                                             *)

LogOK == log \in Seq(Blob) /\ queue \subseteq DOMAIN log /\ saved \cup unsaved \subseteq DOMAIN log
ClientOK ==
  /\ boot \in [Users -> Stages] /\ self \in [Users -> BOOLEAN]
  /\ todo \in [Users -> SUBSET Users]
  /\ faults \in 0..MaxFaults /\ closes \in 0..MaxCloses

\* A message the recipient's side is done with.
Done(m) == m \in saved \/ m \in unsaved \/ ~log[m].opens
QueueOK == \A m \in DOMAIN log : m \in queue \/ Done(m)
SavedOK == \A m \in saved : Kept(m)

\* A poll acknowledges what it has handled, and handles its user's oldest messages in order.
Handled(t) == t.ids \ t.batch
PollOK(u, t) ==
  /\ t.pc \in {"idle", "batch", "ack"} /\ t.batch \subseteq t.ids
  /\ t.pc # "batch" => t.batch = {}
  /\ \A m \in t.ids : m \in DOMAIN log /\ log[m].to = u
  /\ \A m \in Handled(t) : Done(m)
  /\ \A m \in t.ids : \A n \in 1 .. m - 1 : log[n].to = u => n \in t.ids \/ Done(n)

\* The peer's server accepted this text from u.
Reached(u, q, b) == \E m \in DOMAIN log : log[m].to = q /\ log[m].from = u /\ log[m].body = b

\* A submit goes on only once the peer's server has accepted the message.
SendOK(u, t) ==
  /\ t.pc \in {"idle", "toSelf", "reply", "refresh"} /\ t.ids = {} /\ t.batch = {}
  /\ t.pc \in {"toSelf", "reply"} =>
       t.peer \in Users /\ t.body \in Bodies /\ Reached(u, t.peer, t.body)
TasksOK ==
  /\ DOMAIN task = Users /\ \A u \in Users : task[u] \in [Slots(u) -> Task]
  /\ \A u \in Users : \A k \in PollSlots[u] : PollOK(u, task[u][k])
  /\ \A u \in Users : \A k \in SendSlots[u] : SendOK(u, task[u][k])

\* What a user's queue holds as its own, the peer's queue held first.
LogOwn == \A m \in DOMAIN log : Reached(log[m].from, log[m].peer, log[m].body)

\* What a client keeps, in memory and on disk: messages it is done with, and own texts that
\* were accepted for the peer.
History == [Users -> [Users -> Seq(Entry)]]
Ids(s, S) == \A i \in DOMAIN s : s[i].id # 0 => s[i].id \in S
Owned(u, q, s) == \A i \in DOMAIN s : s[i].own => Reached(u, q, s[i].body)
ThreadsOK ==
  /\ threads \in History
  /\ \A u, q \in Users : Ids(threads[u][q], saved \cup unsaved) /\ Owned(u, q, threads[u][q])
StoreOK ==
  /\ store \in History
  /\ \A u, q \in Users : /\ Len(store[u][q]) <= Cap
                         /\ Ids(store[u][q], saved) /\ Owned(u, q, store[u][q])

ChannelInv ==
  /\ LogOK /\ ClientOK /\ ThreadsOK /\ StoreOK /\ QueueOK /\ SavedOK /\ TasksOK /\ LogOwn

-----------------------------------------------------------------------------
(* Constants and sequences.                                                 *)

LEMMA ConstantFacts ==
  /\ Cap \in Nat /\ Cap >= 1 /\ PullMax \in Nat
  /\ MaxLog \in Nat /\ MaxFaults \in Nat /\ MaxCloses \in Nat
  /\ \A u, q : <<u, q>> \in Talks => u \in Users /\ q \in Users
  /\ \A u \in Users : PollSlots[u] \cap SendSlots[u] = {}
BY ChannelAssumption

\* Every entry of s has the id, and every entry the owner and the text, of one of these.
From(s, old, new) ==
  \A i \in DOMAIN s :
    /\ s[i].id = new.id \/ \E j \in DOMAIN old : s[i].id = old[j].id
    /\ \/ s[i].own = new.own /\ s[i].body = new.body
       \/ \E j \in DOMAIN old : s[i].own = old[j].own /\ s[i].body = old[j].body

LEMMA AppendFacts ==
  ASSUME NEW s \in Seq(Entry), NEW e \in Entry
  PROVE  /\ Append(s, e) \in Seq(Entry) /\ Len(Append(s, e)) = Len(s) + 1
         /\ Append(s, e)[Len(s) + 1] = e /\ \A i \in DOMAIN s : Append(s, e)[i] = s[i]
         /\ From(Append(s, e), s, e)
<1>1. /\ Append(s, e) \in Seq(Entry) /\ Len(Append(s, e)) = Len(s) + 1
      /\ Append(s, e)[Len(s) + 1] = e /\ \A i \in DOMAIN s : Append(s, e)[i] = s[i]
      /\ DOMAIN Append(s, e) = 1 .. Len(s) + 1 /\ DOMAIN s = 1 .. Len(s) /\ Len(s) \in Nat
  OBVIOUS
<1>2. \A i \in DOMAIN Append(s, e) : i \in DOMAIN s \/ i = Len(s) + 1
  BY <1>1
<1> QED BY <1>1, <1>2 DEF From

Begins(s, t) == \A i \in DOMAIN s : i \in DOMAIN t /\ t[i] = s[i]

\* A conversation on disk takes one more entry and stays within its cap.
LEMMA TrimFacts ==
  ASSUME NEW s \in Seq(Entry), NEW e \in Entry, Len(s) <= Cap, NEW t, t = Trim(Append(s, e))
  PROVE  /\ t \in Seq(Entry) /\ Len(t) <= Cap /\ From(t, s, e)
         /\ \E i \in DOMAIN t : t[i] = e
         /\ Len(t) = Cap \/ Begins(s, t)
<1> DEFINE a == Append(s, e)
<1>1. /\ a \in Seq(Entry) /\ Len(a) = Len(s) + 1 /\ a[Len(s) + 1] = e
      /\ \A i \in DOMAIN s : a[i] = s[i]
      /\ From(a, s, e)
  BY AppendFacts
<1>2. t = IF Len(a) <= Cap THEN a ELSE Tail(a)
  BY DEF Trim
<1> HIDE DEF a
<1>3. CASE Len(a) <= Cap
  <2>1. Len(s) \in Nat /\ DOMAIN a = 1 .. Len(s) + 1 /\ DOMAIN s = 1 .. Len(s)
    BY <1>1
  <2> QED BY <1>1, <1>2, <1>3, <2>1 DEF Begins
<1>4. CASE ~(Len(a) <= Cap)
  <2>1. t = Tail(a) /\ Len(s) = Cap /\ Len(s) \in Nat
    BY <1>1, <1>2, <1>4, ConstantFacts
  <2>2. /\ t \in Seq(Entry) /\ Len(t) = Cap /\ DOMAIN t = 1 .. Cap
        /\ \A i \in 1 .. Cap : t[i] = a[i + 1] /\ i + 1 \in DOMAIN a
    BY <1>1, <2>1, ConstantFacts
  <2>3. From(t, s, e)
    BY <1>1, <2>2 DEF From
  <2>4. t[Cap] = e /\ Cap \in DOMAIN t
    BY <1>1, <2>1, <2>2, ConstantFacts
  <2> QED BY <2>2, <2>3, <2>4, ConstantFacts
<1> QED BY <1>3, <1>4

\* The bubble of a message is appended, or replaces one with its owner and text.
LEMMA ShownFacts ==
  ASSUME NEW s \in Seq(Entry), NEW e \in Entry, NEW recent
  PROVE  Shown(s, e, recent) \in Seq(Entry) /\ From(Shown(s, e, recent), s, e)
<1> DEFINE match == IF e.own THEN Optimistic(s, e.body, recent) ELSE {}
           c == CHOOSE i \in match : \A j \in match : i <= j
           r == [s EXCEPT ![c].id = e.id]
<1>1. Shown(s, e, recent) = IF match = {} THEN Append(s, e) ELSE r
  BY DEF Shown
<1>2. r \in Seq(Entry) /\ From(r, s, e)
  <2> HIDE DEF c
  <2>1. \A i \in DOMAIN s : s[i] \in Entry
    OBVIOUS
  <2>2. /\ DOMAIN r = DOMAIN s
        /\ \A i \in DOMAIN s : r[i] = IF i = c THEN [s[i] EXCEPT !.id = e.id] ELSE s[i]
    OBVIOUS
  <2>3. \A i \in DOMAIN s : /\ r[i] \in Entry /\ r[i].own = s[i].own /\ r[i].body = s[i].body
                            /\ r[i].id = s[i].id \/ r[i].id = e.id
    BY <2>1, <2>2 DEF Entry
  <2>4. r \in Seq(Entry)
    <3>1. DOMAIN s = 1 .. Len(s) /\ Len(s) \in Nat /\ r = [i \in DOMAIN s |-> r[i]]
      OBVIOUS
    <3> HIDE DEF r
    <3>2. r \in [1 .. Len(s) -> Entry]
      BY <2>3, <3>1
    <3> QED BY <3>1, <3>2
  <2> QED BY <2>2, <2>3, <2>4 DEF From
<1> QED BY <1>1, <1>2, AppendFacts

\* What restoreLocalDMs puts in front are entries of the store.
LEMMA PickedFacts ==
  ASSUME NEW s \in Seq(Entry), NEW K \in SUBSET DOMAIN s, NEW f \in InOrder(K)
  PROVE  /\ [i \in DOMAIN f |-> s[f[i]]] \in Seq(Entry)
         /\ \A i \in DOMAIN f : f[i] \in DOMAIN s
<1>1. IsFiniteSet(K)
  <2>1. DOMAIN s = 1 .. Len(s) /\ 1 \in Int /\ Len(s) \in Int
    OBVIOUS
  <2>2. IsFiniteSet(DOMAIN s)
    BY <2>1, FS_Interval
  <2> QED BY <2>2, FS_Subset
<1>2. Cardinality(K) \in Nat
  BY <1>1, FS_CardinalityType
<1>3. DOMAIN f = 1 .. Cardinality(K) /\ \A i \in DOMAIN f : f[i] \in DOMAIN s
  BY DEF InOrder
<1>4. \A i \in DOMAIN f : s[f[i]] \in Entry
  BY <1>3
<1> QED BY <1>2, <1>3, <1>4

\* Every entry of r is one of s or of t.
MadeOf(r, s, t) ==
  \A i \in DOMAIN r :
    \/ \E j \in DOMAIN s : r[i] = s[j]
    \/ \E j \in DOMAIN t : r[i] = t[j]

LEMMA ConcatFacts ==
  ASSUME NEW s \in Seq(Entry), NEW t \in Seq(Entry)
  PROVE  s \o t \in Seq(Entry) /\ MadeOf(s \o t, s, t)
<1>1. /\ s \o t \in Seq(Entry) /\ DOMAIN (s \o t) = 1 .. Len(s) + Len(t)
      /\ Len(s) \in Nat /\ Len(t) \in Nat /\ DOMAIN s = 1 .. Len(s) /\ DOMAIN t = 1 .. Len(t)
      /\ \A i \in DOMAIN (s \o t) :
           (s \o t)[i] = IF i <= Len(s) THEN s[i] ELSE t[i - Len(s)]
  OBVIOUS
<1>2. \A i \in 1 .. Len(s) + Len(t) : i <= Len(s) => i \in DOMAIN s
  BY <1>1
<1>3. \A i \in 1 .. Len(s) + Len(t) : ~(i <= Len(s)) => i - Len(s) \in DOMAIN t
  BY <1>1
<1> QED BY <1>1, <1>2, <1>3 DEF MadeOf
-----------------------------------------------------------------------------
(* What stays when the log and the history variables grow.                  *)

Extends ==
  /\ \A m \in DOMAIN log : m \in DOMAIN log' /\ log'[m] = log[m]
  /\ saved \subseteq saved' /\ unsaved \subseteq unsaved'

LEMMA SameExtends == UNCHANGED <<log, saved, unsaved>> => Extends
BY DEF Extends

LEMMA DoneStays ==
  ASSUME Extends, NEW m \in DOMAIN log, Done(m)
  PROVE  Done(m)'
BY DEF Extends, Done

LEMMA ReachedStays ==
  ASSUME Extends, NEW u, NEW q, NEW b, Reached(u, q, b)
  PROVE  Reached(u, q, b)'
BY DEF Extends, Reached

LEMMA PollStays ==
  ASSUME LogOK, Extends, NEW u, NEW t, PollOK(u, t), t.ids \subseteq DOMAIN log
  PROVE  PollOK(u, t)'
<1>1. \A m \in Handled(t) : Done(m)'
  BY DoneStays DEF PollOK, Handled
<1>2. ASSUME NEW m \in t.ids, NEW n \in 1 .. m - 1, log'[n].to = u
      PROVE  n \in t.ids \/ Done(n)'
  <2>1. m \in 1 .. Len(log) /\ Len(log) \in Nat /\ DOMAIN log = 1 .. Len(log)
    BY DEF LogOK
  <2>2. n \in DOMAIN log
    BY <2>1
  <2>3. log[n].to = u
    BY <1>2, <2>2 DEF Extends
  <2> QED BY <2>2, <2>3, DoneStays DEF PollOK
<1>3. \A m \in t.ids : m \in DOMAIN log' /\ log'[m].to = u
  BY DEF PollOK, Extends
<1> QED BY <1>1, <1>2, <1>3 DEF PollOK

LEMMA SendStays ==
  ASSUME Extends, NEW u, NEW t, SendOK(u, t)
  PROVE  SendOK(u, t)'
BY ReachedStays DEF SendOK

LEMMA PollIds ==
  ASSUME TasksOK, NEW u \in Users, NEW k \in PollSlots[u]
  PROVE  /\ PollOK(u, task[u][k]) /\ task[u][k].ids \subseteq DOMAIN log
         /\ task[u][k] \in Task /\ k \in Slots(u)
<1>1. PollOK(u, task[u][k])
  BY DEF TasksOK
<1>2. k \in Slots(u) /\ task[u] \in [Slots(u) -> Task]
  BY DEF TasksOK, Slots
<1>3. task[u][k].ids \subseteq DOMAIN log
  BY <1>1 DEF PollOK
<1> QED BY <1>1, <1>2, <1>3

LEMMA TasksFrame == LogOK /\ TasksOK /\ Extends /\ UNCHANGED task => TasksOK'
<1> SUFFICES ASSUME LogOK, TasksOK, Extends, UNCHANGED task PROVE TasksOK'
  OBVIOUS
<1>1. ASSUME NEW u \in Users, NEW k \in PollSlots[u] PROVE PollOK(u, task[u][k])'
  <2>1. PICK t : t = task[u][k]
    OBVIOUS
  <2>2. PollOK(u, t)'
    BY <2>1, PollIds, PollStays
  <2> QED BY <2>1, <2>2 DEF PollOK, Handled
<1>2. ASSUME NEW u \in Users, NEW k \in SendSlots[u] PROVE SendOK(u, task[u][k])'
  <2>1. PICK t : t = task[u][k]
    OBVIOUS
  <2>2. SendOK(u, t)'
    BY <2>1, SendStays DEF TasksOK
  <2> QED BY <2>1, <2>2 DEF SendOK
<1> QED BY <1>1, <1>2 DEF TasksOK, Slots

\* One asynchronous call of one client goes on.
LEMMA TaskStep ==
  ASSUME LogOK, TasksOK, Extends, NEW u \in Users, NEW k \in Slots(u), NEW t \in Task,
         task' = [task EXCEPT ![u][k] = t],
         k \in PollSlots[u] => PollOK(u, t)',
         k \in SendSlots[u] => SendOK(u, t)'
  PROVE  TasksOK'
<1>1. /\ DOMAIN task' = Users
      /\ \A v \in Users : \A j \in Slots(v) :
           task'[v][j] = IF v = u /\ j = k THEN t ELSE task[v][j]
      /\ \A v \in Users : task'[v] \in [Slots(v) -> Task]
  <2>1. /\ DOMAIN task' = Users /\ task'[u] = [task[u] EXCEPT ![k] = t]
        /\ \A v \in Users \ {u} : task'[v] = task[v]
    BY DEF TasksOK
  <2>2. task[u] \in [Slots(u) -> Task]
    BY DEF TasksOK
  <2>3. /\ task'[u] \in [Slots(u) -> Task]
        /\ \A j \in Slots(u) : task'[u][j] = IF j = k THEN t ELSE task[u][j]
    BY <2>1, <2>2
  <2> QED BY <2>1, <2>3 DEF TasksOK
<1>2. ASSUME NEW v \in Users, NEW j \in PollSlots[v] PROVE PollOK(v, task[v][j])'
  <2>1. PICK r : r = task'[v][j]
    OBVIOUS
  <2>2. j \in Slots(v)
    BY DEF Slots
  <2>3. PollOK(v, r)'
    <3>1. CASE v = u /\ j = k
      BY <1>1, <2>1, <2>2, <3>1
    <3>2. CASE ~(v = u /\ j = k)
      <4>1. r = task[v][j]
        BY <1>1, <2>1, <2>2, <3>2
      <4> QED BY <4>1, PollIds, PollStays
    <3> QED BY <3>1, <3>2
  <2> QED BY <2>1, <2>3 DEF PollOK, Handled
<1>3. ASSUME NEW v \in Users, NEW j \in SendSlots[v] PROVE SendOK(v, task[v][j])'
  <2>1. PICK r : r = task'[v][j]
    OBVIOUS
  <2>2. j \in Slots(v)
    BY DEF Slots
  <2>3. SendOK(v, r)'
    <3>1. CASE v = u /\ j = k
      BY <1>1, <2>1, <2>2, <3>1
    <3>2. CASE ~(v = u /\ j = k)
      <4>1. r = task[v][j]
        BY <1>1, <2>1, <2>2, <3>2
      <4> QED BY <4>1, SendStays DEF TasksOK
    <3> QED BY <3>1, <3>2
  <2> QED BY <2>1, <2>3 DEF SendOK
<1> QED BY <1>1, <1>2, <1>3 DEF TasksOK

-----------------------------------------------------------------------------
(* Conversations in memory and on disk.                                     *)

Puts(h, g, u, q, s) == g = [h EXCEPT ![u][q] = s]

LEMMA OneThread ==
  ASSUME NEW h \in History, NEW u \in Users, NEW q \in Users, NEW s \in Seq(Entry),
         NEW g, Puts(h, g, u, q, s)
  PROVE  /\ g \in History /\ g[u][q] = s
         /\ \A v, p \in Users : v # u \/ p # q => g[v][p] = h[v][p]
<1>1. /\ DOMAIN g = Users /\ g[u] = [h[u] EXCEPT ![q] = s]
      /\ \A v \in Users \ {u} : g[v] = h[v] /\ h[u] \in [Users -> Seq(Entry)]
      /\ g = [v \in Users |-> g[v]]
  BY DEF History, Puts
<1>2. h[u] \in [Users -> Seq(Entry)]
  BY DEF History
<1>3. g[u] \in [Users -> Seq(Entry)] /\ \A p \in Users : g[u][p] = IF p = q THEN s ELSE h[u][p]
  BY <1>1, <1>2
<1>4. \A v \in Users : g[v] \in [Users -> Seq(Entry)]
  BY <1>1, <1>3 DEF History
<1>5. g \in History
  BY <1>1, <1>4 DEF History
<1>6. ASSUME NEW v \in Users, NEW p \in Users, v # u \/ p # q PROVE g[v][p] = h[v][p]
  BY <1>1, <1>3, <1>6
<1> QED BY <1>3, <1>5, <1>6

LEMMA ThreadOf ==
  ASSUME LogOK, NEW m \in DOMAIN log
  PROVE  log[m] \in Blob /\ log[m].to \in Users /\ Thread(log[m].to, m) \in Users
<1>1. log[m] \in Blob
  BY DEF LogOK
<1> QED BY <1>1 DEF Blob, Thread

\* What is kept stays kept while the store is not written.
LEMMA KeptFrame ==
  ASSUME LogOK, Extends, UNCHANGED store, NEW m \in DOMAIN log, Kept(m)
  PROVE  Kept(m)'
BY DEF Kept, Thread, Extends

LEMMA SavedFrame ==
  LogOK /\ SavedOK /\ Extends /\ UNCHANGED <<store, saved>> => SavedOK'
BY KeptFrame DEF SavedOK, LogOK

\* One entry is saved: nothing kept is lost, except by the cap.
LEMMA StoreStep ==
  ASSUME LogOK, StoreOK, Extends, NEW u \in Users, NEW q \in Users, NEW e \in Entry,
         store' = Saved(u, q, e)
  PROVE  /\ store' \in History /\ \A v, p \in Users : Len(store'[v][p]) <= Cap
         /\ From(store'[u][q], store[u][q], e)
         /\ \A v, p \in Users : v # u \/ p # q => store'[v][p] = store[v][p]
         /\ \A m \in DOMAIN log : Kept(m) => Kept(m)'
         /\ \E i \in DOMAIN store'[u][q] : store'[u][q][i] = e
<1>1. PICK s \in Seq(Entry) : s = store[u][q] /\ Len(s) <= Cap /\ store \in History
  BY DEF StoreOK, History
<1>t. PICK t : t = Trim(Append(s, e))
  OBVIOUS
<1>2. /\ t \in Seq(Entry) /\ Len(t) <= Cap /\ From(t, s, e)
      /\ \E i \in DOMAIN t : t[i] = e
      /\ Len(t) = Cap \/ Begins(s, t)
  <2>1. Len(s) <= Cap
    BY <1>1
  <2>2. t \in Seq(Entry) /\ Len(t) <= Cap /\ From(t, s, e)
    BY <1>t, <2>1, TrimFacts
  <2>3. \E i \in DOMAIN t : t[i] = e
    BY <1>t, <2>1, TrimFacts
  <2>4. Len(t) = Cap \/ Begins(s, t)
    BY <1>t, <2>1, TrimFacts
  <2> QED BY <2>2, <2>3, <2>4
<1>3. Puts(store, store', u, q, t)
  BY <1>1, <1>t DEF Saved, Puts
<1>4. /\ store' \in History /\ store'[u][q] = t
      /\ \A v, p \in Users : v # u \/ p # q => store'[v][p] = store[v][p]
  BY <1>1, <1>2, <1>3, OneThread
<1>5. ASSUME NEW m \in DOMAIN log, Kept(m) PROVE Kept(m)'
  <2>1. PICK v \in Users : v = log[m].to
    BY ThreadOf
  <2>2. PICK p \in Users : p = Thread(v, m)
    BY <2>1, ThreadOf
  <2>3. log'[m].to = v /\ Thread(v, m)' = p
    BY <2>1, <2>2 DEF Extends, Thread
  <2>4. Has(store[v][p], m) \/ Len(store[v][p]) = Cap
    BY <1>5, <2>1, <2>2 DEF Kept
  <2>5. Has(store'[v][p], m) \/ Len(store'[v][p]) = Cap
    <3>1. CASE v = u /\ p = q
      <4>1. CASE Len(t) = Cap
        BY <1>4, <3>1, <4>1
      <4>2. CASE Begins(s, t)
        <5>1. CASE Has(s, m)
          BY <1>4, <3>1, <4>2, <5>1 DEF Has, Begins
        <5>2. CASE Len(s) = Cap
          <6>1. DOMAIN s = 1 .. Cap /\ DOMAIN t = 1 .. Len(t) /\ Len(t) \in Nat
            BY <1>1, <1>2, <5>2
          <6>2. Cap \in DOMAIN t
            BY <4>2, <6>1, ConstantFacts DEF Begins
          <6>3. Len(t) = Cap
            BY <1>2, <6>1, <6>2, ConstantFacts
          <6> QED BY <1>4, <3>1, <6>3
        <5> QED BY <1>1, <2>4, <3>1, <5>1, <5>2
      <4> QED BY <1>2, <4>1, <4>2
    <3>2. CASE ~(v = u /\ p = q)
      BY <1>4, <2>4, <3>2
    <3> QED BY <3>1, <3>2
  <2> QED BY <2>3, <2>5 DEF Kept
<1>6. \A v, p \in Users : Len(store'[v][p]) <= Cap
  BY <1>2, <1>4 DEF StoreOK
<1> QED BY <1>1, <1>2, <1>4, <1>5, <1>6
LEMMA OwnedStays ==
  ASSUME Extends, NEW u, NEW q, NEW s, Owned(u, q, s)
  PROVE  Owned(u, q, s)'
BY ReachedStays DEF Owned

LEMMA ThreadsFrame == ThreadsOK /\ Extends /\ UNCHANGED threads => ThreadsOK'
<1> SUFFICES ASSUME ThreadsOK, Extends, UNCHANGED threads PROVE ThreadsOK'
  OBVIOUS
<1>1. ASSUME NEW u \in Users, NEW q \in Users
      PROVE  Ids(threads[u][q], saved \cup unsaved)' /\ Owned(u, q, threads[u][q])'
  <2>1. PICK s : s = threads[u][q]
    OBVIOUS
  <2>2. Owned(u, q, s)' /\ Ids(s, saved' \cup unsaved')
    BY <2>1, OwnedStays DEF ThreadsOK, Ids, Extends
  <2> QED BY <2>1, <2>2 DEF Owned, Ids
<1> QED BY <1>1 DEF ThreadsOK

LEMMA ThreadsPut ==
  ASSUME ThreadsOK, Extends, NEW u \in Users, NEW q \in Users, NEW t \in Seq(Entry),
         Puts(threads, threads', u, q, t), Ids(t, saved' \cup unsaved'), Owned(u, q, t)'
  PROVE  ThreadsOK'
<1>1. /\ threads' \in History /\ threads'[u][q] = t
      /\ \A v, p \in Users : v # u \/ p # q => threads'[v][p] = threads[v][p]
  BY OneThread DEF ThreadsOK
<1>2. ASSUME NEW v \in Users, NEW p \in Users
      PROVE  Ids(threads[v][p], saved \cup unsaved)' /\ Owned(v, p, threads[v][p])'
  <2>1. PICK s : s = threads'[v][p]
    OBVIOUS
  <2>2. Owned(v, p, s)' /\ Ids(s, saved' \cup unsaved')
    <3>1. CASE v = u /\ p = q
      BY <1>1, <2>1, <3>1
    <3>2. CASE ~(v = u /\ p = q)
      <4>1. s = threads[v][p]
        BY <1>1, <2>1, <3>2
      <4> QED BY <4>1, OwnedStays DEF ThreadsOK, Ids, Extends
    <3> QED BY <3>1, <3>2
  <2> QED BY <2>1, <2>2 DEF Owned, Ids
<1> QED BY <1>1, <1>2 DEF ThreadsOK

LEMMA ThreadsCleared ==
  ASSUME ThreadsOK, UNCHANGED <<log, saved, unsaved>>, NEW u \in Users, Cleared(u)
  PROVE  ThreadsOK'
<1>1. NoThreads \in [Users -> Seq(Entry)] /\ \A q \in Users : NoThreads[q] = <<>>
  BY DEF NoThreads
<1>2. /\ threads' \in [Users -> [Users -> Seq(Entry)]] /\ threads'[u] = NoThreads
      /\ \A v \in Users \ {u} : threads'[v] = threads[v]
  BY <1>1 DEF Cleared, ThreadsOK, History
<1>3. ASSUME NEW v \in Users, NEW p \in Users
      PROVE  Ids(threads[v][p], saved \cup unsaved)' /\ Owned(v, p, threads[v][p])'
  <2>1. CASE v = u
    BY <1>1, <1>2, <2>1 DEF Ids, Owned
  <2>2. CASE v # u
    <3>1. PICK s : s = threads'[v][p] /\ s = threads[v][p]
      BY <1>2, <2>2
    <3>2. Owned(v, p, s)' /\ Ids(s, saved' \cup unsaved')
      BY <3>1, OwnedStays, SameExtends DEF ThreadsOK, Ids
    <3> QED BY <3>1, <3>2 DEF Owned, Ids
  <2> QED BY <2>1, <2>2
<1> QED BY <1>2, <1>3 DEF ThreadsOK, History

\* A conversation in memory takes one more entry, of a message done with or of a text that
\* the peer's server has accepted.
LEMMA ThreadsEntry ==
  ASSUME ThreadsOK, Extends, NEW u \in Users, NEW q \in Users, NEW e \in Entry,
         NEW t \in Seq(Entry), Puts(threads, threads', u, q, t), From(t, threads[u][q], e),
         e.id # 0 => e.id \in saved' \cup unsaved', e.own => Reached(u, q, e.body)'
  PROVE  ThreadsOK'
<1>1. PICK s : s = threads[u][q]
  OBVIOUS
<1>2. Owned(u, q, s)' /\ Ids(s, saved' \cup unsaved')
  BY <1>1, OwnedStays DEF ThreadsOK, Ids, Extends
<1>3. Ids(t, saved' \cup unsaved')
  BY <1>1, <1>2 DEF From, Ids
<1>4. Owned(u, q, t)'
  <2> SUFFICES ASSUME NEW i \in DOMAIN t, t[i].own PROVE Reached(u, q, t[i].body)'
    BY DEF Owned
  <2>1. CASE t[i].own = e.own /\ t[i].body = e.body
    BY <2>1
  <2>2. CASE \E j \in DOMAIN s : t[i].own = s[j].own /\ t[i].body = s[j].body
    BY <1>2, <2>2 DEF Owned
  <2> QED BY <1>1, <2>1, <2>2 DEF From
<1> QED BY <1>3, <1>4, ThreadsPut

LEMMA StoreFrame == StoreOK /\ Extends /\ UNCHANGED store => StoreOK'
<1> SUFFICES ASSUME StoreOK, Extends, UNCHANGED store PROVE StoreOK'
  OBVIOUS
<1>1. ASSUME NEW u \in Users, NEW q \in Users
      PROVE  /\ Len(store[u][q])' <= Cap
             /\ Ids(store[u][q], saved)' /\ Owned(u, q, store[u][q])'
  <2>1. PICK s : s = store[u][q]
    OBVIOUS
  <2>2. Owned(u, q, s)' /\ Ids(s, saved') /\ Len(s) <= Cap
    BY <2>1, OwnedStays DEF StoreOK, Ids, Extends
  <2> QED BY <2>1, <2>2 DEF Owned, Ids
<1> QED BY <1>1 DEF StoreOK

LEMMA StorePut ==
  ASSUME LogOK, StoreOK, Extends, NEW u \in Users, NEW q \in Users, NEW e \in Entry,
         store' = Saved(u, q, e), e.id # 0 => e.id \in saved', e.own => Reached(u, q, e.body)'
  PROVE  StoreOK'
<1>1. /\ store' \in History /\ \A v, p \in Users : Len(store'[v][p]) <= Cap
      /\ From(store'[u][q], store[u][q], e)
      /\ \A v, p \in Users : v # u \/ p # q => store'[v][p] = store[v][p]
  BY StoreStep
<1>2. ASSUME NEW v \in Users, NEW p \in Users
      PROVE  Ids(store[v][p], saved)' /\ Owned(v, p, store[v][p])'
  <2>1. PICK s, t : s = store[v][p] /\ t = store'[v][p]
    OBVIOUS
  <2>2. Owned(v, p, s)' /\ Ids(s, saved')
    BY <2>1, OwnedStays DEF StoreOK, Ids, Extends
  <2>3. Owned(v, p, t)' /\ Ids(t, saved')
    <3>1. CASE v = u /\ p = q
      <4>1. From(t, s, e)
        BY <1>1, <2>1, <3>1
      <4>2. Ids(t, saved')
        BY <2>2, <4>1 DEF From, Ids
      <4>3. Owned(v, p, t)'
        <5> SUFFICES ASSUME NEW i \in DOMAIN t, t[i].own PROVE Reached(v, p, t[i].body)'
          BY DEF Owned
        <5>1. CASE t[i].own = e.own /\ t[i].body = e.body
          BY <3>1, <5>1
        <5>2. CASE \E j \in DOMAIN s : t[i].own = s[j].own /\ t[i].body = s[j].body
          BY <2>2, <5>2 DEF Owned
        <5> QED BY <4>1, <5>1, <5>2 DEF From
      <4> QED BY <4>2, <4>3
    <3>2. CASE ~(v = u /\ p = q)
      BY <1>1, <2>1, <2>2, <3>2
    <3> QED BY <3>1, <3>2
  <2> QED BY <2>1, <2>3 DEF Owned, Ids
<1> QED BY <1>1, <1>2 DEF StoreOK
-----------------------------------------------------------------------------
(* The steps of a client that writes neither its disk nor the server.       *)

LEMMA Quiet ==
  ASSUME ChannelInv, UNCHANGED <<log, queue, store, saved, unsaved>>,
         ClientOK', ThreadsOK', TasksOK'
  PROVE  ChannelInv'
<1>1. Extends
  BY SameExtends
<1>2. LogOK'
  BY DEF ChannelInv, LogOK
<1>3. StoreOK'
  BY <1>1, StoreFrame DEF ChannelInv
<1>4. QueueOK'
  BY DEF ChannelInv, QueueOK, Done
<1>5. SavedOK'
  BY <1>1, SavedFrame DEF ChannelInv
<1>6. LogOwn'
  BY DEF ChannelInv, LogOwn, Reached
<1> QED BY <1>2, <1>3, <1>4, <1>5, <1>6 DEF ChannelInv

\* One asynchronous call of one client, nothing else.
LEMMA QuietTask ==
  ASSUME ChannelInv, UNCHANGED <<log, queue, store, saved, unsaved>>, ClientOK', ThreadsOK',
         NEW u \in Users, NEW k \in Slots(u), NEW t \in Task,
         task' = [task EXCEPT ![u][k] = t],
         k \in PollSlots[u] => PollOK(u, t)',
         k \in SendSlots[u] => SendOK(u, t)'
  PROVE  ChannelInv'
<1>1. TasksOK'
  BY TaskStep, SameExtends DEF ChannelInv
<1> QED BY <1>1, Quiet

LEMMA FaultCount ==
  ASSUME ClientOK, Ok \/ Fault
  PROVE  faults' \in 0..MaxFaults
BY ConstantFacts DEF ClientOK, Ok, Fault

LEMMA IdleFacts ==
  ASSUME NEW u
  PROVE  Idle \in Task /\ PollOK(u, Idle) /\ SendOK(u, Idle)
BY DEF Idle, Task, PCs, PollOK, SendOK, Handled

LEMMA IdleLater ==
  ASSUME NEW u
  PROVE  PollOK(u, Idle)' /\ SendOK(u, Idle)'
BY DEF Idle, PollOK, SendOK, Handled

LEMMA OpenStep == ASSUME ChannelInv, NEW u \in Users, Open(u) PROVE ChannelInv'
<1>1. Extends
  BY SameExtends DEF Open, server, history
<1>2. ThreadsOK' /\ TasksOK'
  BY <1>1, ThreadsFrame, TasksFrame DEF ChannelInv, Open
<1>3. faults' \in 0..MaxFaults /\ closes' \in 0..MaxCloses
  BY FaultCount DEF ChannelInv, ClientOK, Open
<1>4. self' \in [Users -> BOOLEAN] /\ boot' \in [Users -> Stages]
  BY DEF ChannelInv, ClientOK, Open, Stages
<1>5. todo' \in [Users -> SUBSET Users]
  <2>1. PICK S \in SUBSET Users : todo' = [todo EXCEPT ![u] = S]
    BY DEF Open
  <2> QED BY <2>1 DEF ChannelInv, ClientOK
<1>6. ClientOK'
  BY <1>3, <1>4, <1>5 DEF ClientOK
<1> QED BY <1>2, <1>6, Quiet DEF Open, server, history

LEMMA RestoreStep == ASSUME ChannelInv, NEW u \in Users, Restore(u) PROVE ChannelInv'
<1>1. Extends /\ UNCHANGED <<log, queue, store, saved, unsaved, task>>
  BY SameExtends DEF Restore, server, history
<1>2. PICK q \in todo[u] : /\ \E f \in InOrder(Readable(u, store[u][q])) :
                                threads' = [threads EXCEPT ![u][q] =
                                              [i \in DOMAIN f |-> store[u][q][f[i]]] \o @]
                           /\ todo' = [todo EXCEPT ![u] = @ \ {q}]
  BY DEF Restore
<1>3. q \in Users
  BY DEF ChannelInv, ClientOK
<1>4. ClientOK'
  BY <1>2 DEF ChannelInv, ClientOK, Restore
<1>5. PICK s \in Seq(Entry) : /\ s = store[u][q]
                              /\ Ids(s, saved) /\ Owned(u, q, s)
  BY <1>3 DEF ChannelInv, StoreOK, History
<1>6. PICK old \in Seq(Entry) : /\ old = threads[u][q]
                                /\ Ids(old, saved \cup unsaved) /\ Owned(u, q, old)
  BY <1>3 DEF ChannelInv, ThreadsOK, History
<1>7. PICK f \in InOrder(Readable(u, s)) :
        threads' = [threads EXCEPT ![u][q] = [i \in DOMAIN f |-> s[f[i]]] \o old]
  BY <1>2, <1>3, <1>5, <1>6, ZenonT(40)
<1>8. PICK t : t = [i \in DOMAIN f |-> s[f[i]]]
  OBVIOUS
<1>9. t \in Seq(Entry) /\ \A i \in DOMAIN t : \E j \in DOMAIN s : t[i] = s[j]
  <2>1. Readable(u, s) \in SUBSET DOMAIN s
    BY DEF Readable
  <2>2. [i \in DOMAIN f |-> s[f[i]]] \in Seq(Entry) /\ \A i \in DOMAIN f : f[i] \in DOMAIN s
    BY <2>1, PickedFacts
  <2> QED BY <1>8, <2>2
<1>10. PICK r : r = t \o old
  OBVIOUS
<1>11. r \in Seq(Entry) /\ MadeOf(r, t, old)
  BY <1>9, <1>10, ConcatFacts
<1>12. Ids(r, saved \cup unsaved)
  BY <1>5, <1>6, <1>9, <1>11 DEF Ids, MadeOf
<1>13. Owned(u, q, r)
  <2>1. ASSUME NEW i \in DOMAIN r, r[i].own PROVE Reached(u, q, r[i].body)
    <3>1. CASE \E j \in DOMAIN old : r[i] = old[j]
      BY <1>6, <2>1, <3>1 DEF Owned
    <3>2. CASE \E j \in DOMAIN s : r[i] = s[j]
      BY <1>5, <2>1, <3>2 DEF Owned
    <3> QED BY <1>9, <1>11, <3>1, <3>2 DEF MadeOf
  <2> QED BY <2>1 DEF Owned
<1>14. Puts(threads, threads', u, q, r)
  BY <1>7, <1>8, <1>10 DEF Puts
<1>15. Owned(u, q, r)' /\ Ids(r, saved' \cup unsaved')
  BY <1>1, <1>12, <1>13, OwnedStays
<1>16. ThreadsOK'
  BY <1>1, <1>3, <1>11, <1>14, <1>15, ThreadsPut DEF ChannelInv
<1>17. TasksOK'
  BY <1>1, TasksFrame DEF ChannelInv
<1> QED BY <1>1, <1>4, <1>16, <1>17, Quiet

LEMMA BootRefreshStep == ASSUME ChannelInv, NEW u \in Users, BootRefresh(u) PROVE ChannelInv'
<1>1. UNCHANGED <<log, queue, store, saved, unsaved, task>> /\ Extends
  BY SameExtends DEF BootRefresh, server, history
<1>2. ThreadsOK'
  BY <1>1, ThreadsCleared, ThreadsFrame DEF ChannelInv, BootRefresh
<1>3. faults' \in 0..MaxFaults
  BY FaultCount DEF ChannelInv, BootRefresh
<1>4. ClientOK'
  BY <1>3 DEF ChannelInv, ClientOK, BootRefresh, Stages
<1>5. TasksOK'
  BY <1>1, TasksFrame DEF ChannelInv
<1> QED BY <1>1, <1>2, <1>4, <1>5, Quiet

LEMMA StateChangeStep == ASSUME ChannelInv, NEW u \in Users, StateChange(u) PROVE ChannelInv'
<1>1. UNCHANGED <<log, queue, store, saved, unsaved, task>> /\ Extends
  BY SameExtends DEF StateChange, server, history
<1>2. ThreadsOK'
  BY <1>1, ThreadsCleared DEF ChannelInv, StateChange
<1>3. ClientOK'
  BY DEF ChannelInv, ClientOK, StateChange, client
<1>4. TasksOK'
  BY <1>1, TasksFrame DEF ChannelInv
<1> QED BY <1>1, <1>2, <1>3, <1>4, Quiet

LEMMA NewDMStep == ASSUME ChannelInv, NEW u \in Users, NewDM(u) PROVE ChannelInv'
<1>1. UNCHANGED <<log, queue, store, saved, unsaved, task>> /\ Extends
  BY SameExtends DEF NewDM, server, history
<1>2. ThreadsOK'
  BY <1>1, ThreadsFrame DEF ChannelInv, NewDM
<1>3. ClientOK'
  BY DEF ChannelInv, ClientOK, NewDM
<1>4. TasksOK'
  BY <1>1, TasksFrame DEF ChannelInv
<1> QED BY <1>1, <1>2, <1>3, <1>4, Quiet

LEMMA CloseStep == ASSUME ChannelInv, NEW u \in Users, Close(u) PROVE ChannelInv'
<1>1. UNCHANGED <<log, queue, store, saved, unsaved>> /\ Extends
  BY SameExtends DEF Close, server, history
<1>2. ThreadsOK'
  BY <1>1, ThreadsCleared DEF ChannelInv, Close, Cleared
<1>3. ClientOK'
  BY ConstantFacts DEF ChannelInv, ClientOK, Close, Stages
<1>4. TasksOK'
  <2>1. /\ DOMAIN task' = Users /\ task'[u] = [k \in Slots(u) |-> Idle]
        /\ \A v \in Users \ {u} : task'[v] = task[v]
    BY DEF ChannelInv, TasksOK, Close
  <2>2. \A v \in Users : task'[v] \in [Slots(v) -> Task]
    BY <2>1, IdleFacts DEF ChannelInv, TasksOK
  <2>3. ASSUME NEW v \in Users, NEW k \in PollSlots[v] PROVE PollOK(v, task[v][k])'
    <3>1. PICK r : r = task'[v][k]
      OBVIOUS
    <3>2. PollOK(v, r)'
      <4>1. CASE v = u
        <5>1. r = Idle
          BY <2>1, <3>1, <4>1 DEF Slots
        <5> QED BY <5>1, IdleLater
      <4>2. CASE v # u
        <5>1. r = task[v][k]
          BY <2>1, <3>1, <4>2
        <5> QED BY <1>1, <5>1, PollIds, PollStays DEF ChannelInv
      <4> QED BY <4>1, <4>2
    <3> QED BY <3>1, <3>2 DEF PollOK, Handled
  <2>4. ASSUME NEW v \in Users, NEW k \in SendSlots[v] PROVE SendOK(v, task[v][k])'
    <3>1. PICK r : r = task'[v][k]
      OBVIOUS
    <3>2. SendOK(v, r)'
      <4>1. CASE v = u
        <5>1. r = Idle
          BY <2>1, <3>1, <4>1 DEF Slots
        <5> QED BY <5>1, IdleLater
      <4>2. CASE v # u
        <5>1. r = task[v][k]
          BY <2>1, <3>1, <4>2
        <5> QED BY <1>1, <5>1, SendStays DEF ChannelInv, TasksOK
      <4> QED BY <4>1, <4>2
    <3> QED BY <3>1, <3>2 DEF SendOK
  <2> QED BY <2>1, <2>2, <2>3, <2>4 DEF TasksOK, Slots
<1> QED BY <1>1, <1>2, <1>3, <1>4, Quiet
-----------------------------------------------------------------------------
(* pollChannelOnce.                                                         *)

LEMMA SlotFacts ==
  ASSUME NEW u \in Users
  PROVE  /\ \A k \in PollSlots[u] : k \in Slots(u) /\ k \notin SendSlots[u]
         /\ \A k \in SendSlots[u] : k \in Slots(u) /\ k \notin PollSlots[u]
BY ConstantFacts DEF Slots

\* What the server returns is an initial part of the user's queue.
LEMMA OldestFacts ==
  ASSUME LogOK, NEW S, S \subseteq queue, NEW m \in Oldest(S), NEW n \in S, n < m
  PROVE  n \in Oldest(S)
<1>1. queue \subseteq 1 .. Len(log) /\ Len(log) \in Nat
  BY DEF LogOK
<1>2. IsFiniteSet(1 .. Len(log))
  BY <1>1, FS_Interval
<1> DEFINE A == {x \in S : x <= n}  B == {x \in S : x <= m}
<1>3. A \subseteq B /\ B \subseteq 1 .. Len(log)
  <2>1. m \in S
    BY DEF Oldest
  <2>2. S \subseteq Nat
    BY <1>1
  <2>3. \A x \in S : x <= n => x <= m
    BY <2>1, <2>2
  <2>4. A \subseteq B
    BY <2>3
  <2>5. B \subseteq 1 .. Len(log)
    BY <1>1
  <2> QED BY <2>4, <2>5
<1>4. IsFiniteSet(B)
  BY <1>2, <1>3, FS_Subset
<1>5. IsFiniteSet(A) /\ Cardinality(A) <= Cardinality(B)
  BY <1>3, <1>4, FS_Subset
<1>6. Cardinality(A) \in Nat /\ Cardinality(B) \in Nat
  BY <1>4, <1>5, FS_CardinalityType
<1>7. Cardinality(B) <= PullMax
  BY DEF Oldest
<1>8. Cardinality(A) <= PullMax
  BY <1>5, <1>6, <1>7, ConstantFacts
<1> QED BY <1>8 DEF Oldest

LEMMA PullStep ==
  ASSUME ChannelInv, NEW u \in Users, NEW k \in PollSlots[u], Pull(u, k) PROVE ChannelInv'
<1>1. UNCHANGED <<log, queue, store, saved, unsaved, threads>> /\ Extends
  BY SameExtends DEF Pull, server, history
<1>2. faults' \in 0..MaxFaults
  BY FaultCount DEF ChannelInv, Pull
<1>3. ClientOK'
  BY <1>2 DEF ChannelInv, ClientOK, Pull, client
<1>4. ThreadsOK'
  BY <1>1, ThreadsFrame DEF ChannelInv
<1>5. CASE UNCHANGED task
  <2>1. TasksOK'
    BY <1>1, <1>5, TasksFrame DEF ChannelInv
  <2> QED BY <1>1, <1>3, <1>4, <2>1, Quiet
<1>6. CASE ~UNCHANGED task
  <2> DEFINE O == Oldest(Queued(u))
  <2>1. PICK t : t = [Idle EXCEPT !.pc = "batch", !.ids = O, !.batch = O]
    OBVIOUS
  <2>2. task' = [task EXCEPT ![u][k] = t]
    BY <1>6, <2>1 DEF Pull
  <2>3. O \subseteq queue /\ \A m \in O : log[m].to = u
    BY DEF Oldest, Queued
  <2>4. t.pc = "batch" /\ t.ids = O /\ t.batch = O /\ t.peer = Nil /\ t.body = Nil
    BY <2>1 DEF Idle
  <2>5. queue \subseteq DOMAIN log /\ DOMAIN log \subseteq Nat /\ DOMAIN log = 1 .. Len(log)
    BY DEF ChannelInv, LogOK
  <2>6. t \in Task
    <3> HIDE DEF O
    <3> QED BY <2>1, <2>3, <2>5 DEF Task, Idle, PCs
  <2>7. ASSUME NEW m \in O, NEW n \in 1 .. m - 1, log[n].to = u
        PROVE  n \in O \/ Done(n)
    <3>1. m \in DOMAIN log /\ m \in 1 .. Len(log) /\ Len(log) \in Nat
      BY <2>3, <2>5 DEF ChannelInv, LogOK
    <3>2. n \in DOMAIN log /\ n < m
      BY <2>5, <3>1
    <3>3. CASE n \in queue
      <4>1. n \in Queued(u) /\ Queued(u) \subseteq queue
        BY <2>7, <3>3 DEF Queued
      <4> QED BY <3>2, <4>1, OldestFacts DEF ChannelInv
    <3>4. CASE n \notin queue
      BY <3>2, <3>4 DEF ChannelInv, QueueOK
    <3> QED BY <3>3, <3>4
  <2>8. PollOK(u, t)
    <3> HIDE DEF O
    <3> QED BY <2>3, <2>4, <2>5, <2>7 DEF PollOK, Handled
  <2>9. t.ids \subseteq DOMAIN log
    BY <2>3, <2>4, <2>5
  <2>10. PollOK(u, t)'
    BY <1>1, <2>8, <2>9, PollStays DEF ChannelInv
  <2> QED BY <1>1, <1>3, <1>4, <2>2, <2>6, <2>10, SlotFacts, QuietTask
<1> QED BY <1>5, <1>6

LEMMA AckStep ==
  ASSUME ChannelInv, NEW u \in Users, NEW k \in PollSlots[u], Ack(u, k) PROVE ChannelInv'
<1>1. UNCHANGED <<log, store, saved, unsaved, threads>> /\ Extends
  BY SameExtends DEF Ack, history
<1>2. faults' \in 0..MaxFaults
  BY FaultCount DEF ChannelInv, Ack
<1>3. ClientOK'
  BY <1>2 DEF ChannelInv, ClientOK, Ack, client
<1>4. ThreadsOK' /\ StoreOK'
  BY <1>1, ThreadsFrame, StoreFrame DEF ChannelInv
<1>5. task[u][k].pc = "ack" /\ PollOK(u, task[u][k])
  BY PollIds DEF Ack, Pc, ChannelInv
<1>6. \A m \in task[u][k].ids : Done(m)
  BY <1>5 DEF PollOK, Handled
<1>7. queue' = queue \ task[u][k].ids \/ queue' = queue
  BY DEF Ack
<1>8. LogOK' /\ QueueOK'
  BY <1>1, <1>6, <1>7 DEF ChannelInv, LogOK, QueueOK, Done
<1>9. SavedOK'
  BY <1>1, SavedFrame DEF ChannelInv
<1>10. LogOwn'
  BY <1>1 DEF ChannelInv, LogOwn, Reached
<1>11. TasksOK'
  BY <1>1, IdleFacts, IdleLater, SlotFacts, TaskStep DEF ChannelInv, Ack, Finish
<1> QED BY <1>3, <1>4, <1>8, <1>9, <1>10, <1>11 DEF ChannelInv

\* A message of the batch is done with, whichever way the loop leaves it.
LEMMA NextOfFacts ==
  ASSUME LogOK, TasksOK, Extends, LogOK', UNCHANGED log, NEW u \in Users, NEW k \in PollSlots[u],
         NEW m \in task[u][k].batch, NextOf(u, k, m), Done(m)', Pc(u, k) = "batch"
  PROVE  TasksOK'
<1>1. PICK r : r = task[u][k]
  OBVIOUS
<1>2. PollOK(u, r) /\ r.ids \subseteq DOMAIN log /\ r \in Task /\ k \in Slots(u) /\ k \notin SendSlots[u]
  BY <1>1, PollIds, SlotFacts
<1>3. PICK rest : rest = r.batch \ {m}
  OBVIOUS
<1>4. PICK pc : pc = IF rest = {} THEN "ack" ELSE "batch"
  OBVIOUS
<1>5. PICK t : t = [r EXCEPT !.batch = rest, !.pc = pc]
  OBVIOUS
<1>6. task' = [task EXCEPT ![u][k] = t]
  <2>1. task' = [task EXCEPT ![u][k].batch = rest, ![u][k].pc = pc]
    BY <1>1, <1>3, <1>4 DEF NextOf
  <2>2. DOMAIN task = Users /\ task[u] \in [Slots(u) -> Task]
    BY DEF TasksOK
  <2> QED BY <1>1, <1>2, <1>5, <2>1, <2>2
<1>7. t \in Task /\ t.ids = r.ids /\ t.batch = rest /\ t.pc = pc
  BY <1>2, <1>3, <1>4, <1>5 DEF Task, PCs
<1>8. PollOK(u, r)'
  BY <1>2, PollStays
<1>9. PollOK(u, t)'
  <2>1. \A n \in Handled(t) : n \in Handled(r) \/ n = m
    BY <1>3, <1>7 DEF Handled
  <2>2. \A n \in Handled(t) : Done(n)'
    BY <1>8, <2>1 DEF PollOK, Handled
  <2> QED BY <1>3, <1>4, <1>7, <1>8, <2>2 DEF PollOK, Handled
<1> QED BY <1>2, <1>6, <1>7, <1>9, TaskStep
LEMMA HandleStep ==
  ASSUME ChannelInv, NEW u \in Users, NEW k \in PollSlots[u], Handle(u, k) PROVE ChannelInv'
<1>1. UNCHANGED <<log, queue, boot, self, todo, closes>> /\ Pc(u, k) = "batch"
  BY DEF Handle, server, client
<1>2. PICK m \in task[u][k].batch :
        LET q == Thread(u, m)
            e == [id |-> m, own |-> log[m].from = u, body |-> log[m].body] IN
        /\ \/ /\ ~log[m].opens \/ Has(threads[u][q], m)
              /\ Ok /\ UNCHANGED <<threads, store, history>>
           \/ /\ log[m].opens /\ ~Has(threads[u][q], m)
              /\ \E recent \in 0..Len(threads[u][q]) :
                   threads' = [threads EXCEPT ![u][q] = Shown(@, e, recent)]
              /\ \/ Ok /\ store' = Saved(u, q, e) /\ saved' = saved \cup {m} /\ UNCHANGED unsaved
                 \/ /\ Fault /\ unsaved' = unsaved \cup {m}
                    /\ UNCHANGED <<store, saved>>
        /\ NextOf(u, k, m)
  BY DEF Handle
<1>3. m \in DOMAIN log /\ log[m].to = u
  BY PollIds DEF ChannelInv, PollOK
<1>4. PICK q \in Users : q = Thread(u, m)
  BY <1>3, ThreadOf DEF ChannelInv
<1>5. PICK e : e = [id |-> m, own |-> log[m].from = u, body |-> log[m].body]
  OBVIOUS
<1>6. DOMAIN log \subseteq Nat \ {0} /\ log[m] \in Blob
  BY <1>3 DEF ChannelInv, LogOK
<1>7. e \in Entry /\ e.id = m /\ e.own = (log[m].from = u) /\ e.body = log[m].body
  BY <1>3, <1>5, <1>6 DEF Entry, Blob
<1>8. e.own => Reached(u, q, e.body)
  BY <1>3, <1>4, <1>7 DEF ChannelInv, LogOwn, Thread
<1>9. NextOf(u, k, m)
  BY <1>2
<1>10. CASE UNCHANGED <<threads, store, saved, unsaved, faults>>
            /\ (~log[m].opens \/ Has(threads[u][q], m))
  <2>1. Extends
    BY <1>1, <1>10, SameExtends
  <2>2. LogOK' /\ ClientOK'
    BY <1>1, <1>10 DEF ChannelInv, LogOK, ClientOK
  <2>3. Done(m)
    <3>1. CASE Has(threads[u][q], m)
      <4>1. Ids(threads[u][q], saved \cup unsaved)
        BY DEF ChannelInv, ThreadsOK
      <4> QED BY <1>3, <1>6, <3>1, <4>1 DEF Has, Ids, Done
    <3> QED BY <1>10, <3>1 DEF Done
  <2>4. Done(m)'
    BY <1>3, <2>1, <2>3, DoneStays
  <2>5. TasksOK'
    BY <1>1, <1>9, <2>1, <2>2, <2>4, NextOfFacts DEF ChannelInv
  <2>6. ThreadsOK'
    BY <1>10, <2>1, ThreadsFrame DEF ChannelInv
  <2> QED BY <1>1, <1>10, <2>2, <2>5, <2>6, Quiet
<1>11. CASE /\ \E recent \in 0..Len(threads[u][q]) :
                 threads' = [threads EXCEPT ![u][q] = Shown(@, e, recent)]
            /\ \/ Ok /\ store' = Saved(u, q, e) /\ saved' = saved \cup {m} /\ UNCHANGED unsaved
               \/ Fault /\ unsaved' = unsaved \cup {m} /\ UNCHANGED <<store, saved>>
  <2>1. Extends
    BY <1>1, <1>11 DEF Extends
  <2>2. LogOK'
    BY <1>1, <1>3, <1>11 DEF ChannelInv, LogOK
  <2>3. faults' \in 0..MaxFaults
    BY <1>11, FaultCount DEF ChannelInv
  <2>4. ClientOK'
    BY <1>1, <2>3 DEF ChannelInv, ClientOK
  <2>5. Done(m)' /\ m \in saved' \cup unsaved'
    BY <1>11 DEF Done
  <2>6. TasksOK'
    BY <1>1, <1>9, <2>1, <2>2, <2>5, NextOfFacts DEF ChannelInv
  <2>7. e.own => Reached(u, q, e.body)'
    BY <1>8, <2>1, ReachedStays
  <2>8. ThreadsOK'
    <3>1. PICK s \in Seq(Entry) : s = threads[u][q]
      BY DEF ChannelInv, ThreadsOK, History
    <3>2. PICK recent : threads' = [threads EXCEPT ![u][q] = Shown(@, e, recent)]
      BY <1>11
    <3>3. PICK t : t = Shown(s, e, recent)
      OBVIOUS
    <3>4. t \in Seq(Entry) /\ From(t, s, e)
      BY <1>7, <3>3, ShownFacts
    <3>5. DOMAIN threads = Users /\ threads[u] \in [Users -> Seq(Entry)]
      BY DEF ChannelInv, ThreadsOK, History
    <3>6. threads' = [threads EXCEPT ![u][q] = t]
      BY <3>1, <3>2, <3>3, <3>5
    <3>7. Puts(threads, threads', u, q, t)
      BY <3>6 DEF Puts
    <3>8. e.id # 0 => e.id \in saved' \cup unsaved'
      BY <1>7, <2>5
    <3> QED BY <1>7, <2>1, <2>7, <3>1, <3>4, <3>7, <3>8, ThreadsEntry DEF ChannelInv
  <2>9. QueueOK'
    BY <1>1, <2>1, DoneStays DEF ChannelInv, QueueOK
  <2>10. LogOwn'
    BY <1>1 DEF ChannelInv, LogOwn, Reached
  <2>11. CASE store' = Saved(u, q, e) /\ saved' = saved \cup {m}
    <3>1. StoreOK'
      BY <1>7, <2>1, <2>7, <2>11, StorePut DEF ChannelInv
    <3>2. \A n \in DOMAIN log : Kept(n) => Kept(n)'
      BY <1>7, <2>1, <2>11, StoreStep DEF ChannelInv
    <3>3. \E i \in DOMAIN store'[u][q] : store'[u][q][i] = e
      BY <1>7, <2>1, <2>11, StoreStep DEF ChannelInv
    <3>4. Kept(m)'
      BY <1>1, <1>3, <1>4, <1>7, <3>3 DEF Kept, Has, Thread
    <3>5. saved \subseteq DOMAIN log
      BY DEF ChannelInv, LogOK
    <3>6. SavedOK'
      <4> SUFFICES ASSUME NEW n \in saved' PROVE Kept(n)'
        BY DEF SavedOK
      <4>1. CASE n = m
        BY <3>4, <4>1 DEF Kept, Has, Thread
      <4>2. CASE n \in saved
        <5>1. Kept(n)
          BY <4>2 DEF ChannelInv, SavedOK
        <5> QED BY <3>2, <3>5, <4>2, <5>1
      <4> QED BY <2>11, <4>1, <4>2
    <3> QED BY <2>2, <2>4, <2>6, <2>8, <2>9, <2>10, <3>1, <3>6 DEF ChannelInv
  <2>12. CASE UNCHANGED <<store, saved>>
    <3>1. StoreOK' /\ SavedOK'
      BY <2>1, <2>12, StoreFrame, SavedFrame DEF ChannelInv
    <3> QED BY <2>2, <2>4, <2>6, <2>8, <2>9, <2>10, <3>1 DEF ChannelInv
  <2> QED BY <1>11, <2>11, <2>12
<1>12. \/ UNCHANGED <<threads, store, saved, unsaved, faults>>
          /\ (~log[m].opens \/ Has(threads[u][q], m))
       \/ /\ \E recent \in 0..Len(threads[u][q]) :
                 threads' = [threads EXCEPT ![u][q] = Shown(@, e, recent)]
          /\ \/ Ok /\ store' = Saved(u, q, e) /\ saved' = saved \cup {m} /\ UNCHANGED unsaved
             \/ Fault /\ unsaved' = unsaved \cup {m} /\ UNCHANGED <<store, saved>>
  BY <1>2, <1>4, <1>5 DEF history, Ok
<1> QED BY <1>10, <1>11, <1>12

-----------------------------------------------------------------------------
(* The composer's submit.                                                   *)

\* The server accepts a message whose text is known to reach the peer.
LEMMA AcceptedFacts ==
  ASSUME ChannelInv, NEW u \in Users, NEW q \in Users, NEW b \in Bodies, NEW to \in Users,
         NEW opens, opens \in BOOLEAN, Accepted(u, q, b, to, opens),
         UNCHANGED <<store, saved, unsaved, threads>>, to = q \/ Reached(u, q, b)
  PROVE  /\ Extends /\ Reached(u, q, b)'
         /\ LogOK' /\ QueueOK' /\ SavedOK' /\ LogOwn' /\ StoreOK' /\ ThreadsOK'
<1>1. PICK x : x = [to |-> to, from |-> u, peer |-> q, body |-> b, opens |-> opens]
  OBVIOUS
<1>2. x \in Blob /\ x.to = to /\ x.from = u /\ x.peer = q /\ x.body = b
  BY <1>1 DEF Blob
<1>3. PICK n : n = Len(log) + 1
  OBVIOUS
<1>4. log' = Append(log, x) /\ queue' = queue \cup {n}
  BY <1>1, <1>3 DEF Accepted
<1>5. log \in Seq(Blob)
  BY DEF ChannelInv, LogOK
<1>6. /\ log' \in Seq(Blob) /\ n \in DOMAIN log' /\ log'[n] = x
      /\ DOMAIN log' = DOMAIN log \cup {n}
      /\ \A m \in DOMAIN log : m \in DOMAIN log' /\ log'[m] = log[m]
  <2>1. Append(log, x) \in Seq(Blob) /\ Len(Append(log, x)) = n
    BY <1>2, <1>3, <1>5
  <2>2. Append(log, x)[n] = x /\ \A m \in 1 .. Len(log) : Append(log, x)[m] = log[m]
    BY <1>2, <1>3, <1>5
  <2>3. DOMAIN log = 1 .. Len(log) /\ Len(log) \in Nat /\ DOMAIN Append(log, x) = 1 .. n
    BY <1>5, <2>1
  <2>4. 1 .. n = 1 .. Len(log) \cup {n}
    BY <1>3, <2>3
  <2> QED BY <1>4, <2>1, <2>2, <2>3, <2>4
<1>7. Extends
  BY <1>6 DEF Extends
<1>8. LogOK'
  BY <1>4, <1>6 DEF ChannelInv, LogOK
<1>9. QueueOK'
  BY <1>4, <1>6, <1>7, DoneStays DEF ChannelInv, QueueOK
<1>10. SavedOK' /\ StoreOK' /\ ThreadsOK'
  BY <1>7, SavedFrame, StoreFrame, ThreadsFrame DEF ChannelInv
<1>11. Reached(u, q, b)'
  <2>1. CASE to = q
    BY <1>2, <1>6, <2>1 DEF Reached
  <2>2. CASE Reached(u, q, b)
    BY <1>7, <2>2, ReachedStays
  <2> QED BY <2>1, <2>2
<1>12. LogOwn'
  <2>1. ASSUME NEW m \in DOMAIN log', NEW f, NEW p, NEW d,
               f = log'[m].from, p = log'[m].peer, d = log'[m].body
        PROVE  Reached(f, p, d)'
    <3>1. CASE m = n
      BY <1>2, <1>6, <1>11, <2>1, <3>1
    <3>2. CASE m \in DOMAIN log
      <4>1. Reached(f, p, d)
        BY <1>6, <2>1, <3>2 DEF ChannelInv, LogOwn
      <4> QED BY <1>7, <4>1, ReachedStays
    <3> QED BY <1>6, <3>1, <3>2
  <2> QED BY <2>1 DEF LogOwn, Reached
<1> QED BY <1>7, <1>8, <1>9, <1>10, <1>11, <1>12

LEMMA GotoFacts ==
  ASSUME TasksOK, NEW u \in Users, NEW k \in Slots(u), NEW pc \in PCs, Goto(u, k, pc),
         NEW t, t = [task[u][k] EXCEPT !.pc = pc]
  PROVE  /\ task' = [task EXCEPT ![u][k] = t]
         /\ t \in Task /\ t.pc = pc /\ t.ids = task[u][k].ids /\ t.batch = task[u][k].batch
         /\ t.peer = task[u][k].peer /\ t.body = task[u][k].body
<1>1. PICK r \in Task : r = task[u][k]
  BY DEF TasksOK
<1>2. DOMAIN task = Users /\ task[u] \in [Slots(u) -> Task]
  BY DEF TasksOK
<1>3. task' = [task EXCEPT ![u][k] = t]
  BY <1>2 DEF Goto
<1> QED BY <1>1, <1>3 DEF Task, PCs
LEMMA SubmitStep ==
  ASSUME ChannelInv, NEW u \in Users, NEW k \in SendSlots[u], Submit(u, k) PROVE ChannelInv'
<1>1. UNCHANGED <<boot, self, todo, threads, store, saved, unsaved, closes>>
  BY DEF Submit, client, history
<1>2. PICK q \in Users, b \in Bodies :
        \/ Accepted(u, q, b, q, TRUE) /\ Ok /\ Sent(u, k, q, b)
        \/ Accepted(u, q, b, q, FALSE) /\ Fault /\ Sent(u, k, q, b)
        \/ Accepted(u, q, b, q, TRUE) /\ Fault /\ UNCHANGED task
  BY DEF Submit
<1>3. PICK opens \in BOOLEAN : Accepted(u, q, b, q, opens)
  BY <1>2
<1>4. /\ Extends /\ Reached(u, q, b)'
      /\ LogOK' /\ QueueOK' /\ SavedOK' /\ LogOwn' /\ StoreOK' /\ ThreadsOK'
  BY <1>1, <1>3, AcceptedFacts
<1>5. faults' \in 0..MaxFaults
  BY <1>2, FaultCount DEF ChannelInv
<1>6. ClientOK'
  BY <1>1, <1>5 DEF ChannelInv, ClientOK
<1>7. CASE Sent(u, k, q, b)
  <2>1. PICK pc \in {"toSelf", "reply"} : pc = IF q = u THEN "reply" ELSE "toSelf"
    OBVIOUS
  <2>2. PICK t : t = [Idle EXCEPT !.pc = pc, !.peer = q, !.body = b]
    OBVIOUS
  <2>3. /\ t \in Task /\ t.pc = pc /\ t.ids = {} /\ t.batch = {} /\ t.peer = q /\ t.body = b
    BY <2>1, <2>2 DEF Task, Idle, PCs
  <2>4. SendOK(u, t)'
    BY <1>4, <2>1, <2>3 DEF SendOK
  <2>5. task' = [task EXCEPT ![u][k] = t]
    BY <1>7, <2>1, <2>2 DEF Sent
  <2>6. TasksOK'
    BY <1>4, <2>3, <2>4, <2>5, SlotFacts, TaskStep DEF ChannelInv
  <2> QED BY <1>4, <1>6, <2>6 DEF ChannelInv
<1>8. CASE UNCHANGED task
  <2>1. TasksOK'
    BY <1>4, <1>8, TasksFrame DEF ChannelInv
  <2> QED BY <1>4, <1>6, <2>1 DEF ChannelInv
<1> QED BY <1>2, <1>7, <1>8

\* What a submit carries from the first send to the second.
LEMMA SendFacts ==
  ASSUME TasksOK, NEW u \in Users, NEW k \in SendSlots[u]
  PROVE  SendOK(u, task[u][k]) /\ task[u][k] \in Task /\ k \in Slots(u) /\ k \notin PollSlots[u]
<1>1. k \in Slots(u) /\ k \notin PollSlots[u]
  BY SlotFacts
<1> QED BY <1>1 DEF TasksOK

LEMMA ToSelfStep ==
  ASSUME ChannelInv, NEW u \in Users, NEW k \in SendSlots[u], ToSelf(u, k) PROVE ChannelInv'
<1>1. /\ UNCHANGED <<boot, self, todo, threads, store, saved, unsaved, closes>>
      /\ Pc(u, k) = "toSelf"
  BY DEF ToSelf, client, history
<1>2. PICK r : r = task[u][k]
  OBVIOUS
<1>3. SendOK(u, r) /\ r \in Task /\ k \in Slots(u) /\ k \notin PollSlots[u] /\ r.pc = "toSelf"
  BY <1>1, <1>2, SendFacts DEF ChannelInv, Pc
<1>4. PICK q, b : q = r.peer /\ b = r.body
  OBVIOUS
<1>5. q \in Users /\ b \in Bodies /\ Reached(u, q, b)
  BY <1>3, <1>4 DEF SendOK
<1>6. \/ Accepted(u, q, b, u, TRUE) /\ Ok /\ Goto(u, k, "reply")
      \/ Accepted(u, q, b, u, TRUE) /\ Fault /\ Finish(u, k)
      \/ UNCHANGED server /\ Fault /\ Finish(u, k)
  BY <1>2, <1>4 DEF ToSelf
<1>7. faults' \in 0..MaxFaults
  BY <1>6, FaultCount DEF ChannelInv
<1>8. ClientOK'
  BY <1>1, <1>7 DEF ChannelInv, ClientOK
<1>9. /\ Extends /\ Reached(u, q, b)'
      /\ LogOK' /\ QueueOK' /\ SavedOK' /\ LogOwn' /\ StoreOK' /\ ThreadsOK'
  <2>1. CASE Accepted(u, q, b, u, TRUE)
    BY <1>1, <1>5, <2>1, AcceptedFacts
  <2>2. CASE UNCHANGED server
    <3>1. UNCHANGED <<log, queue>> /\ Extends
      BY <1>1, <2>2, SameExtends DEF server
    <3>2. Reached(u, q, b)'
      BY <1>5, <3>1, ReachedStays
    <3>3. LogOK' /\ QueueOK' /\ LogOwn'
      BY <1>1, <3>1 DEF ChannelInv, LogOK, QueueOK, Done, LogOwn, Reached
    <3>4. SavedOK' /\ StoreOK' /\ ThreadsOK'
      BY <1>1, <3>1, SavedFrame, StoreFrame, ThreadsFrame DEF ChannelInv
    <3> QED BY <3>1, <3>2, <3>3, <3>4
  <2> QED BY <1>6, <2>1, <2>2
<1>10. TasksOK'
  <2>1. CASE Finish(u, k)
    BY <1>3, <1>9, <2>1, IdleFacts, IdleLater, TaskStep DEF ChannelInv, Finish
  <2>2. CASE Goto(u, k, "reply")
    <3>1. PICK t : t = [r EXCEPT !.pc = "reply"]
      OBVIOUS
    <3>2. "reply" \in PCs
      BY DEF PCs
    <3>3. task' = [task EXCEPT ![u][k] = t]
      BY <1>2, <1>3, <2>2, <3>1, <3>2, GotoFacts DEF ChannelInv
    <3>4. /\ t \in Task /\ t.pc = "reply" /\ t.ids = r.ids /\ t.batch = r.batch
          /\ t.peer = q /\ t.body = b
      BY <1>3, <1>4, <3>1, <3>2 DEF Task
    <3>5. SendOK(u, t)'
      BY <1>3, <1>5, <1>9, <3>4 DEF SendOK
    <3> QED BY <1>3, <1>9, <3>3, <3>4, <3>5, TaskStep DEF ChannelInv
  <2> QED BY <1>6, <2>1, <2>2
<1> QED BY <1>8, <1>9, <1>10 DEF ChannelInv

LEMMA ReplyStep ==
  ASSUME ChannelInv, NEW u \in Users, NEW k \in SendSlots[u], Reply(u, k) PROVE ChannelInv'
<1>1. /\ UNCHANGED <<log, queue, boot, self, todo, saved, unsaved, closes>>
      /\ Pc(u, k) = "reply" /\ Extends
  BY SameExtends DEF Reply, client, server, history
<1>2. PICK r : r = task[u][k]
  OBVIOUS
<1>3. SendOK(u, r) /\ r \in Task /\ k \in Slots(u) /\ k \notin PollSlots[u] /\ r.pc = "reply"
  BY <1>1, <1>2, SendFacts DEF ChannelInv, Pc
<1>4. PICK q, b : q = r.peer /\ b = r.body
  OBVIOUS
<1>5. q \in Users /\ b \in Bodies /\ Reached(u, q, b)
  BY <1>3, <1>4 DEF SendOK
<1>6. PICK e : e = [id |-> 0, own |-> TRUE, body |-> b]
  OBVIOUS
<1>7. e \in Entry /\ e.id = 0 /\ e.own /\ e.body = b
  BY <1>5, <1>6 DEF Entry
<1>8. /\ threads' = [threads EXCEPT ![u][q] = Append(@, e)]
      /\ \/ Ok /\ store' = Saved(u, q, e)
         \/ Fault /\ UNCHANGED store
      /\ Goto(u, k, "refresh")
  <2>1. q = task[u][k].peer /\ e = [id |-> 0, own |-> TRUE, body |-> task[u][k].body]
    BY <1>2, <1>4, <1>6
  <2>2. threads' = [threads EXCEPT ![u][q] = Append(@, e)]
    BY <2>1, Zenon DEF Reply
  <2>3. \/ Ok /\ store' = Saved(u, q, e)
        \/ Fault /\ UNCHANGED store
    BY <2>1, Zenon DEF Reply
  <2> QED BY <2>2, <2>3 DEF Reply
<1>9. faults' \in 0..MaxFaults
  BY <1>8, FaultCount DEF ChannelInv
<1>10. ClientOK'
  BY <1>1, <1>9 DEF ChannelInv, ClientOK
<1>11. Reached(u, q, e.body)'
  BY <1>1, <1>5, <1>7, ReachedStays
<1>12. ThreadsOK'
  <2>1. PICK s \in Seq(Entry) : s = threads[u][q]
    BY <1>5 DEF ChannelInv, ThreadsOK, History
  <2>2. PICK t : t = Append(s, e)
    OBVIOUS
  <2>3. t \in Seq(Entry) /\ From(t, s, e)
    BY <1>7, <2>2, AppendFacts
  <2>4. DOMAIN threads = Users /\ threads[u] \in [Users -> Seq(Entry)]
    BY DEF ChannelInv, ThreadsOK, History
  <2>5. Puts(threads, threads', u, q, t)
    BY <1>5, <1>8, <2>1, <2>2, <2>4 DEF Puts
  <2> QED BY <1>1, <1>5, <1>7, <1>11, <2>1, <2>3, <2>5, ThreadsEntry DEF ChannelInv
<1>13. StoreOK' /\ SavedOK'
  <2>1. CASE store' = Saved(u, q, e)
    <3>1. StoreOK'
      BY <1>1, <1>5, <1>7, <1>11, <2>1, StorePut DEF ChannelInv
    <3>2. \A m \in DOMAIN log : Kept(m) => Kept(m)'
      BY <1>1, <1>5, <1>7, <2>1, StoreStep DEF ChannelInv
    <3>3. SavedOK'
      BY <1>1, <3>2 DEF ChannelInv, SavedOK, LogOK
    <3> QED BY <3>1, <3>3
  <2>2. CASE UNCHANGED store
    BY <1>1, <2>2, StoreFrame, SavedFrame DEF ChannelInv
  <2> QED BY <1>8, <2>1, <2>2
<1>14. LogOK' /\ QueueOK' /\ LogOwn'
  BY <1>1 DEF ChannelInv, LogOK, QueueOK, Done, LogOwn, Reached
<1>15. TasksOK'
  <2>1. PICK t : t = [r EXCEPT !.pc = "refresh"]
    OBVIOUS
  <2>2. "refresh" \in PCs
    BY DEF PCs
  <2>3. task' = [task EXCEPT ![u][k] = t]
    BY <1>2, <1>3, <1>8, <2>1, <2>2, GotoFacts DEF ChannelInv
  <2>4. t \in Task /\ t.pc = "refresh" /\ t.ids = r.ids /\ t.batch = r.batch
    BY <1>3, <2>1, <2>2 DEF Task
  <2>5. SendOK(u, t)'
    BY <1>3, <2>4 DEF SendOK
  <2> QED BY <1>1, <1>3, <2>3, <2>4, <2>5, TaskStep DEF ChannelInv
<1> QED BY <1>10, <1>12, <1>13, <1>14, <1>15 DEF ChannelInv

LEMMA SendRefreshStep ==
  ASSUME ChannelInv, NEW u \in Users, NEW k \in SendSlots[u], SendRefresh(u, k)
  PROVE  ChannelInv'
<1>1. UNCHANGED <<log, queue, store, saved, unsaved, boot, self, todo, closes>> /\ Extends
  BY SameExtends DEF SendRefresh, client, server, history
<1>2. ThreadsOK'
  BY <1>1, ThreadsCleared, ThreadsFrame DEF ChannelInv, SendRefresh
<1>3. faults' \in 0..MaxFaults
  BY FaultCount DEF ChannelInv, SendRefresh
<1>4. ClientOK'
  BY <1>1, <1>3 DEF ChannelInv, ClientOK
<1> QED BY <1>1, <1>2, <1>4, IdleFacts, IdleLater, SlotFacts, QuietTask DEF SendRefresh, Finish

-----------------------------------------------------------------------------
(* Theorems.                                                                *)

LEMMA InitInv == Init => ChannelInv
<1> SUFFICES ASSUME Init PROVE ChannelInv
  OBVIOUS
<1>1. log = <<>> /\ DOMAIN log = {} /\ LogOK /\ QueueOK /\ SavedOK /\ LogOwn
  BY DEF Init, LogOK, QueueOK, SavedOK, LogOwn
<1>2. ClientOK
  BY ConstantFacts DEF Init, ClientOK, Stages
<1>3. ThreadsOK /\ StoreOK
  BY ConstantFacts DEF Init, ThreadsOK, StoreOK, History, NoThreads, Ids, Owned
<1>4. TasksOK
  <2>1. \A u \in Users : task[u] \in [Slots(u) -> Task]
    BY IdleFacts DEF Init
  <2>2. ASSUME NEW u \in Users, NEW k \in Slots(u) PROVE task[u][k] = Idle
    BY DEF Init
  <2>3. \A u \in Users : \A k \in PollSlots[u] : PollOK(u, task[u][k])
    BY <2>2, SlotFacts, IdleFacts
  <2>4. \A u \in Users : \A k \in SendSlots[u] : SendOK(u, task[u][k])
    BY <2>2, SlotFacts, IdleFacts
  <2> QED BY <2>1, <2>3, <2>4 DEF TasksOK, Init
<1> QED BY <1>1, <1>2, <1>3, <1>4 DEF ChannelInv

LEMMA StutterInv == ASSUME ChannelInv, UNCHANGED vars PROVE ChannelInv'
<1>1. UNCHANGED <<log, queue, boot, self, todo, threads, store, task, saved, unsaved, faults, closes>>
      /\ Extends
  BY SameExtends DEF vars, history
<1>2. ThreadsOK' /\ TasksOK'
  BY <1>1, ThreadsFrame, TasksFrame DEF ChannelInv
<1>3. ClientOK'
  BY <1>1 DEF ChannelInv, ClientOK
<1> QED BY <1>1, <1>2, <1>3, Quiet

LEMMA NextInv == ChannelInv /\ [Next]_vars => ChannelInv'
<1> SUFFICES ASSUME ChannelInv, [Next]_vars PROVE ChannelInv'
  OBVIOUS
<1>1. CASE UNCHANGED vars
  BY <1>1, StutterInv
<1>2. ASSUME NEW u \in Users, Booting(u) \/ StateChange(u) \/ NewDM(u) \/ Close(u)
      PROVE  ChannelInv'
  BY <1>2, OpenStep, RestoreStep, BootRefreshStep, StateChangeStep, NewDMStep, CloseStep
     DEF Booting
<1>3. ASSUME NEW u \in Users, NEW k \in PollSlots[u], Poll(u, k) PROVE ChannelInv'
  BY <1>3, PullStep, HandleStep, AckStep DEF Poll
<1>4. ASSUME NEW u \in Users, NEW k \in SendSlots[u], Submit(u, k) \/ Send(u, k)
      PROVE  ChannelInv'
  BY <1>4, SubmitStep, ToSelfStep, ReplyStep, SendRefreshStep DEF Send
<1> QED BY <1>1, <1>2, <1>3, <1>4 DEF Next

\* ChannelInv holds in every state: the invariant the theorems below rest on.
THEOREM Inductive == Spec => []ChannelInv
BY InitInv, NextInv, PTL DEF Spec

\* Every variable keeps its type, and a conversation on disk never exceeds its cap.
THEOREM TypeCorrect == Spec => []TypeOK
<1>1. ChannelInv => TypeOK
  <2> SUFFICES ASSUME ChannelInv PROVE TypeOK
    OBVIOUS
  <2>1. DOMAIN log = 1 .. Len(log)
    BY DEF ChannelInv, LogOK
  <2> QED BY <2>1 DEF ChannelInv, LogOK, ClientOK, ThreadsOK, StoreOK, TasksOK, History, TypeOK
<1> QED BY <1>1, Inductive, PTL

\* A message the server accepted and the recipient can open is in the queue until the
\* recipient's disk has it, whatever polls overlap, acknowledgements are lost, clients die or
\* histories are cleared (dm.js:162).
THEOREM NothingIsLost == Spec => []NoLoss
<1>1. ChannelInv => NoLoss
  BY DEF ChannelInv, QueueOK, Done, SavedOK, NoLoss
<1> QED BY <1>1, Inductive, PTL

\* What a client shows or stores as sent was accepted for the peer.
THEOREM OwnTextsWereDelivered == Spec => []OwnMeansDelivered
<1>1. ChannelInv => OwnMeansDelivered
  <2> SUFFICES ASSUME ChannelInv, NEW u \in Users, NEW q \in Users,
                      NEW e \in Range(threads[u][q]) \cup Range(store[u][q]), e.own
               PROVE  Delivered(u, q, e)
    BY DEF OwnMeansDelivered
  <2>1. Owned(u, q, threads[u][q]) /\ Owned(u, q, store[u][q])
    BY DEF ChannelInv, ThreadsOK, StoreOK
  <2>2. Reached(u, q, e.body)
    BY <2>1 DEF Owned, Range
  <2> QED BY <2>2 DEF Reached, Delivered
<1> QED BY <1>1, Inductive, PTL
-----------------------------------------------------------------------------
(* The channel implements the log of Delivery: every step is one of the     *)
(* log's, or leaves it as it is.                                            *)

Addressees(l) == [m \in DOMAIN l |-> l[m].to]
GivenUp == (unsaved \cup {m \in DOMAIN log : ~log[m].opens}) \ saved

LEMMA LogStutters == UNCHANGED <<log, queue, saved, unsaved>> => UNCHANGED Log!vars
BY DEF Log!vars

LEMMA DoneIsSettled ==
  ASSUME NEW m \in DOMAIN log
  PROVE  Done(m) <=> m \in Log!Settled
BY DEF Done, Log!Settled

LEMMA AddresseesAppend ==
  ASSUME NEW s \in Seq(Blob), NEW x \in Blob
  PROVE  /\ Addressees(Append(s, x)) = Append(Addressees(s), x.to)
         /\ Len(Addressees(s)) = Len(s)
<1>1. /\ s \in [1 .. Len(s) -> Blob] /\ Len(s) \in Nat /\ DOMAIN s = 1 .. Len(s)
      /\ DOMAIN Append(s, x) = 1 .. Len(s) + 1
      /\ \A i \in 1 .. Len(s) : Append(s, x)[i] = s[i]
      /\ Append(s, x)[Len(s) + 1] = x
  OBVIOUS
<1>2. PICK a : a = Addressees(s)
  OBVIOUS
<1>3. a \in [1 .. Len(s) -> Users] /\ \A i \in 1 .. Len(s) : a[i] = s[i].to
  BY <1>1, <1>2 DEF Addressees, Blob
<1>4. a \in Seq(Users) /\ Len(a) = Len(s) /\ x.to \in Users
  BY <1>1, <1>3 DEF Blob
<1>5. /\ Append(a, x.to) \in Seq(Users) /\ DOMAIN Append(a, x.to) = 1 .. Len(s) + 1
      /\ \A i \in 1 .. Len(s) : Append(a, x.to)[i] = a[i]
      /\ Append(a, x.to)[Len(s) + 1] = x.to
      /\ Append(a, x.to) = [i \in 1 .. Len(s) + 1 |-> Append(a, x.to)[i]]
  BY <1>4
<1>6. ASSUME NEW i \in 1 .. Len(s) + 1 PROVE Append(s, x)[i].to = Append(a, x.to)[i]
  <2>1. CASE i \in 1 .. Len(s)
    BY <1>1, <1>3, <1>5, <2>1
  <2>2. CASE i = Len(s) + 1
    BY <1>1, <1>5, <2>2
  <2>3. Len(s) \in Nat => i \in 1 .. Len(s) \/ i = Len(s) + 1
    OBVIOUS
  <2> QED BY <1>1, <2>1, <2>2, <2>3
<1>7. Addressees(Append(s, x)) = [i \in 1 .. Len(s) + 1 |-> Append(s, x)[i].to]
  BY <1>1 DEF Addressees
<1>8. Addressees(Append(s, x)) = Append(a, x.to)
  BY <1>5, <1>6, <1>7
<1> QED BY <1>2, <1>4, <1>8

LEMMA AcceptImplements ==
  ASSUME ChannelInv, NEW u \in Users, NEW q \in Users, NEW b \in Bodies, NEW to \in Users,
         NEW opens, opens \in BOOLEAN, Accepted(u, q, b, to, opens), UNCHANGED <<saved, unsaved>>
  PROVE  Log!Next
<1>1. PICK x : x = [to |-> to, from |-> u, peer |-> q, body |-> b, opens |-> opens]
  OBVIOUS
<1>2. x \in Blob /\ x.to = to /\ x.opens = opens
  BY <1>1 DEF Blob
<1>3. PICK n : n = Len(log) + 1
  OBVIOUS
<1>4. log' = Append(log, x) /\ queue' = queue \cup {n}
  BY <1>1, <1>3 DEF Accepted
<1>5. log \in Seq(Blob) /\ saved \subseteq DOMAIN log
  BY DEF ChannelInv, LogOK
<1>6. /\ DOMAIN log' = DOMAIN log \cup {n} /\ n \notin DOMAIN log
      /\ log'[n] = x /\ \A m \in DOMAIN log : log'[m] = log[m]
  <2>1. /\ DOMAIN log = 1 .. Len(log) /\ Len(log) \in Nat
        /\ DOMAIN Append(log, x) = 1 .. n /\ Append(log, x)[n] = x
        /\ \A m \in 1 .. Len(log) : Append(log, x)[m] = log[m]
    BY <1>2, <1>3, <1>5
  <2>2. 1 .. n = 1 .. Len(log) \cup {n} /\ n \notin 1 .. Len(log)
    BY <1>3, <2>1
  <2> QED BY <1>4, <2>1, <2>2
<1>7. GivenUp' = GivenUp \/ GivenUp' = GivenUp \cup {n}
  <2>1. {m \in DOMAIN log' : ~log'[m].opens}
          = {m \in DOMAIN log : ~log[m].opens} \cup (IF opens THEN {} ELSE {n})
    BY <1>2, <1>6
  <2> QED BY <1>5, <1>6, <2>1 DEF GivenUp
<1>8. Addressees(log') = Append(Addressees(log), to) /\ Len(Addressees(log)) = Len(log)
  BY <1>2, <1>4, <1>5, AddresseesAppend
<1>9. Log!Accept(to)
  BY <1>3, <1>4, <1>7, <1>8 DEF Log!Accept, Addressees, GivenUp
<1> QED BY <1>9 DEF Log!Next

\* A poll handles its user's messages in the order in which they were accepted.
LEMMA HandlesInTurn ==
  ASSUME ChannelInv, NEW u \in Users, NEW k \in PollSlots[u], NEW m \in task[u][k].batch,
         \A n \in task[u][k].batch : m <= n
  PROVE  m \in DOMAIN log /\ log[m].to = u /\ Log!InTurn(m)
<1>1. PICK t : t = task[u][k]
  OBVIOUS
<1>2. PollOK(u, t) /\ t.ids \subseteq DOMAIN log
  BY <1>1, PollIds DEF ChannelInv
<1>3. m \in t.ids /\ m \in DOMAIN log /\ log[m].to = u
  BY <1>1, <1>2 DEF PollOK
<1>4. DOMAIN log = 1 .. Len(log) /\ Len(log) \in Nat
  BY DEF ChannelInv, LogOK
<1>5. ASSUME NEW n \in 1 .. m - 1, log[n].to = log[m].to PROVE n \in Log!Settled
  <2>1. n \in DOMAIN log /\ n < m
    BY <1>3, <1>4
  <2>2. n \notin t.batch
    BY <1>1, <1>3, <1>4, <2>1
  <2>3. n \in t.ids \/ Done(n)
    BY <1>2, <1>3, <1>5 DEF PollOK
  <2>4. Done(n)
    BY <1>2, <2>2, <2>3 DEF PollOK, Handled
  <2> QED BY <2>1, <2>4, DoneIsSettled
<1>6. \A n \in 1 .. m - 1 : n \in DOMAIN log
  BY <1>3, <1>4
<1> QED BY <1>3, <1>5, <1>6 DEF Log!InTurn

LEMMA HandleImplements ==
  ASSUME ChannelInv, NEW u \in Users, NEW k \in PollSlots[u], Handle(u, k)
  PROVE  Log!Next \/ UNCHANGED Log!vars
<1>1. PICK m \in task[u][k].batch :
        /\ \A n \in task[u][k].batch : m <= n
        /\ \/ UNCHANGED history
           \/ log[m].opens /\ saved' = saved \cup {m} /\ UNCHANGED unsaved
           \/ log[m].opens /\ unsaved' = unsaved \cup {m} /\ UNCHANGED saved
  BY DEF Handle
<1>2. UNCHANGED <<log, queue>>
  BY DEF Handle, server
<1>3. m \in DOMAIN log /\ log[m].to = u /\ Log!InTurn(m)
  BY <1>1, HandlesInTurn
<1>4. m \in queue \/ Done(m)
  BY <1>3 DEF ChannelInv, QueueOK
<1>5. CASE UNCHANGED history
  BY <1>2, <1>5, LogStutters DEF history
<1>6. CASE log[m].opens /\ saved' = saved \cup {m} /\ UNCHANGED unsaved
  <2>1. CASE m \in saved
    BY <1>2, <1>6, <2>1, LogStutters
  <2>2. CASE m \notin saved
    <3>1. m \in queue \cup GivenUp
      BY <1>3, <1>4, <1>6, <2>2 DEF Done, GivenUp
    <3>2. GivenUp' = GivenUp \ {m}
      BY <1>2, <1>6 DEF GivenUp
    <3>3. Log!Take(m)
      BY <1>2, <1>3, <1>6, <2>2, <3>1, <3>2 DEF Log!Take, GivenUp
    <3> QED BY <1>3, <3>3 DEF Log!Next
  <2> QED BY <2>1, <2>2
<1>7. CASE log[m].opens /\ unsaved' = unsaved \cup {m} /\ UNCHANGED saved
  <2>1. CASE m \in saved \cup unsaved
    <3>1. GivenUp' = GivenUp
      BY <1>2, <1>7, <2>1 DEF GivenUp
    <3> QED BY <1>2, <1>7, <3>1 DEF Log!vars, GivenUp
  <2>2. CASE m \notin saved \cup unsaved
    <3>1. ~Done(m) /\ m \in queue
      BY <1>4, <1>7, <2>2 DEF Done
    <3>2. m \notin Log!Settled
      BY <1>3, <3>1, DoneIsSettled
    <3>3. GivenUp' = GivenUp \cup {m}
      BY <1>2, <1>7, <2>2 DEF GivenUp
    <3>4. Log!GiveUp(m)
      BY <1>2, <1>3, <1>7, <3>1, <3>2, <3>3 DEF Log!GiveUp, GivenUp
    <3> QED BY <1>3, <3>4 DEF Log!Next
  <2> QED BY <2>1, <2>2
<1> QED BY <1>1, <1>5, <1>6, <1>7

LEMMA AckImplements ==
  ASSUME ChannelInv, NEW u \in Users, NEW k \in PollSlots[u], Ack(u, k)
  PROVE  Log!Next
<1>1. UNCHANGED <<log, saved, unsaved>>
  BY DEF Ack, history
<1>2. queue' = queue \ task[u][k].ids \/ queue' = queue
  BY DEF Ack
<1>3. task[u][k].pc = "ack" /\ PollOK(u, task[u][k])
  BY PollIds DEF Ack, Pc, ChannelInv
<1>4. ASSUME NEW m \in task[u][k].ids
      PROVE  m \in DOMAIN log /\ log[m].to = u /\ m \in Log!Settled
  <2>1. m \in DOMAIN log /\ log[m].to = u /\ Done(m)
    BY <1>3 DEF PollOK, Handled
  <2> QED BY <2>1, DoneIsSettled
<1>5. Log!Release(u)
  BY <1>1, <1>2, <1>4 DEF Log!Release
<1> QED BY <1>5 DEF Log!Next

LEMMA SendImplements ==
  ASSUME ChannelInv, NEW u \in Users, NEW k \in SendSlots[u], Submit(u, k) \/ ToSelf(u, k)
  PROVE  Log!Next \/ UNCHANGED Log!vars
<1>1. UNCHANGED <<saved, unsaved>>
  BY DEF Submit, ToSelf, history
<1>2. CASE Submit(u, k)
  <2>1. PICK q \in Users, b \in Bodies, opens \in BOOLEAN : Accepted(u, q, b, q, opens)
    BY <1>2 DEF Submit
  <2> QED BY <1>1, <2>1, AcceptImplements
<1>3. CASE ToSelf(u, k)
  <2>1. PICK q, b : q = task[u][k].peer /\ b = task[u][k].body
    OBVIOUS
  <2>2. Accepted(u, q, b, u, TRUE) \/ UNCHANGED server
    BY <1>3, <2>1 DEF ToSelf
  <2>3. q \in Users /\ b \in Bodies
    BY <1>3, <2>1, SendFacts DEF ChannelInv, SendOK, ToSelf, Pc
  <2> QED BY <1>1, <2>2, <2>3, AcceptImplements, LogStutters DEF server
<1> QED BY <1>2, <1>3

\* The whole channel, with overlapping polls, lost acknowledgements and clients that die, is
\* an implementation of the log: messages are taken in the order of acceptance, at least
\* once, and the server forgets one only after it was taken or could not be.
THEOREM ImplementsLog == Spec => LogImplemented
<1>1. Init => Log!Init
  BY DEF Init, Log!Init
<1>2. ChannelInv /\ [Next]_vars => [Log!Next]_(Log!vars)
  <2> SUFFICES ASSUME ChannelInv, [Next]_vars PROVE Log!Next \/ UNCHANGED Log!vars
    OBVIOUS
  <2>1. CASE UNCHANGED vars
    BY <2>1, LogStutters DEF vars, server, history
  <2>2. ASSUME NEW u \in Users, Booting(u) \/ StateChange(u) \/ NewDM(u) \/ Close(u)
        PROVE  UNCHANGED Log!vars
    BY <2>2, LogStutters
       DEF Booting, Open, Restore, BootRefresh, StateChange, NewDM, Close, server, history
  <2>3. ASSUME NEW u \in Users, NEW k \in PollSlots[u], Poll(u, k)
        PROVE  Log!Next \/ UNCHANGED Log!vars
    <3>1. CASE Pull(u, k)
      BY <3>1, LogStutters DEF Pull, server, history
    <3> QED BY <2>3, <3>1, HandleImplements, AckImplements DEF Poll
  <2>4. ASSUME NEW u \in Users, NEW k \in SendSlots[u], Submit(u, k) \/ Send(u, k)
        PROVE  Log!Next \/ UNCHANGED Log!vars
    <3>1. CASE Reply(u, k) \/ SendRefresh(u, k)
      BY <3>1, LogStutters DEF Reply, SendRefresh, server, history
    <3> QED BY <2>4, <3>1, SendImplements DEF Send
  <2> QED BY <2>1, <2>2, <2>3, <2>4 DEF Next
<1> QED BY <1>1, <1>2, Inductive, PTL DEF Spec, LogImplemented, Log!Spec
=============================================================================
