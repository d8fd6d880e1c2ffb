------------------------ MODULE KeyDirectoryProofs --------------------------
(***************************************************************************)
(* Theorems about KeyDirectory, for every number of places, of overlapping *)
(* lookups and of published keys, and every life of a cache entry.         *)
(***************************************************************************)
EXTENDS KeyDirectory, TLAPS

\* A key that is served somewhere, or not yet published, has not begun to age.
ServedIsNew ==
  \A k \in Keys : k > newest \/ (\E n \in Places : served[n] = k) => gone[k] = 0

\* What a lookup under way may hold: nothing while it asks; after an answer a key that was
\* served when it came, so that it has aged by no more than the tick the lookup may see; and
\* when it reports, a key that is older by at most the life of a cache entry.
Late(c) == IF call[c].late THEN 1 ELSE 0
CallIsRecent(c) ==
  /\ call[c].pc = "ask" => call[c].key = None
  /\ call[c].pc = "store" => call[c].key \in Keys /\ gone[call[c].key] <= Late(c)
  /\ call[c].pc = "answer" /\ call[c].key # None => gone[call[c].key] <= Ttl + Late(c)
CallsAreRecent == \A c \in Lookups : CallIsRecent(c)

\* An entry was dated at most one tick after its key was last served.
EntryIsDated == entry # Nil => gone[entry.key] <= entry.age + 1

\* The inductive invariant.
AgeInv == TypeOK /\ ServedIsNew /\ CallsAreRecent /\ EntryIsDated

Call == [pc : {"idle", "ask", "store", "answer"}, place : Places,
         key : Keys \cup {None}, late : BOOLEAN, heard : BOOLEAN]

-----------------------------------------------------------------------------
(* Lemmas about the parts of the state.                                     *)

LEMMA NoneIsNoKey == None \notin Keys /\ Keys \subseteq Nat
BY DirectoryAssumption DEF Keys

LEMMA IdleIsRecent ==
  /\ Idle \in Call /\ Idle.pc = "idle" /\ Idle.key = None /\ Idle.late = FALSE /\ Idle.place = 1
BY DirectoryAssumption DEF Idle, Call

\* A step that changes one call and none of the ages keeps CallsAreRecent if the call it
\* leaves is recent.
LEMMA PutStep ==
  ASSUME TypeOK, CallsAreRecent, UNCHANGED gone, NEW c \in Lookups, NEW r \in Call, Put(c, r),
         r.pc = "ask" => r.key = None,
         r.pc = "store" => r.key \in Keys /\ gone[r.key] <= IF r.late THEN 1 ELSE 0,
         r.pc = "answer" /\ r.key # None => gone[r.key] <= Ttl + (IF r.late THEN 1 ELSE 0)
  PROVE  call' \in [Lookups -> Call] /\ CallsAreRecent'
<1>1. call' \in [Lookups -> Call]
  BY DEF TypeOK, Put, Call
<1>2. ASSUME NEW d \in Lookups PROVE CallIsRecent(d)'
  <2>1. CASE d = c
    <3>1. call'[d] = r
      BY <2>1 DEF TypeOK, Put
    <3> QED BY <3>1 DEF CallIsRecent, Late
  <2>2. CASE d # c
    <3>1. call'[d] = call[d]
      BY <2>2 DEF TypeOK, Put
    <3> QED BY <3>1 DEF CallsAreRecent, CallIsRecent, Late
  <2> QED BY <2>1, <2>2
<1> QED BY <1>1, <1>2 DEF CallsAreRecent

\* Ageing to a limit.
LEMMA OlderFacts ==
  ASSUME NEW m \in Nat, NEW n \in 0 .. m
  PROVE  /\ Older(n, m) \in 0 .. m /\ Older(n, m) <= n + 1
         /\ Older(n, m) = n + 1 \/ Older(n, m) = m
BY DEF Older

-----------------------------------------------------------------------------
(* The steps.                                                               *)

LEMMA InitHolds == Init => AgeInv
<1> SUFFICES ASSUME Init PROVE AgeInv
  OBVIOUS
<1>1. TypeOK
  BY DirectoryAssumption, IdleIsRecent DEF Init, TypeOK, Keys, Call
<1>2. ServedIsNew /\ EntryIsDated
  BY DEF Init, ServedIsNew, EntryIsDated
<1>3. CallsAreRecent
  BY IdleIsRecent DEF Init, CallsAreRecent, CallIsRecent
<1> QED BY <1>1, <1>2, <1>3 DEF AgeInv

LEMMA PublishStep == AgeInv /\ Publish => AgeInv'
<1> SUFFICES ASSUME AgeInv, Publish PROVE AgeInv'
  OBVIOUS
<1> USE DEF AgeInv
<1>1. newest + 1 \in Keys /\ newest \in Nat
  BY DirectoryAssumption DEF TypeOK, Publish, Keys
<1>2. TypeOK'
  BY <1>1 DEF TypeOK, Publish
<1>3. ServedIsNew'
  <2> SUFFICES ASSUME NEW k \in Keys, k > newest' \/ \E n \in Places : served'[n] = k
               PROVE  gone[k] = 0
    BY DEF ServedIsNew, Publish
  <2>1. k > newest \/ \E n \in Places : served[n] = k
    BY <1>1, NoneIsNoKey DEF TypeOK, Publish
  <2> QED BY <2>1 DEF ServedIsNew
<1>4. CallsAreRecent' /\ EntryIsDated'
  BY DEF Publish, CallsAreRecent, CallIsRecent, Late, EntryIsDated
<1> QED BY <1>2, <1>3, <1>4

LEMMA TickStep == AgeInv /\ Tick => AgeInv'
<1> SUFFICES ASSUME AgeInv, Tick PROVE AgeInv'
  OBVIOUS
<1> USE DEF AgeInv
<1>1. Ttl \in Nat /\ gone \in [Keys -> 0 .. Ttl + 2]
  BY DirectoryAssumption DEF TypeOK
<1>2. \A k \in Keys : gone'[k] \in 0 .. Ttl + 2 /\ gone'[k] <= gone[k] + 1
  <2> TAKE k \in Keys
  <2>1. gone[k] \in 0 .. Ttl + 2 /\ Ttl + 2 \in Nat
    BY <1>1
  <2>2. gone'[k] = 0 \/ gone'[k] = Older(gone[k], Ttl + 2)
    BY DEF Tick
  <2>3. Older(gone[k], Ttl + 2) \in 0 .. Ttl + 2 /\ Older(gone[k], Ttl + 2) <= gone[k] + 1
    BY <2>1, OlderFacts
  <2> QED BY <1>1, <2>1, <2>2, <2>3
<1>3. gone' \in [Keys -> 0 .. Ttl + 2]
  BY <1>2 DEF Tick
<1>4. entry # Nil => /\ entry.age \in 0 .. Ttl + 1 /\ entry.key \in Keys
                     /\ entry' = [entry EXCEPT !.age = Older(entry.age, Ttl + 1)]
                     /\ entry'.age = Older(entry.age, Ttl + 1) /\ entry'.key = entry.key
  BY DEF Tick, TypeOK
<1>5. \A c \in Lookups : /\ call'[c] = [call[c] EXCEPT !.late = call[c].pc # "idle"]
                         /\ call[c] \in Call /\ call'[c] \in Call /\ ~call[c].late
                         /\ call'[c].pc = call[c].pc /\ call'[c].key = call[c].key
                         /\ call'[c].late = (call[c].pc # "idle")
  BY DEF Tick, TypeOK, Call
<1>6. TypeOK'
  <2>1. entry' \in [key : Keys, age : 0 .. Ttl + 1] \cup {Nil}
    <3>1. Ttl + 1 \in Nat
      BY <1>1
    <3>2. CASE entry = Nil
      BY <3>2 DEF Tick
    <3>3. CASE entry # Nil
      BY <3>3, <3>1, <1>4, OlderFacts DEF TypeOK
    <3> QED BY <3>2, <3>3
  <2>2. call' \in [Lookups -> Call]
    BY <1>5 DEF Tick
  <2> QED BY <2>1, <2>2, <1>3 DEF TypeOK, Tick, Call
<1>7. ServedIsNew'
  BY DEF ServedIsNew, Tick
<1>8. CallsAreRecent'
  <2> SUFFICES ASSUME NEW c \in Lookups PROVE CallIsRecent(c)'
    BY DEF CallsAreRecent
  <2>1. CallIsRecent(c) /\ Late(c) = 0
    BY <1>5 DEF CallsAreRecent, Late
  <2>2. call[c].pc # "idle" => Late(c)' = 1
    BY <1>5 DEF Late
  <2>3. call[c].key \in Keys \cup {None}
    BY <1>5 DEF Call
  <2>4. /\ call'[c].pc = "ask" => call'[c].key = None
        /\ call'[c].pc = "store" => call'[c].key \in Keys
    BY <2>1, <1>5 DEF CallIsRecent
  <2>5. call[c].pc = "store" => gone'[call[c].key] <= Late(c)'
    BY <2>1, <2>2, <1>1, <1>2 DEF CallIsRecent
  <2>6. call[c].pc = "answer" /\ call[c].key # None => gone'[call[c].key] <= Ttl + Late(c)'
    BY <2>1, <2>2, <2>3, <1>1, <1>2 DEF CallIsRecent
  <2> QED BY <2>4, <2>5, <2>6, <1>5 DEF CallIsRecent
<1>9. EntryIsDated'
  <2> SUFFICES ASSUME entry' # Nil PROVE gone'[entry'.key] <= entry'.age + 1
    BY DEF EntryIsDated
  <2>1. entry # Nil
    BY DEF Tick
  <2>2. gone[entry.key] <= entry.age + 1
    BY <2>1 DEF EntryIsDated
  <2>3. Ttl + 1 \in Nat
    BY <1>1
  <2>4. entry'.age = entry.age + 1 \/ entry'.age = Ttl + 1
    BY <1>4, <2>1, <2>3, OlderFacts
  <2> QED BY <1>1, <1>2, <1>4, <2>1, <2>2, <2>4
<1> QED BY <1>6, <1>7, <1>8, <1>9

LEMMA LookupStep ==
  ASSUME AgeInv, NEW c \in Lookups, Lookup(c)
  PROVE  AgeInv'
<1> USE DEF AgeInv
<1>1. CASE Fresh
  <2> DEFINE r == [Idle EXCEPT !.pc = "answer", !.key = entry.key]
  <2>1. entry.key \in Keys /\ entry.age \in Nat /\ entry.age < Ttl /\ gone[entry.key] <= Ttl
    BY <1>1, DirectoryAssumption DEF Fresh, TypeOK, EntryIsDated
  <2>2. r \in Call /\ r.pc = "answer" /\ r.key = entry.key /\ r.late = FALSE
    BY <2>1, IdleIsRecent DEF Call
  <2>3. Put(c, r)
    BY <1>1 DEF Lookup
  <2>4. call' \in [Lookups -> Call] /\ CallsAreRecent'
    <3> HIDE DEF r
    <3>1. Ttl \in Nat /\ gone[r.key] <= Ttl + (IF r.late THEN 1 ELSE 0)
      BY <2>1, <2>2, DirectoryAssumption
    <3> QED BY <2>2, <2>3, <3>1, PutStep DEF Lookup
  <2> QED BY <2>4 DEF Lookup, TypeOK, Call, ServedIsNew, EntryIsDated
<1>2. CASE ~Fresh
  <2> DEFINE r == [Idle EXCEPT !.pc = "ask"]
  <2>2. r \in Call /\ r.pc = "ask" /\ r.key = None
    BY IdleIsRecent DEF Call
  <2>3. Put(c, r)
    BY <1>2 DEF Lookup
  <2>4. call' \in [Lookups -> Call] /\ CallsAreRecent'
    BY <2>2, <2>3, PutStep DEF Lookup
  <2> QED BY <2>4 DEF Lookup, TypeOK, Call, ServedIsNew, EntryIsDated
<1> QED BY <1>1, <1>2

LEMMA AskStep ==
  ASSUME AgeInv, NEW c \in Lookups, Ask(c)
  PROVE  AgeInv'
<1> USE DEF AgeInv
<1> DEFINE n == call[c].place
<1>1. call[c] \in Call /\ call[c].key = None /\ n \in Places /\ n \in Nat
  BY DirectoryAssumption DEF TypeOK, Call, Ask, CallsAreRecent, CallIsRecent
<1>2. faults' \in 0 .. MaxFaults
  BY DirectoryAssumption DEF Ask, Fault, TypeOK
<1>3. call' \in [Lookups -> Call] /\ CallsAreRecent'
  <2>1. CASE served[n] # 0 /\ Put(c, [call[c] EXCEPT !.pc = "store", !.key = served[n]])
    <3> DEFINE r == [call[c] EXCEPT !.pc = "store", !.key = served[n]]
    <3>1. served[n] \in Keys /\ gone[served[n]] = 0
      BY <1>1, <2>1 DEF TypeOK, ServedIsNew
    <3>2. r \in Call /\ r.pc = "store" /\ r.key = served[n]
      BY <1>1, <3>1 DEF Call
    <3>3. Put(c, r)
      BY <2>1
    <3> HIDE DEF r
    <3>4. r.key \in Keys /\ gone[r.key] <= IF r.late THEN 1 ELSE 0
      BY <3>1, <3>2
    <3> QED BY <3>2, <3>3, <3>4, PutStep DEF Ask
  <2>2. CASE n + 1 \in Places /\ Put(c, [call[c] EXCEPT !.place = n + 1])
    <3> DEFINE r == [call[c] EXCEPT !.place = n + 1]
    <3>1. r \in Call /\ r.pc = "ask" /\ r.key = None
      BY <1>1, <2>2 DEF Call, Ask
    <3> HIDE DEF r
    <3> QED BY <2>2, <3>1, PutStep DEF Ask, r
  <2>3. CASE Put(c, [call[c] EXCEPT !.pc = "answer"])
    <3> DEFINE r == [call[c] EXCEPT !.pc = "answer"]
    <3>1. r \in Call /\ r.pc = "answer" /\ r.key = None
      BY <1>1 DEF Call
    <3> HIDE DEF r
    <3> QED BY <2>3, <3>1, PutStep DEF Ask, r
  <2> QED BY <2>1, <2>2, <2>3 DEF Ask
<1> QED BY <1>2, <1>3 DEF Ask, TypeOK, Call, ServedIsNew, EntryIsDated

LEMMA StoreStep ==
  ASSUME AgeInv, NEW c \in Lookups, Store(c)
  PROVE  AgeInv'
<1> USE DEF AgeInv
<1> DEFINE r == [call[c] EXCEPT !.pc = "answer"]
<1>1. /\ call[c] \in Call /\ call[c].key \in Keys /\ call[c].late \in BOOLEAN
      /\ gone[call[c].key] <= Late(c) /\ Late(c) \in {0, 1}
  BY DEF TypeOK, Call, Store, CallsAreRecent, CallIsRecent, Late
<1>2. r \in Call /\ r.pc = "answer" /\ r.key = call[c].key /\ r.late = call[c].late
  BY <1>1 DEF Call
<1>3. Ttl \in Nat /\ gone[call[c].key] \in Nat
  BY <1>1, DirectoryAssumption DEF TypeOK
<1>4. call' \in [Lookups -> Call] /\ CallsAreRecent'
  <2> HIDE DEF r
  <2>1. gone[r.key] <= Ttl + (IF r.late THEN 1 ELSE 0)
    BY <1>1, <1>2, <1>3 DEF Late
  <2> QED BY <1>2, <2>1, PutStep DEF Store, r
<1>5. TypeOK'
  BY <1>1, <1>4, DirectoryAssumption DEF Store, TypeOK, Call, Fault
<1>6. EntryIsDated'
  BY <1>1, <1>3 DEF Store, EntryIsDated, Late
<1> QED BY <1>4, <1>5, <1>6 DEF Store, ServedIsNew

LEMMA AnswerStep ==
  ASSUME AgeInv, NEW c \in Lookups, Answer(c)
  PROVE  AgeInv'
<1> USE DEF AgeInv
<1>1. call' \in [Lookups -> Call] /\ CallsAreRecent'
  BY IdleIsRecent, PutStep DEF Answer
<1>2. session' \in Keys \cup {Nil, None}
  BY DEF Answer, TypeOK
<1> QED BY <1>1, <1>2 DEF Answer, TypeOK, Call, ServedIsNew, EntryIsDated

LEMMA ReloadStep == AgeInv /\ Reload => AgeInv'
<1> SUFFICES ASSUME AgeInv, Reload PROVE AgeInv'
  OBVIOUS
<1> USE DEF AgeInv
<1>1. \A c \in Lookups : /\ call'[c] \in Call /\ call'[c].pc = call[c].pc
                         /\ call'[c].key = call[c].key /\ call'[c].late = call[c].late
  BY DEF Reload, TypeOK, Call
<1>2. TypeOK'
  BY <1>1 DEF Reload, TypeOK, Call
<1>3. CallsAreRecent'
  BY <1>1 DEF Reload, CallsAreRecent, CallIsRecent, Late
<1> QED BY <1>2, <1>3 DEF Reload, ServedIsNew, EntryIsDated

LEMMA ConnectionStep == AgeInv /\ (Disconnect \/ Connect \/ UNCHANGED vars) => AgeInv'
<1> SUFFICES ASSUME AgeInv, Disconnect \/ Connect \/ UNCHANGED vars PROVE AgeInv'
  OBVIOUS
<1> USE DEF AgeInv
<1>1. faults' \in 0 .. MaxFaults
  BY DirectoryAssumption DEF Disconnect, Connect, vars, Fault, TypeOK
<1>2. online' \in BOOLEAN
  BY Zenon DEF Disconnect, Connect, vars, TypeOK
<1>3. TypeOK'
  BY <1>1, <1>2, Zenon DEF Disconnect, Connect, vars, TypeOK
<1>4. ServedIsNew' /\ EntryIsDated' /\ CallsAreRecent'
  BY DEF Disconnect, Connect, vars, ServedIsNew, EntryIsDated, CallsAreRecent, CallIsRecent, Late
<1> QED BY <1>3, <1>4

LEMMA NextHolds == AgeInv /\ [Next]_vars => AgeInv'
BY PublishStep, TickStep, LookupStep, AskStep, StoreStep, AnswerStep, ReloadStep, ConnectionStep
   DEF Next, Step

\* In every run the cached entry, the page's answer and the lookups under way have the shape
\* keydir.rs and vf-crypto.js give them, for every number of places, lookups and keys.
THEOREM TypeCorrect == Spec => []TypeOK
<1>1. AgeInv => TypeOK
  BY DEF AgeInv
<1> QED BY <1>1, InitHolds, NextHolds, PTL DEF Spec

\* keydir::lookup never answers with a key that was replaced everywhere longer ago than the
\* life of a cache entry and the one tick a request may last (keydir.rs, CACHE_TTL_SECS).
THEOREM AnswersAreRecent == Spec => []StaleBound
<1>1. AgeInv => StaleBound
  <2> SUFFICES ASSUME AgeInv, NEW c \in Lookups, call[c].pc = "answer", call[c].key # None
               PROVE  gone[call[c].key] <= Ttl + 1
    BY DEF StaleBound
  <2>1. call[c].key \in Keys /\ gone[call[c].key] \in Nat /\ Ttl \in Nat
    BY DirectoryAssumption DEF AgeInv, TypeOK
  <2>2. gone[call[c].key] <= Ttl + Late(c) /\ Late(c) \in {0, 1}
    BY DEF AgeInv, CallsAreRecent, CallIsRecent, Late
  <2> QED BY <2>1, <2>2
<1> QED BY <1>1, InitHolds, NextHolds, PTL DEF Spec
=============================================================================
