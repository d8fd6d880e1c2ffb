---------------------------- MODULE ComposeProofs ----------------------------
(***************************************************************************)
(* Theorems about Compose, for any number of mails, presses of Send, saved *)
(* drafts, requests and upsets.                                            *)
(***************************************************************************)
EXTENDS Compose, TLAPS

-----------------------------------------------------------------------------
(* The state of the composer, of the sends and of the requests.             *)

Drafts == Ids \cup {Nil}
StoreOK ==
  /\ drafts \in [Ids -> Mails \cup {Nil}] /\ fresh \in 0 .. MaxSaves /\ started \in 0 .. MaxMails
  /\ loose \subseteq Ids /\ upsets \in 0 .. MaxUpsets
FormOK ==
  /\ form \in Mails \cup {Nil} /\ shown \in BOOLEAN /\ armed \in BOOLEAN /\ dirty \in BOOLEAN
  /\ draftId \in Drafts
  /\ (shown => armed) /\ (armed <=> form # Nil)

\* Send is pressed in order: what comes after an unused press is unused.
Sending == [mail : Mails \cup {Nil}, old : Drafts, st : States]
SendsOK ==
  /\ sends \in [Presses -> Sending]
  /\ \A p \in Presses : sends[p].st = "waiting" => sends[p].mail \in Mails
  /\ \A p, q \in Presses : p < q /\ sends[p] = Unused => sends[q] = Unused
OfferedOK ==
  /\ pending # Nil => pending \in Presses /\ Newest(pending) /\ sends[pending].st = "waiting"
  /\ undo # Nil => undo \in [press : Presses, mail : Mails, old : Drafts] /\ Newest(undo.press)

\* A send under way is that of a press whose timer fired, and there is one at most.
SendOf(r, p) == r.kind = "send" /\ r.id = MaxSaves + p
RequestsOK ==
  /\ reqs \subseteq Requests
  /\ \A r \in reqs : /\ r.kind = "save" => r.id # Nil
                     /\ r.kind = "send" => \E p \in Presses : SendOf(r, p)
  /\ \A r \in reqs, p \in Presses : SendOf(r, p) => sends[p].st = "posted"
  /\ \A r, q \in reqs : r.kind = "send" /\ q.kind = "send" /\ r.id = q.id => r = q
\* What a press has submitted, it submitted once, and is at its end.
CountOK ==
  /\ submitted \in [Presses -> Nat]
  /\ \A p \in Presses : submitted[p] <= 1 /\ (submitted[p] # 0 => sends[p].st = "ended")

\* The inductive invariant for the types and for SendOnce.
ComposeInv == StoreOK /\ FormOK /\ SendsOK /\ OfferedOK /\ RequestsOK /\ CountOK

LEMMA ConstantFacts ==
  /\ MaxMails \in Nat /\ MaxSends \in Nat /\ MaxSaves \in Nat /\ MaxUpsets \in Nat
  /\ Nil \notin Nat /\ Nil \notin Mails /\ Nil \notin Ids /\ Nil \notin Presses
  /\ \A p \in Presses : p \in Nat /\ p >= 1 /\ MaxSaves + p \in Ids
  /\ \A p, q \in Presses : MaxSaves + p = MaxSaves + q => p = q
  /\ \A i \in Ids : i \in Nat
BY ComposeAssumption DEF Mails, Ids, Presses

LEMMA UpsetStep == upsets \in 0 .. MaxUpsets /\ Upset => upsets' \in 0 .. MaxUpsets
BY ConstantFacts DEF Upset

LEMMA UnusedOK == Unused \in Sending /\ Unused.st = "unused"
BY DEF Unused, Sending, Drafts, States

\* What a press becomes when it ends.
LEMMA EndedOK ==
  ASSUME NEW st \in States \ {"unused", "waiting"}
  PROVE  /\ [Unused EXCEPT !.st = st] \in Sending /\ [Unused EXCEPT !.st = st].st = st
         /\ [Unused EXCEPT !.st = st] # Unused
BY DEF Unused, Sending, Drafts, States

\* A press that was used ends; the others stay.
LEMMA EndStep ==
  ASSUME SendsOK, NEW p \in Presses, sends[p] # Unused, NEW st \in States \ {"unused", "waiting"},
         End(p, st)
  PROVE  /\ SendsOK' /\ sends'[p].st = st /\ \A q \in Presses \ {p} : sends'[q] = sends[q]
         /\ \A q \in Presses : Newest(q) => Newest(q)'
<1>1. /\ sends'[p] = [Unused EXCEPT !.st = st] /\ \A q \in Presses \ {p} : sends'[q] = sends[q]
      /\ DOMAIN sends' = Presses /\ sends' = [q \in Presses |-> sends'[q]]
  BY DEF End, SendsOK
<1>2. sends'[p] \in Sending /\ sends'[p].st = st /\ sends'[p] # Unused
  BY <1>1, EndedOK
<1>3. sends' \in [Presses -> Sending]
  <2>1. \A q \in Presses : sends'[q] \in Sending
    BY <1>1, <1>2 DEF SendsOK
  <2> QED BY <1>1, <2>1
<1>4. \A q \in Presses : sends'[q] = Unused <=> sends[q] = Unused
  BY <1>1, <1>2
<1>5. SendsOK'
  <2>1. \A q \in Presses : sends'[q].st = "waiting" => sends'[q].mail \in Mails
    BY <1>1, <1>2 DEF SendsOK
  <2>2. \A q, r \in Presses : q < r /\ sends'[q] = Unused => sends'[r] = Unused
    BY <1>4 DEF SendsOK
  <2> QED BY <1>3, <2>1, <2>2 DEF SendsOK
<1>6. \A q \in Presses : Newest(q) => Newest(q)'
  BY <1>4 DEF Newest
<1> QED BY <1>1, <1>2, <1>5, <1>6

LEMMA InitInv == Init => ComposeInv
<1> SUFFICES ASSUME Init PROVE ComposeInv
  OBVIOUS
<1>1. StoreOK /\ FormOK
  <2>1. 0 \in 0 .. MaxSaves /\ 0 \in 0 .. MaxMails /\ 0 \in 0 .. MaxUpsets
    BY ConstantFacts
  <2>2. StoreOK
    BY <2>1 DEF Init, StoreOK
  <2>3. FormOK
    BY DEF Init, FormOK, Drafts
  <2> QED BY <2>2, <2>3
<1>2. SendsOK /\ OfferedOK /\ RequestsOK /\ CountOK
  BY UnusedOK, ConstantFacts DEF Init, SendsOK, OfferedOK, RequestsOK, CountOK
<1> QED BY <1>1, <1>2 DEF ComposeInv

-----------------------------------------------------------------------------
(* The form.                                                                *)

Forms ==
  \/ \E m \in Mails : Start(m)
  \/ \E save \in BOOLEAN : Close(save)
  \/ Edit \/ Autosave \/ Discard \/ Schedule \/ \E i \in Ids : Resume(i)

\* A request of the form.
FormRequest(r) == r \in Requests /\ r.kind # "send" /\ r.mail = form /\ form # Nil

LEMMA PostOK ==
  ASSUME FormOK, form # Nil, NEW kind \in {"save", "schedule", "discard"}, NEW id \in Drafts,
         Post(kind, form, id, draftId)
  PROVE  \E r : FormRequest(r) /\ r.id = id /\ r.old = draftId /\ r.kind = kind /\ reqs' = reqs \cup {r}
<1> DEFINE r == [kind |-> kind, mail |-> form, id |-> id, old |-> draftId, heard |-> TRUE]
<1>1. FormRequest(r) /\ r.id = id /\ r.old = draftId /\ r.kind = kind
  BY DEF FormOK, FormRequest, Requests, Drafts
<1>2. reqs' = reqs \cup {r}
  BY DEF Post
<1> QED BY <1>1, <1>2

\* What the form asks for: a draft to be saved under a new id, or a message of no id to be
\* created or destroyed.
LEMMA FormRequests ==
  ASSUME StoreOK, FormOK, Forms
  PROVE  /\ \/ reqs' = reqs /\ fresh' = fresh
            \/ \E r : /\ FormRequest(r) /\ r.old = draftId /\ reqs' = reqs \cup {r}
                      /\ \/ r.id = Nil /\ r.kind # "save" /\ fresh' = fresh
                         \/ r.id = fresh + 1 /\ fresh' = fresh + 1 /\ fresh < MaxSaves
         /\ UNCHANGED <<drafts, sending, submitted, upsets>>
<1>1. UNCHANGED <<drafts, sending, submitted, upsets>>
  BY DEF Forms, Start, Close, Edit, Autosave, Discard, Schedule, Resume, Quiet
<1>2. ASSUME form # Nil, Save
      PROVE  \E r : /\ FormRequest(r) /\ r.old = draftId /\ reqs' = reqs \cup {r}
                    /\ r.id = fresh + 1 /\ fresh' = fresh + 1 /\ fresh < MaxSaves
  <2>1. fresh + 1 \in Drafts
    BY <1>2, ConstantFacts DEF Save, StoreOK, Drafts, Ids
  <2> QED BY <1>2, <2>1, PostOK DEF Save
<1>3. CASE Autosave
  BY <1>1, <1>2, <1>3 DEF Autosave, FormOK
<1>4. ASSUME NEW save \in BOOLEAN, Close(save)
      PROVE  \/ reqs' = reqs /\ fresh' = fresh
             \/ Save /\ form # Nil
  BY <1>4 DEF Close, FormOK
<1>5. CASE Discard \/ Schedule
  <2>1. Nil \in Drafts
    BY DEF Drafts
  <2> QED BY <1>1, <1>5, <2>1, PostOK DEF Discard, Schedule, FormOK
<1>6. CASE Edit \/ (\E m \in Mails : Start(m)) \/ (\E i \in Ids : Resume(i))
  BY <1>1, <1>6 DEF Edit, Start, Resume, Quiet
<1> QED BY <1>1, <1>2, <1>3, <1>4, <1>5, <1>6 DEF Forms
LEMMA FormsInv ==
  ASSUME ComposeInv, Forms
  PROVE  ComposeInv'
<1>1. SendsOK' /\ OfferedOK' /\ CountOK'
  BY FormRequests DEF ComposeInv, SendsOK, OfferedOK, CountOK, Newest, sending
<1>2. RequestsOK'
  <2>1. fresh + 1 # Nil
    BY ConstantFacts DEF ComposeInv, StoreOK
  <2> QED BY <2>1, FormRequests DEF ComposeInv, RequestsOK, SendOf, FormRequest, sending
<1>3. StoreOK'
  <2>1. fresh' \in 0 .. MaxSaves
    BY FormRequests, ConstantFacts DEF ComposeInv, StoreOK
  <2>2. loose' \subseteq Ids /\ started' \in 0 .. MaxMails
    <3>1. {draftId} \ {Nil} \subseteq Ids /\ loose \subseteq Ids /\ started \in 0 .. MaxMails
      BY DEF ComposeInv, StoreOK, FormOK, Drafts
    <3>2. ASSUME NEW m \in Mails, Start(m) PROVE started' \in 0 .. MaxMails
      BY <3>2, ConstantFacts DEF Start, Mails
    <3>3. (\E m \in Mails : Start(m)) \/ started' = started
      BY DEF Forms, Close, Edit, Autosave, Discard, Schedule, Resume
    <3>4. loose' \in {loose, loose \cup ({draftId} \ {Nil}), loose \cup {draftId}}
      BY DEF Forms, Start, Close, Edit, Autosave, Discard, Schedule, Resume
    <3>5. draftId = Nil => loose' # loose \cup {draftId} \/ loose' = loose
      BY <3>1 DEF Forms, Start, Close, Edit, Autosave, Discard, Schedule, Resume
    <3> QED BY <3>1, <3>2, <3>3, <3>4, <3>5
  <2> QED BY <2>1, <2>2, FormRequests DEF ComposeInv, StoreOK
<1>4. FormOK'
  <2>1. CASE Edit \/ Autosave
    BY <2>1 DEF Edit, Autosave, composer, ComposeInv, FormOK
  <2>2. ASSUME NEW m \in Mails, Start(m) PROVE FormOK'
    BY <2>2, ConstantFacts DEF Start, Opened, ComposeInv, FormOK
  <2>3. ASSUME NEW save \in BOOLEAN, Close(save) PROVE FormOK'
    BY <2>3 DEF Close, Hidden, FormOK, Drafts
  <2>4. CASE Discard \/ Schedule
    BY <2>4 DEF Discard, Schedule, Hidden, ComposeInv, FormOK, Drafts
  <2>5. ASSUME NEW i \in Ids, Resume(i) PROVE FormOK'
    BY <2>5, ConstantFacts DEF Resume, Opened, ComposeInv, StoreOK, FormOK, Drafts
  <2> QED BY <2>1, <2>2, <2>3, <2>4, <2>5 DEF Forms
<1> QED BY <1>1, <1>2, <1>3, <1>4 DEF ComposeInv

-----------------------------------------------------------------------------
(* The undoable send.                                                       *)

\* The newest press is one that nothing under way is about.
LEMMA SendInv ==
  ASSUME ComposeInv, NEW p \in Presses, Send(p)
  PROVE  ComposeInv'
<1> DEFINE w == [mail |-> form, old |-> draftId, st |-> "waiting"]
<1>1. form \in Mails /\ draftId \in Drafts /\ sends[p] = Unused
  BY DEF Send, Following, ComposeInv, FormOK
<1>2. w \in Sending /\ w.mail = form /\ w.st = "waiting" /\ w # Unused
  BY <1>1, UnusedOK DEF Sending, States
<1>3. sends' = [sends EXCEPT ![p] = w]
  BY DEF Send
<1>4. sends'[p] = w /\ \A q \in Presses \ {p} : sends'[q] = sends[q]
  BY <1>3 DEF ComposeInv, SendsOK
<1> HIDE DEF w
<1>5. /\ \A q \in Presses : q < p => sends[q] # Unused
      /\ \A q \in Presses : p < q => sends[q] = Unused
  BY <1>1 DEF Send, Following, ComposeInv, SendsOK
<1>6. SendsOK'
  <2>1. sends' \in [Presses -> Sending]
    BY <1>2, <1>3 DEF ComposeInv, SendsOK
  <2>2. \A q \in Presses : sends'[q].st = "waiting" => sends'[q].mail \in Mails
    BY <1>1, <1>2, <1>4 DEF ComposeInv, SendsOK
  <2>3. \A q, r \in Presses : q < r /\ sends'[q] = Unused => sends'[r] = Unused
    BY <1>2, <1>4, <1>5 DEF ComposeInv, SendsOK
  <2> QED BY <2>1, <2>2, <2>3 DEF SendsOK
<1>7. OfferedOK'
  <2>1. Newest(p)'
    BY <1>2, <1>4, <1>5, ConstantFacts DEF Newest
  <2>2. pending' = p /\ undo' = [press |-> p, mail |-> form, old |-> draftId]
    BY DEF Send, Offer
  <2> QED BY <1>1, <1>2, <1>4, <2>1, <2>2 DEF OfferedOK
<1>8. UNCHANGED <<drafts, submitted, upsets, fresh, started, reqs, loose>>
  BY DEF Send, Quiet
<1>9. RequestsOK' /\ CountOK'
  <2>1. \A q \in Presses : sends[q].st \in {"posted", "ended"} => sends'[q] = sends[q]
    BY <1>1, <1>4, UnusedOK
  <2> QED BY <1>8, <2>1 DEF ComposeInv, RequestsOK, CountOK
<1>10. StoreOK' /\ FormOK'
  BY <1>8 DEF ComposeInv, StoreOK, FormOK, Send, Hidden, Drafts
<1> QED BY <1>6, <1>7, <1>9, <1>10 DEF ComposeInv

LEMMA FireInv ==
  ASSUME ComposeInv, NEW p \in Presses, Fire(p)
  PROVE  ComposeInv'
<1> DEFINE r == [kind |-> "send", mail |-> sends[p].mail, id |-> MaxSaves + p, old |-> sends[p].old,
                 heard |-> TRUE]
<1>1. sends[p].st = "waiting" /\ sends[p] # Unused /\ sends[p] \in Sending /\ sends[p].mail \in Mails
  BY UnusedOK DEF Fire, ComposeInv, SendsOK
<1>2. /\ SendsOK' /\ sends'[p].st = "posted" /\ \A q \in Presses \ {p} : sends'[q] = sends[q]
      /\ \A q \in Presses : Newest(q) => Newest(q)'
  BY <1>1, EndStep DEF Fire, ComposeInv, States
<1>3. r \in Requests /\ SendOf(r, p)
  BY <1>1, ConstantFacts DEF Requests, Sending, Drafts, SendOf
<1>4. reqs' = reqs \cup {r}
  BY DEF Fire, Post
<1> HIDE DEF r
<1>5. \A q \in reqs : ~SendOf(q, p)
  BY <1>1 DEF ComposeInv, RequestsOK
<1>6. RequestsOK'
  <2>1. \A q \in Presses : q # p => ~SendOf(r, q)
    BY <1>3, ConstantFacts DEF SendOf
  <2>2. \A q \in reqs : q.kind = "send" => q.id # r.id
    BY <1>3, <1>5 DEF SendOf
  <2>3. /\ reqs' \subseteq Requests
        /\ \A q \in reqs' : /\ q.kind = "save" => q.id # Nil
                            /\ q.kind = "send" => \E x \in Presses : SendOf(q, x)
    BY <1>3, <1>4 DEF ComposeInv, RequestsOK, SendOf
  <2>4. \A q \in reqs', x \in Presses : SendOf(q, x) => sends'[x].st = "posted"
    BY <1>2, <1>4, <1>5, <2>1 DEF ComposeInv, RequestsOK
  <2>5. \A q, x \in reqs' : q.kind = "send" /\ x.kind = "send" /\ q.id = x.id => q = x
    BY <1>4, <2>2 DEF ComposeInv, RequestsOK
  <2> QED BY <2>3, <2>4, <2>5 DEF RequestsOK
<1>7. UNCHANGED <<drafts, submitted, upsets, fresh, started, loose, undo, composer>> /\ pending' = Nil
  BY DEF Fire, Quiet
<1>8. StoreOK' /\ FormOK' /\ OfferedOK'
  BY <1>2, <1>7 DEF ComposeInv, StoreOK, FormOK, OfferedOK, composer
<1>9. CountOK'
  BY <1>1, <1>2, <1>7 DEF ComposeInv, CountOK
<1> QED BY <1>2, <1>6, <1>8, <1>9 DEF ComposeInv

\* A press that waits ends otherwise: nothing of it is under way.
LEMMA GiveUp ==
  ASSUME ComposeInv, NEW p \in Presses, sends[p].st = "waiting", NEW st \in {"undone", "dropped"},
         End(p, st), reqs' = reqs, submitted' = submitted
  PROVE  SendsOK' /\ RequestsOK' /\ CountOK' /\ \A q \in Presses : Newest(q) => Newest(q)'
<1>1. sends[p] # Unused
  BY UnusedOK
<1>2. /\ SendsOK' /\ sends'[p].st = st /\ \A q \in Presses \ {p} : sends'[q] = sends[q]
      /\ \A q \in Presses : Newest(q) => Newest(q)'
  BY <1>1, EndStep DEF ComposeInv, States
<1>3. \A q \in Presses : sends[q].st \in {"posted", "ended"} => sends'[q] = sends[q]
  BY <1>2
<1> QED BY <1>2, <1>3 DEF ComposeInv, RequestsOK, CountOK

LEMMA UndoInv ==
  ASSUME ComposeInv, Undo
  PROVE  ComposeInv'
<1>1. /\ undo.press \in Presses /\ undo.mail \in Mails /\ undo.old \in Drafts
      /\ pending' = Nil /\ undo' = Nil
      /\ UNCHANGED <<drafts, submitted, upsets, fresh, started, loose, reqs>>
  BY DEF Undo, Quiet, ComposeInv, OfferedOK
<1>2. StoreOK' /\ FormOK' /\ OfferedOK'
  BY <1>1, ConstantFacts DEF Undo, Opened, ComposeInv, StoreOK, FormOK, OfferedOK
<1>3. SendsOK' /\ RequestsOK' /\ CountOK'
  <2>1. CASE sends[undo.press].st = "waiting"
    <3>1. End(undo.press, "undone")
      BY <2>1 DEF Undo
    <3> QED BY <1>1, <2>1, <3>1, GiveUp
  <2>2. CASE sends' = sends
    BY <1>1, <2>2 DEF ComposeInv, SendsOK, RequestsOK, CountOK
  <2> QED BY <2>1, <2>2 DEF Undo
<1> QED BY <1>2, <1>3 DEF ComposeInv

LEMMA ToastInv ==
  ASSUME ComposeInv, ToastGoes
  PROVE  ComposeInv'
BY DEF ToastGoes, Quiet, composer, ComposeInv, StoreOK, FormOK, SendsOK, OfferedOK, RequestsOK, CountOK,
       Newest
-----------------------------------------------------------------------------
(* Answers.                                                                 *)

Answers == \E r \in reqs : SaveDone(r) \/ ScheduleDone(r) \/ DiscardDone(r)

\* An answer about a draft or a scheduled mail leaves the sends alone.
LEMMA AnswersInv ==
  ASSUME ComposeInv, Answers
  PROVE  ComposeInv'
<1> PICK r \in reqs : SaveDone(r) \/ ScheduleDone(r) \/ DiscardDone(r)
  BY DEF Answers
<1>1. /\ reqs' = reqs \ {r} /\ UNCHANGED <<fresh, started, form, shown, armed, pending, sends, submitted>>
      /\ undo' \in {undo, Nil}
  BY DEF SaveDone, ScheduleDone, DiscardDone, Done, sending
<1>2. r.mail \in Mails /\ r.id \in Drafts /\ r.old \in Drafts
  BY DEF ComposeInv, RequestsOK, Requests, Drafts
<1>3. SendsOK' /\ OfferedOK' /\ CountOK'
  BY <1>1 DEF ComposeInv, SendsOK, OfferedOK, CountOK, Newest
<1>4. RequestsOK'
  BY <1>1 DEF ComposeInv, RequestsOK
<1>5. drafts' \in [Ids -> Mails \cup {Nil}]
  <2>1. ASSUME NEW created \in BOOLEAN, Stored(r, created) PROVE drafts' \in [Ids -> Mails \cup {Nil}]
    BY <1>2, <2>1 DEF Stored, ComposeInv, StoreOK
  <2>2. \/ \E created \in BOOLEAN : Stored(r, created)
        \/ drafts' = [drafts EXCEPT ![r.old] = Nil]
        \/ drafts' = drafts
    BY DEF SaveDone, ScheduleDone, DiscardDone, Missed
  <2> QED BY <2>1, <2>2 DEF ComposeInv, StoreOK
<1>6. upsets' \in 0 .. MaxUpsets
  BY UpsetStep DEF SaveDone, ScheduleDone, DiscardDone, Missed, Ok, ComposeInv, StoreOK
<1>7. loose' \subseteq Ids /\ draftId' \in Drafts /\ dirty' \in BOOLEAN
  <2>1. SaveDone(r) => r.id \in Ids
    <3>1. SaveDone(r) => r.kind = "save"
      BY DEF SaveDone
    <3>2. r.kind = "save" => r.id # Nil
      BY DEF ComposeInv, RequestsOK
    <3> QED BY <1>2, <3>1, <3>2 DEF Drafts
  <2> QED BY <1>2, <2>1 DEF SaveDone, ScheduleDone, DiscardDone, ComposeInv, StoreOK, FormOK, Drafts
<1>8. StoreOK' /\ FormOK'
  BY <1>1, <1>5, <1>6, <1>7 DEF ComposeInv, StoreOK, FormOK
<1> QED BY <1>3, <1>4, <1>8 DEF ComposeInv

\* The answer to a send, or its loss, ends the press: it was the only request about it.
LEMMA SendDoneInv ==
  ASSUME ComposeInv, NEW p \in Presses, NEW r \in reqs, SendDone(p, r)
  PROVE  ComposeInv'
<1>1. SendOf(r, p) /\ sends[p].st = "posted" /\ sends[p] # Unused /\ submitted[p] = 0
  BY UnusedOK DEF SendDone, SendOf, ComposeInv, RequestsOK, CountOK
<1>2. /\ SendsOK' /\ sends'[p].st = "ended" /\ \A q \in Presses \ {p} : sends'[q] = sends[q]
      /\ \A q \in Presses : Newest(q) => Newest(q)'
  BY <1>1, EndStep DEF SendDone, ComposeInv, States
<1>3. /\ reqs' = reqs \ {r} /\ UNCHANGED <<fresh, started, form, shown, armed, dirty, draftId, pending, loose>>
      /\ undo' \in {undo, Nil}
  BY DEF SendDone, Done
<1>4. RequestsOK'
  <2>1. \A q \in reqs' : ~SendOf(q, p)
    BY <1>1, <1>3 DEF SendOf, ComposeInv, RequestsOK
  <2> QED BY <1>2, <1>3, <2>1 DEF ComposeInv, RequestsOK
<1>5. OfferedOK'
  BY <1>1, <1>2, <1>3 DEF ComposeInv, OfferedOK
<1>6. CountOK'
  <2>1. submitted' = submitted \/ submitted' = [submitted EXCEPT ![p] = @ + 1]
    BY DEF SendDone
  <2> QED BY <1>1, <1>2, <2>1 DEF ComposeInv, CountOK
<1>7. StoreOK'
  <2>1. drafts' = drafts \/ \E created \in BOOLEAN : Stored(r, created)
    BY DEF SendDone, Missed
  <2>2. r.mail \in Mails
    BY DEF ComposeInv, RequestsOK, Requests
  <2>3. drafts' \in [Ids -> Mails \cup {Nil}]
    BY <2>1, <2>2 DEF Stored, ComposeInv, StoreOK
  <2>4. upsets' \in 0 .. MaxUpsets
    BY UpsetStep DEF SendDone, Missed, Ok, ComposeInv, StoreOK
  <2> QED BY <1>3, <2>3, <2>4 DEF ComposeInv, StoreOK
<1>8. FormOK'
  BY <1>3 DEF ComposeInv, FormOK
<1> QED BY <1>2, <1>4, <1>5, <1>6, <1>7, <1>8 DEF ComposeInv

-----------------------------------------------------------------------------
(* What interrupts the composer.                                            *)

LEMMA EnterDMsInv ==
  ASSUME ComposeInv, EnterDMs
  PROVE  ComposeInv'
<1>1. UNCHANGED <<drafts, fresh, started, form, armed, dirty, draftId, undo, reqs, submitted, loose>>
      /\ pending' = Nil /\ shown' = FALSE
  BY DEF EnterDMs
<1>2. StoreOK' /\ FormOK'
  <2>1. upsets' \in 0 .. MaxUpsets
    BY UpsetStep DEF EnterDMs, ComposeInv, StoreOK
  <2> QED BY <1>1, <2>1 DEF ComposeInv, StoreOK, FormOK
<1>3. SendsOK' /\ RequestsOK' /\ CountOK' /\ \A q \in Presses : Newest(q) => Newest(q)'
  <2>1. CASE pending = Nil
    <3>1. sends' = sends
      BY <2>1 DEF EnterDMs
    <3> QED BY <1>1, <3>1 DEF ComposeInv, SendsOK, RequestsOK, CountOK, Newest
  <2>2. CASE pending # Nil
    <3>1. pending \in Presses /\ sends[pending].st = "waiting" /\ End(pending, "dropped")
      BY <2>2 DEF EnterDMs, ComposeInv, OfferedOK
    <3> QED BY <1>1, <3>1, GiveUp
  <2> QED BY <2>1, <2>2
<1>4. OfferedOK'
  BY <1>1, <1>3 DEF ComposeInv, OfferedOK
<1> QED BY <1>2, <1>3, <1>4 DEF ComposeInv

\* beforeunload posts the pending send, and the timers of the others are gone.
LEMMA ReloadSends ==
  ASSUME ComposeInv, Reload
  PROVE  /\ sends' \in [Presses -> Sending]
         /\ \A p \in Presses : /\ sends'[p] = Unused <=> sends[p] = Unused
                               /\ sends'[p].st # "waiting"
                               /\ sends[p].st \in {"posted", "ended"} => sends'[p] = sends[p]
                               /\ p = pending => sends'[p].st = "posted"
<1> DEFINE over(st) == [Unused EXCEPT !.st = st]
<1>1. /\ over("posted") \in Sending /\ over("posted").st = "posted" /\ over("posted") # Unused
      /\ over("dropped") \in Sending /\ over("dropped").st = "dropped" /\ over("dropped") # Unused
  BY EndedOK DEF States
<1>2. sends' = [p \in Presses |-> IF p = pending THEN over("posted")
                                  ELSE IF sends[p].st = "waiting" THEN over("dropped") ELSE sends[p]]
  BY DEF Reload
<1> HIDE DEF over
<1>3. \A p \in Presses : p = pending => sends[p].st = "waiting"
  BY ConstantFacts DEF ComposeInv, OfferedOK
<1>4. \A p \in Presses : sends[p] \in Sending /\ (sends[p].st = "waiting" => sends[p] # Unused)
  BY UnusedOK DEF ComposeInv, SendsOK
<1> QED BY <1>1, <1>2, <1>3, <1>4

LEMMA ReloadInv ==
  ASSUME ComposeInv, Reload
  PROVE  ComposeInv'
<1> DEFINE lost(r) == [r EXCEPT !.heard = FALSE]
           posted == [kind |-> "send", mail |-> sends[pending].mail, id |-> MaxSaves + pending,
                      old |-> sends[pending].old, heard |-> FALSE]
<1>1. \A r \in Requests : /\ lost(r) \in Requests /\ lost(r).kind = r.kind /\ lost(r).id = r.id
                          /\ \A p \in Presses : SendOf(lost(r), p) <=> SendOf(r, p)
  BY DEF Requests, SendOf
<1>2. pending # Nil => /\ pending \in Presses /\ sends[pending].st = "waiting"
                       /\ posted \in Requests /\ SendOf(posted, pending)
                       /\ \A r \in reqs : ~SendOf(r, pending)
  BY ConstantFacts DEF ComposeInv, OfferedOK, SendsOK, RequestsOK, Sending, Requests, SendOf, Drafts
<1>3. reqs' = {lost(r) : r \in reqs} \cup (IF pending = Nil THEN {} ELSE {posted})
  BY DEF Reload
<1> HIDE DEF lost, posted
<1>4. \A r \in reqs' : (pending # Nil /\ r = posted) \/ \E q \in reqs : r = lost(q)
  BY <1>3
<1>5. SendsOK'
  BY ReloadSends DEF ComposeInv, SendsOK
<1>6. RequestsOK'
  <2>1. reqs' \subseteq Requests
    BY <1>1, <1>2, <1>4 DEF ComposeInv, RequestsOK
  <2>2. \A r \in reqs' : /\ r.kind = "save" => r.id # Nil
                         /\ r.kind = "send" => \E p \in Presses : SendOf(r, p)
    <3> TAKE r \in reqs'
    <3>1. CASE pending # Nil /\ r = posted
      BY <1>2, <3>1 DEF SendOf
    <3>2. ASSUME NEW q \in reqs, r = lost(q)
          PROVE  /\ r.kind = "save" => r.id # Nil
                 /\ r.kind = "send" => \E p \in Presses : SendOf(r, p)
      <4>1. /\ q \in Requests /\ (q.kind = "save" => q.id # Nil)
            /\ q.kind = "send" => \E p \in Presses : SendOf(q, p)
        BY DEF ComposeInv, RequestsOK
      <4> QED BY <1>1, <3>2, <4>1
    <3> QED BY <1>4, <3>1, <3>2
  <2>3. \A r \in reqs', p \in Presses : SendOf(r, p) => sends'[p].st = "posted"
    <3> TAKE r \in reqs', p \in Presses
    <3>1. CASE pending # Nil /\ r = posted
      BY <1>2, <3>1, ReloadSends, ConstantFacts DEF SendOf
    <3>2. CASE \E q \in reqs : r = lost(q)
      BY <1>1, <3>2, ReloadSends DEF ComposeInv, RequestsOK
    <3> QED BY <1>4, <3>1, <3>2
  <2>4. \A q, x \in reqs' : q.kind = "send" /\ x.kind = "send" /\ q.id = x.id => q = x
    <3>1. \A q \in reqs : pending # Nil /\ q.kind = "send" => q.id # posted.id
      BY <1>2 DEF SendOf
    <3> QED BY <1>1, <1>2, <1>4, <3>1 DEF ComposeInv, RequestsOK
  <2> QED BY <2>1, <2>2, <2>3, <2>4 DEF RequestsOK
<1>7. UNCHANGED <<drafts, fresh, started, submitted, loose>>
  BY DEF Reload
<1>8. StoreOK' /\ FormOK' /\ OfferedOK'
  BY <1>7, UpsetStep DEF Reload, ComposeInv, StoreOK, FormOK, OfferedOK, Drafts
<1>9. CountOK'
  BY <1>7, ReloadSends DEF ComposeInv, CountOK
<1> QED BY <1>5, <1>6, <1>8, <1>9 DEF ComposeInv

LEMMA NextInv == ComposeInv /\ [Next]_vars => ComposeInv'
<1> SUFFICES ASSUME ComposeInv, [Next]_vars PROVE ComposeInv'
  OBVIOUS
<1>1. CASE UNCHANGED vars
  BY <1>1 DEF vars, composer, sending, ComposeInv, StoreOK, FormOK, SendsOK, OfferedOK, RequestsOK,
              CountOK, Newest
<1>2. CASE Next
  BY <1>2, FormsInv, SendInv, FireInv, UndoInv, ToastInv, AnswersInv, SendDoneInv, EnterDMsInv, ReloadInv
     DEF Next, Forms, Answers
<1> QED BY <1>1, <1>2

LEMMA InvHolds == Spec => []ComposeInv
BY InitInv, NextInv, PTL DEF Spec

\* Types, and what the handlers of app.js rely on: a shown composer has its interval and its
\* mail, and what is pending or offered for Undo is the newest press of Send.
THEOREM TypeCorrect == Spec => []TypeOK
<1>1. ComposeInv => TypeOK
  BY ConstantFacts DEF ComposeInv, StoreOK, FormOK, SendsOK, OfferedOK, RequestsOK, CountOK, TypeOK,
                       Drafts, Sending
<1> QED BY <1>1, InvHolds, PTL

\* However often Send is pressed, undone, interrupted or refused, and whatever happens to its
\* request or to the answer, a press submits its mail at most once, and one that was undone in
\* time or given up submits nothing (app.js sendNowRequest, doSend, beforeunload).
THEOREM PressSubmitsOnce == Spec => []SendOnce
<1>1. ComposeInv => SendOnce
  BY DEF ComposeInv, CountOK, SendOnce
<1> QED BY <1>1, InvHolds, PTL
-----------------------------------------------------------------------------
(* Which mail a draft is of.                                                *)

\* Drafts that have been given out, and messages of presses that have been used.
Known(i) == i \in 1 .. fresh \/ \E p \in Presses : i = MaxSaves + p /\ sends[p] # Unused
\* Whatever is stored as i, or may still be, is mail m.
Belongs(i, m) ==
  /\ Known(i) /\ drafts[i] \in {Nil, m}
  /\ \A r \in reqs : r.id = i => r.mail = m
  /\ \A p \in Presses : i = MaxSaves + p /\ sends[p].st = "waiting" => sends[p].mail = m
Mine(i, m) == i \in loose \/ Belongs(i, m)

DraftsOwned == \A i \in Ids : drafts[i] # Nil => Belongs(i, drafts[i])
RequestsOwned ==
  \A r \in reqs : /\ r.id # Nil => Belongs(r.id, r.mail)
                  /\ r.old # Nil => Mine(r.old, r.mail)
WaitingOwned ==
  \A p \in Presses :
    sends[p].st = "waiting" => /\ Belongs(MaxSaves + p, sends[p].mail)
                               /\ sends[p].old # Nil => Mine(sends[p].old, sends[p].mail)
UndoOwned == undo # Nil /\ undo.old # Nil => Mine(undo.old, undo.mail)
FormOwned == draftId # Nil => draftId \in loose \/ (form # Nil /\ Belongs(draftId, form))

\* The inductive invariant for DraftsKept.
OwnInv == DraftsOwned /\ RequestsOwned /\ WaitingOwned /\ UndoOwned /\ FormOwned

LEMMA InitOwn == Init => OwnInv
<1> SUFFICES ASSUME Init PROVE OwnInv
  OBVIOUS
<1>1. DraftsOwned /\ RequestsOwned /\ UndoOwned /\ FormOwned
  BY DEF Init, DraftsOwned, RequestsOwned, UndoOwned, FormOwned
<1>2. WaitingOwned
  BY UnusedOK DEF Init, WaitingOwned
<1> QED BY <1>1, <1>2 DEF OwnInv

\* What a step may do, for this invariant.
DraftsCome ==
  \A i \in Ids : drafts'[i] \in {Nil, drafts[i]} \/ \E r \in reqs : r.id = i /\ drafts'[i] = r.mail
\* A request was there, or is a waiting send's, or is new and the form's.
RequestsCome ==
  \A r \in reqs' :
    \/ \E q \in reqs : r.id = q.id /\ r.mail = q.mail /\ r.old = q.old
    \/ \E p \in Presses : /\ sends[p].st = "waiting" /\ r.id = MaxSaves + p
                          /\ r.mail = sends[p].mail /\ r.old = sends[p].old
    \/ /\ r.mail = form /\ form # Nil /\ r.old = draftId
       /\ r.id = Nil \/ (r.id = fresh + 1 /\ fresh' = fresh + 1 /\ fresh < MaxSaves)
SendsCome ==
  \A p \in Presses :
    sends'[p].st = "waiting" =>
      \/ sends'[p] = sends[p]
      \/ sends[p] = Unused /\ sends'[p].mail = form /\ form # Nil /\ sends'[p].old = draftId
UndoComes ==
  undo' \in {Nil, undo} \/ (form # Nil /\ undo'.mail = form /\ undo'.old = draftId)
FormComes ==
  \/ draftId' = Nil
  \/ draftId' = draftId /\ (form' = form \/ form = Nil \/ draftId \in loose')
  \/ draftId' \in Ids /\ drafts[draftId'] # Nil /\ form' = drafts[draftId']
  \/ undo # Nil /\ draftId' = undo.old /\ form' = undo.mail
  \/ \E r \in reqs : draftId' = r.id /\ (r.id \in loose' \/ (form' = r.mail /\ r.mail # Nil))
NothingGoes ==
  /\ loose \subseteq loose' /\ fresh' \in {fresh, fresh + 1}
  /\ \A p \in Presses : sends'[p] = Unused => sends[p] = Unused
Comes == DraftsCome /\ RequestsCome /\ SendsCome /\ UndoComes /\ FormComes /\ NothingGoes

LEMMA FormsCome ==
  ASSUME ComposeInv, Forms
  PROVE  Comes
<1>1. DraftsCome /\ SendsCome /\ UndoComes
  BY FormRequests DEF ComposeInv, DraftsCome, SendsCome, UndoComes, sending
<1>2. RequestsCome
  BY FormRequests DEF ComposeInv, RequestsCome, FormRequest
<1>3. FormComes
  <2>1. CASE Edit \/ Autosave
    BY <2>1 DEF Edit, Autosave, composer, FormComes
  <2>2. ASSUME NEW m \in Mails, Start(m) PROVE FormComes
    BY <2>2 DEF Start, Opened, FormComes, ComposeInv, FormOK
  <2>3. CASE Schedule \/ \E save \in BOOLEAN : Close(save)
    BY <2>3 DEF Schedule, Close, FormComes
  <2>4. CASE Discard
    BY <2>4 DEF Discard, FormComes, ComposeInv, FormOK
  <2>5. ASSUME NEW i \in Ids, Resume(i) PROVE FormComes
    BY <2>5 DEF Resume, Opened, FormComes
  <2> QED BY <2>1, <2>2, <2>3, <2>4, <2>5 DEF Forms
<1>4. NothingGoes
  <2>1. loose \subseteq loose'
    BY DEF Forms, Start, Close, Edit, Autosave, Discard, Schedule, Resume
  <2> QED BY <2>1, FormRequests DEF ComposeInv, NothingGoes, sending
<1> QED BY <1>1, <1>2, <1>3, <1>4 DEF Comes

LEMMA SendsPassOn ==
  ASSUME ComposeInv, NEW p \in Presses, Send(p) \/ Fire(p)
  PROVE  Comes
<1>1. DraftsCome /\ UndoComes /\ FormComes
  BY DEF Send, Fire, Quiet, composer, Offer, DraftsCome, UndoComes, FormComes, ComposeInv, FormOK
<1>2. CASE Send(p)
  <2>1. sends[p] = Unused /\ form # Nil
    BY <1>2 DEF Send, Following, ComposeInv, FormOK
  <2>2. SendsCome /\ NothingGoes
    BY <1>2, <2>1, UnusedOK DEF Send, SendsCome, NothingGoes, ComposeInv, SendsOK
  <2>3. RequestsCome
    BY <1>2 DEF Send, RequestsCome
  <2> QED BY <1>1, <2>2, <2>3 DEF Comes
<1>3. CASE Fire(p)
  <2>1. sends[p].st = "waiting" /\ sends[p] # Unused
    BY <1>3, UnusedOK DEF Fire
  <2>2. /\ SendsOK' /\ sends'[p].st = "posted" /\ \A q \in Presses \ {p} : sends'[q] = sends[q]
    BY <1>3, <2>1, EndStep DEF Fire, ComposeInv, States
  <2>3. SendsCome /\ NothingGoes
    BY <1>3, <2>2, UnusedOK DEF Fire, SendsCome, NothingGoes
  <2>4. RequestsCome
    BY <1>3, <2>1 DEF Fire, Post, RequestsCome
  <2> QED BY <1>1, <2>3, <2>4 DEF Comes
<1> QED BY <1>2, <1>3

LEMMA UndoPassesOn ==
  ASSUME ComposeInv, Undo \/ ToastGoes \/ EnterDMs
  PROVE  Comes
<1>1. DraftsCome /\ UndoComes /\ RequestsCome
  BY DEF Undo, ToastGoes, EnterDMs, Quiet, DraftsCome, UndoComes, RequestsCome
<1>2. FormComes
  BY DEF Undo, ToastGoes, EnterDMs, Opened, composer, FormComes
<1>3. SendsCome /\ NothingGoes
  <2>1. \/ sends' = sends
        \/ \E p \in Presses, st \in {"undone", "dropped"} : sends[p].st = "waiting" /\ End(p, st)
    BY DEF Undo, ToastGoes, EnterDMs, ComposeInv, OfferedOK
  <2>2. loose' = loose /\ fresh' = fresh
    BY DEF Undo, ToastGoes, EnterDMs
  <2>3. ASSUME NEW p \in Presses, NEW st \in {"undone", "dropped"}, sends[p].st = "waiting", End(p, st)
        PROVE  SendsCome /\ NothingGoes
    <3>1. sends[p] # Unused
      BY <2>3, UnusedOK
    <3>2. SendsOK' /\ sends'[p].st = st /\ \A q \in Presses \ {p} : sends'[q] = sends[q]
      BY <2>3, <3>1, EndStep DEF ComposeInv, States
    <3> QED BY <2>2, <2>3, <3>2, UnusedOK DEF SendsCome, NothingGoes
  <2> QED BY <2>1, <2>2, <2>3 DEF SendsCome, NothingGoes
<1> QED BY <1>1, <1>2, <1>3 DEF Comes

LEMMA AnswersCome ==
  ASSUME ComposeInv, Answers \/ \E p \in Presses, r \in reqs : SendDone(p, r)
  PROVE  Comes
<1> PICK r \in reqs : \/ SaveDone(r) \/ ScheduleDone(r) \/ DiscardDone(r)
                      \/ \E p \in Presses : SendDone(p, r)
  BY DEF Answers
<1>1. DraftsCome
  <2>1. ASSUME NEW created \in BOOLEAN, Stored(r, created) PROVE DraftsCome
    BY <2>1 DEF Stored, DraftsCome
  <2>2. \/ \E created \in BOOLEAN : Stored(r, created)
        \/ drafts' = [drafts EXCEPT ![r.old] = Nil]
        \/ drafts' = drafts
    BY DEF SaveDone, SendDone, ScheduleDone, DiscardDone, Missed
  <2>3. CASE drafts' = [drafts EXCEPT ![r.old] = Nil]
    BY <2>3 DEF DraftsCome, ComposeInv, StoreOK
  <2> QED BY <2>1, <2>2, <2>3 DEF DraftsCome
<1>2. RequestsCome /\ UndoComes
  BY DEF SaveDone, SendDone, ScheduleDone, DiscardDone, Done, sending, RequestsCome, UndoComes
<1>3. FormComes
  <2>1. r.mail # Nil
    BY ConstantFacts DEF ComposeInv, RequestsOK, Requests
  <2>2. CASE SaveDone(r)
    BY <2>1, <2>2 DEF SaveDone, Done, FormComes
  <2>3. CASE ~SaveDone(r)
    BY <2>3 DEF SendDone, ScheduleDone, DiscardDone, Done, FormComes
  <2> QED BY <2>2, <2>3
<1>4. SendsCome /\ NothingGoes
  <2>1. loose \subseteq loose' /\ fresh' = fresh
    BY DEF SaveDone, SendDone, ScheduleDone, DiscardDone, Done
  <2>2. ASSUME NEW p \in Presses, SendDone(p, r) PROVE SendsCome /\ NothingGoes
    <3>1. sends[p] # Unused
      BY <2>2, UnusedOK DEF SendDone, ComposeInv, RequestsOK, SendOf
    <3>2. SendsOK' /\ sends'[p].st = "ended" /\ \A q \in Presses \ {p} : sends'[q] = sends[q]
      BY <2>2, <3>1, EndStep DEF SendDone, ComposeInv, States
    <3> QED BY <2>1, <3>2, UnusedOK DEF SendsCome, NothingGoes
  <2>3. (\E p \in Presses : SendDone(p, r)) \/ sends' = sends
    BY DEF SaveDone, ScheduleDone, DiscardDone, sending
  <2> QED BY <2>1, <2>2, <2>3 DEF SendsCome, NothingGoes
<1> QED BY <1>1, <1>2, <1>3, <1>4 DEF Comes

LEMMA ReloadComes ==
  ASSUME ComposeInv, Reload
  PROVE  Comes
<1>1. DraftsCome /\ UndoComes /\ FormComes
  BY DEF Reload, DraftsCome, UndoComes, FormComes
<1>2. SendsCome /\ NothingGoes
  BY ReloadSends DEF Reload, SendsCome, NothingGoes
<1>3. RequestsCome
  <2> DEFINE lost(r) == [r EXCEPT !.heard = FALSE]
             posted == [kind |-> "send", mail |-> sends[pending].mail, id |-> MaxSaves + pending,
                        old |-> sends[pending].old, heard |-> FALSE]
  <2>1. \A r \in reqs : lost(r).id = r.id /\ lost(r).mail = r.mail /\ lost(r).old = r.old
    BY DEF ComposeInv, RequestsOK, Requests
  <2>2. pending # Nil => pending \in Presses /\ sends[pending].st = "waiting"
    BY DEF ComposeInv, OfferedOK
  <2>3. /\ posted.id = MaxSaves + pending /\ posted.mail = sends[pending].mail
        /\ posted.old = sends[pending].old
    OBVIOUS
  <2>4. reqs' = {lost(r) : r \in reqs} \cup (IF pending = Nil THEN {} ELSE {posted})
    BY DEF Reload
  <2> HIDE DEF lost, posted
  <2>5. \A r \in reqs' : (pending # Nil /\ r = posted) \/ \E q \in reqs : r = lost(q)
    BY <2>4
  <2> QED BY <2>1, <2>2, <2>3, <2>5 DEF RequestsCome
<1> QED BY <1>1, <1>2, <1>3 DEF Comes

LEMMA StepComes == ComposeInv /\ Next => Comes
BY FormsCome, SendsPassOn, UndoPassesOn, AnswersCome, ReloadComes DEF Next, Forms, Answers
\* Ids of drafts and of messages are apart.
LEMMA KnownFacts ==
  ASSUME ComposeInv, NEW i, Known(i)
  PROVE  /\ i = fresh + 1 => fresh = MaxSaves
         /\ \A p \in Presses : i = MaxSaves + p => sends[p] # Unused
<1>1. fresh \in Nat /\ fresh <= MaxSaves
  BY ConstantFacts DEF ComposeInv, StoreOK
<1>2. CASE i \in 1 .. fresh
  BY <1>1, <1>2, ConstantFacts
<1>3. ASSUME NEW q \in Presses, i = MaxSaves + q, sends[q] # Unused
      PROVE  /\ i = fresh + 1 => fresh = MaxSaves
             /\ \A p \in Presses : i = MaxSaves + p => sends[p] # Unused
  <2>1. q \in Nat /\ q >= 1 /\ MaxSaves \in Nat
    BY ConstantFacts
  <2>2. i = fresh + 1 => fresh = MaxSaves
    BY <1>1, <1>3, <2>1
  <2>3. \A p \in Presses : i = MaxSaves + p => p = q
    BY <1>3, ConstantFacts
  <2> QED BY <1>3, <2>2, <2>3
<1> QED BY <1>2, <1>3 DEF Known

\* A known id gets no other mail.
LEMMA BelongsStays ==
  ASSUME ComposeInv, ComposeInv', Comes, NEW i \in Ids, NEW m, Belongs(i, m)
  PROVE  Belongs(i, m)'
<1>1. i \in Nat /\ fresh \in Nat /\ fresh <= MaxSaves /\ i # Nil /\ fresh' \in Nat /\ Known(i)
  BY ConstantFacts DEF ComposeInv, StoreOK, Belongs
<1>2. Known(i)'
  BY <1>1 DEF Comes, NothingGoes, Known
<1>3. drafts'[i] \in {Nil, m}
  BY DEF Comes, DraftsCome, Belongs
<1>4. \A r \in reqs' : r.id = i => r.mail = m
  <2>1. fresh < MaxSaves => i # fresh + 1
    BY <1>1, KnownFacts, ConstantFacts
  <2> QED BY <1>1, <2>1 DEF Comes, RequestsCome, Belongs
<1>5. ASSUME NEW p \in Presses, i = MaxSaves + p, sends'[p].st = "waiting" PROVE sends'[p].mail = m
  <2>1. sends[p] # Unused
    BY <1>1, <1>5, KnownFacts
  <2> QED BY <1>5, <2>1 DEF Comes, SendsCome, Belongs
<1> QED BY <1>2, <1>3, <1>4, <1>5 DEF Belongs

LEMMA MineStays ==
  ASSUME ComposeInv, ComposeInv', Comes, NEW i \in Ids, NEW m, Mine(i, m)
  PROVE  Mine(i, m)'
BY BelongsStays DEF Mine, Comes, NothingGoes

\* An id that is not known is nobody's.
LEMMA StrangerIsFree ==
  ASSUME ComposeInv, OwnInv, NEW i \in Ids, ~Known(i)
  PROVE  /\ drafts[i] = Nil /\ \A r \in reqs : r.id # i
         /\ \A p \in Presses : i = MaxSaves + p => sends[p] = Unused
<1>1. i # Nil
  BY ConstantFacts
<1>2. drafts[i] = Nil
  BY DEF OwnInv, DraftsOwned, Belongs
<1>3. \A r \in reqs : r.id # i
  BY <1>1 DEF OwnInv, RequestsOwned, Belongs
<1> QED BY <1>2, <1>3 DEF Known

\* A draft saved under a new id is the form's mail.
LEMMA NewDraft ==
  ASSUME ComposeInv, ComposeInv', OwnInv, Comes, fresh' = fresh + 1, fresh < MaxSaves,
         NEW i, i = fresh + 1, NEW m, m = form
  PROVE  Belongs(i, m)'
<1>1. i \in Ids /\ fresh \in Nat /\ i \in 1 .. fresh' /\ i # Nil
  BY ConstantFacts DEF ComposeInv, StoreOK, Ids
<1>2. \A p \in Presses : i # MaxSaves + p
  BY <1>1, ConstantFacts DEF ComposeInv, StoreOK
<1>3. ~Known(i)
  BY <1>1, <1>2 DEF Known
<1>4. drafts[i] = Nil /\ \A r \in reqs : r.id # i
  BY <1>1, <1>3, StrangerIsFree
<1>5. drafts'[i] = Nil
  BY <1>1, <1>4 DEF Comes, DraftsCome
<1>6. \A r \in reqs' : r.id = i => r.mail = m
  BY <1>1, <1>2, <1>4 DEF Comes, RequestsCome
<1> QED BY <1>1, <1>2, <1>5, <1>6 DEF Belongs, Known

\* The message of a press is the form's mail.
LEMMA NewMessage ==
  ASSUME ComposeInv, ComposeInv', OwnInv, Comes, NEW p \in Presses, sends[p] = Unused,
         sends'[p].st = "waiting", NEW i, i = MaxSaves + p, NEW m, m = form
  PROVE  Belongs(i, m)'
<1>1. i \in Ids /\ i # Nil /\ \A q \in Presses : i = MaxSaves + q => q = p
  BY ConstantFacts
<1>3. ~Known(i)
  BY KnownFacts
<1>4. drafts[i] = Nil /\ \A r \in reqs : r.id # i
  BY <1>1, <1>3, StrangerIsFree
<1>5. drafts'[i] = Nil
  BY <1>1, <1>4 DEF Comes, DraftsCome
<1>6. fresh < MaxSaves => i # fresh + 1
  BY ConstantFacts DEF ComposeInv, StoreOK
<1>7. \A r \in reqs' : r.id = i => r.mail = m
  <2>1. \A q \in Presses : sends[q].st = "waiting" => i # MaxSaves + q
    BY <1>1, UnusedOK
  <2> QED BY <1>1, <1>4, <1>6, <2>1 DEF Comes, RequestsCome
<1>8. sends'[p] # Unused /\ sends'[p].mail = form
  BY UnusedOK DEF Comes, SendsCome
<1> QED BY <1>1, <1>5, <1>7, <1>8 DEF Belongs, Known
\* What the form holds is its own.
LEMMA FormIsMine == OwnInv /\ draftId # Nil /\ form # Nil => Mine(draftId, form)
BY DEF OwnInv, FormOwned, Mine

LEMMA OwnStep ==
  ASSUME ComposeInv, ComposeInv', OwnInv, Comes
  PROVE  OwnInv'
<1>1. DraftsOwned'
  <2>1. ASSUME NEW i \in Ids, NEW m, m = drafts'[i], m # Nil PROVE Belongs(i, m)'
    <3>1. CASE m = drafts[i]
      BY <2>1, <3>1, BelongsStays DEF OwnInv, DraftsOwned
    <3>2. ASSUME NEW r \in reqs, r.id = i, m = r.mail PROVE Belongs(i, m)'
      <4>1. Belongs(i, m)
        BY <3>2, ConstantFacts DEF OwnInv, RequestsOwned
      <4> QED BY <4>1, BelongsStays
    <3> QED BY <2>1, <3>1, <3>2 DEF Comes, DraftsCome
  <2> QED BY <2>1 DEF DraftsOwned, Belongs, Known
<1>2. RequestsOwned'
  <2>1. ASSUME NEW r \in reqs' PROVE (r.id # Nil => Belongs(r.id, r.mail)') /\ (r.old # Nil => Mine(r.old, r.mail)')
    <3>1. r.id \in Drafts /\ r.old \in Drafts
      BY DEF ComposeInv, RequestsOK, Requests, Drafts
    <3>2. CASE \E q \in reqs : r.id = q.id /\ r.mail = q.mail /\ r.old = q.old
      <4>1. (r.id # Nil => Belongs(r.id, r.mail)) /\ (r.old # Nil => Mine(r.old, r.mail))
        BY <3>2 DEF OwnInv, RequestsOwned
      <4> QED BY <3>1, <4>1, BelongsStays, MineStays DEF Drafts
    <3>3. CASE \E p \in Presses : /\ sends[p].st = "waiting" /\ r.id = MaxSaves + p
                                  /\ r.mail = sends[p].mail /\ r.old = sends[p].old
      <4>1. (r.id # Nil => Belongs(r.id, r.mail)) /\ (r.old # Nil => Mine(r.old, r.mail))
        BY <3>3 DEF OwnInv, WaitingOwned
      <4> QED BY <3>1, <4>1, BelongsStays, MineStays DEF Drafts
    <3>4. CASE /\ r.mail = form /\ form # Nil /\ r.old = draftId
               /\ r.id = Nil \/ (r.id = fresh + 1 /\ fresh' = fresh + 1 /\ fresh < MaxSaves)
      <4>1. r.id # Nil => Belongs(r.id, r.mail)'
        BY <3>4, NewDraft
      <4>2. r.old # Nil => Mine(r.old, r.mail)
        BY <3>4, FormIsMine
      <4> QED BY <3>1, <4>1, <4>2, MineStays DEF Drafts
    <3> QED BY <3>2, <3>3, <3>4 DEF Comes, RequestsCome
  <2> QED BY <2>1 DEF RequestsOwned
<1>3. WaitingOwned'
  <2>1. ASSUME NEW p \in Presses, sends'[p].st = "waiting",
               NEW m, m = sends'[p].mail, NEW old, old = sends'[p].old, NEW i, i = MaxSaves + p
        PROVE  Belongs(i, m)' /\ (old # Nil => Mine(old, m)')
    <3>1. i \in Ids /\ old \in Drafts
      BY <2>1, ConstantFacts DEF ComposeInv, SendsOK, Sending
    <3>2. CASE sends'[p] = sends[p]
      <4>1. Belongs(i, m) /\ (old # Nil => Mine(old, m))
        BY <2>1, <3>2 DEF OwnInv, WaitingOwned
      <4> QED BY <3>1, <4>1, BelongsStays, MineStays DEF Drafts
    <3>3. CASE sends[p] = Unused /\ m = form /\ form # Nil /\ old = draftId
      <4>1. Belongs(i, m)'
        BY <2>1, <3>3, NewMessage
      <4>2. old # Nil => Mine(old, m)
        BY <3>3, FormIsMine
      <4> QED BY <3>1, <4>1, <4>2, MineStays DEF Drafts
    <3> QED BY <2>1, <3>2, <3>3 DEF Comes, SendsCome
  <2> QED BY <2>1 DEF WaitingOwned, Mine, Belongs, Known
<1>4. UndoOwned'
  <2>1. ASSUME NEW m, m = undo'.mail, NEW old, old = undo'.old, undo' # Nil, old # Nil PROVE Mine(old, m)'
    <3>1. old \in Ids
      BY <2>1 DEF ComposeInv, OfferedOK, Drafts
    <3>2. Mine(old, m)
      BY <2>1, FormIsMine DEF Comes, UndoComes, OwnInv, UndoOwned
    <3> QED BY <3>1, <3>2, MineStays
  <2> QED BY <2>1 DEF UndoOwned, Mine, Belongs, Known
<1>5. FormOwned'
  <2>1. ASSUME NEW d, d = draftId', d # Nil, NEW m, m = form'
        PROVE  d \in loose' \/ (m # Nil /\ Belongs(d, m)')
    <3>1. d \in Ids /\ loose \subseteq loose'
      BY <2>1 DEF ComposeInv, FormOK, Drafts, Comes, NothingGoes
    <3>2. CASE d = draftId /\ (m = form \/ form = Nil \/ d \in loose')
      BY <2>1, <3>1, <3>2, BelongsStays DEF OwnInv, FormOwned
    <3>3. CASE drafts[d] # Nil /\ m = drafts[d]
      BY <3>1, <3>3, BelongsStays DEF OwnInv, DraftsOwned
    <3>4. CASE undo # Nil /\ d = undo.old /\ m = undo.mail
      <4>1. Mine(d, m) /\ m # Nil
        BY <2>1, <3>4, ConstantFacts DEF OwnInv, UndoOwned, ComposeInv, OfferedOK
      <4> QED BY <3>1, <4>1, BelongsStays DEF Mine
    <3>5. CASE \E r \in reqs : d = r.id /\ (r.id \in loose' \/ (m = r.mail /\ r.mail # Nil))
      BY <2>1, <3>1, <3>5, BelongsStays DEF OwnInv, RequestsOwned
    <3> QED BY <2>1, <3>2, <3>3, <3>4, <3>5 DEF Comes, FormComes
  <2> QED BY <2>1 DEF FormOwned, Belongs, Known
<1> QED BY <1>1, <1>2, <1>3, <1>4, <1>5 DEF OwnInv

LEMMA OwnHolds == Spec => [](ComposeInv /\ OwnInv)
<1>1. Init => ComposeInv /\ OwnInv
  BY InitInv, InitOwn
<1>2. ComposeInv /\ OwnInv /\ [Next]_vars => (ComposeInv /\ OwnInv)'
  <2> SUFFICES ASSUME ComposeInv, OwnInv, [Next]_vars PROVE (ComposeInv /\ OwnInv)'
    OBVIOUS
  <2>1. CASE Next
    BY <2>1, NextInv, StepComes, OwnStep
  <2>2. CASE UNCHANGED vars
    BY <2>2, NextInv DEF vars, composer, sending, OwnInv, DraftsOwned, RequestsOwned, WaitingOwned,
                         UndoOwned, FormOwned, Mine, Belongs, Known
  <2> QED BY <2>1, <2>2
<1> QED BY <1>1, <1>2, PTL DEF Spec

LEMMA StepKeepsDrafts ==
  ASSUME ComposeInv, OwnInv, Next
  PROVE  \A r \in reqs \ reqs', i \in Ids :
           drafts[i] # Nil /\ drafts'[i] = Nil => drafts[i] = r.mail \/ i \in loose
<1> SUFFICES ASSUME NEW r \in reqs \ reqs', NEW i \in Ids, drafts[i] # Nil, drafts'[i] = Nil
             PROVE  drafts[i] = r.mail \/ i \in loose
  OBVIOUS
<1>1. Answers \/ \E p \in Presses, q \in reqs : SendDone(p, q)
  BY FormRequests DEF Next, Forms, Answers, Send, Fire, Undo, ToastGoes, EnterDMs, Reload, Quiet, ComposeInv
<1> PICK q \in reqs : \/ SaveDone(q) \/ ScheduleDone(q) \/ DiscardDone(q)
                      \/ \E p \in Presses : SendDone(p, q)
  BY <1>1 DEF Answers
<1>2. r = q
  BY DEF SaveDone, SendDone, ScheduleDone, DiscardDone, Done
<1>3. i = q.old
  <2>1. ASSUME NEW created \in BOOLEAN, Stored(q, created) PROVE i = q.old
    <3>1. q.mail # Nil
      BY ConstantFacts DEF ComposeInv, RequestsOK, Requests
    <3> QED BY <2>1, <3>1 DEF Stored
  <2>2. \/ \E created \in BOOLEAN : Stored(q, created)
        \/ drafts' = [drafts EXCEPT ![q.old] = Nil]
        \/ drafts' = drafts
    BY DEF SaveDone, SendDone, ScheduleDone, DiscardDone, Missed
  <2> QED BY <2>1, <2>2 DEF ComposeInv, StoreOK
<1> QED BY <1>2, <1>3, ConstantFacts DEF OwnInv, RequestsOwned, Mine, Belongs

\* A saved draft is destroyed only on behalf of its own mail, but for the ids that reached
\* S.draftId, or stayed in it, after the composer had gone on: whichever answers come late,
\* out of order or never, no save, send or discard takes another mail's draft with it (app.js).
THEOREM DraftsAreKept == Spec => DraftsKept
<1>1. ComposeInv /\ OwnInv /\ [Next]_vars =>
        [\A r \in reqs \ reqs', i \in Ids :
           drafts[i] # Nil /\ drafts'[i] = Nil => drafts[i] = r.mail \/ i \in loose]_vars
  BY StepKeepsDrafts
<1> QED BY <1>1, OwnHolds, PTL DEF Spec, DraftsKept
=============================================================================
