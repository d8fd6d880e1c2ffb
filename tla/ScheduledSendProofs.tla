------------------------ MODULE ScheduledSendProofs -------------------------
(***************************************************************************)
(* Theorems about ScheduledSend, for any mails, devices, rounds of each    *)
(* device, accounts, and bounds on page loads and faults.                  *)
(***************************************************************************)
EXTENDS ScheduledSend, FiniteSetTheorems, TLAPS

-----------------------------------------------------------------------------
(* The invariant, part by part.                                             *)

MailOK ==
  /\ account \in Accounts
  /\ box \in [Msgs -> SUBSET account.folders] /\ kw \in [Msgs -> SUBSET {"draft", "sendat"}]
  /\ submitted \in [Msgs -> Nat]

\* The rounds of a device: one at a time, while the page is open and the flag is set.
GoodRound(r) ==
  /\ r.pc = "idle" => r = Idle
  /\ r.pc \in {"query", "refresh"} => r.todo = {}
  /\ r.pc # "back" => r.cur = {}
  /\ \A x, y \in r.cur : x = y
RoundsOK ==
  /\ open \in [Devices -> BOOLEAN] /\ dispatching \in [Devices -> BOOLEAN]
  /\ DOMAIN round = Devices
  /\ \A d \in Devices : round[d] \in [Rounds[d] -> Round]
  /\ \A d \in Devices : \A k \in Rounds[d] :
       GoodRound(round[d][k]) /\ (Pc(d, k) # "idle" => open[d] /\ dispatching[d])
  /\ \A d \in Devices : \A j, k \in Rounds[d] :
       Pc(d, j) # "idle" /\ Pc(d, k) # "idle" => j = k

Todo(d) == UNION {round[d][k].todo : k \in Rounds[d]}
Cur(d) == UNION {round[d][k].cur : k \in Rounds[d]}

\* What is or will be submitted was due when it was listed.
DueOK ==
  /\ due \subseteq Msgs
  /\ \A d \in Devices : Todo(d) \subseteq due
  /\ \A o \in orphans : o[1] \in due
  /\ NotBeforeTime

\* A mail that was not sent keeps its draft mark, and its time unless it is in Drafts.
DraftOK ==
  \A m \in Msgs : box[m] # {} /\ submitted[m] = 0 =>
    /\ "draft" \in kw[m] /\ "sent" \notin box[m]
    /\ \/ "drafts" \in box[m]
       \/ "sendat" \in kw[m] /\ box[m] \cap {"scheduled", "outbox"} # {}

\* A mail rests in Outbox only if it is on its way back or its way back was cut off.
OutboxOK ==
  /\ cut \subseteq Msgs
  /\ \A m \in Msgs : "outbox" \in box[m] => m \in cut \/ \E d \in Devices : m \in Cur(d)

\* The page loads that listed a mail and still have a request for it to make or under way.
Attempt(m, p) ==
  \/ <<m, p>> \in orphans
  \/ \E d \in Devices : p = <<d, loads[d]>> /\ m \in Todo(d)
Used(m) == {p \in listed[m] : ~Attempt(m, p)}
AttemptsOK ==
  /\ loads \in [Devices -> 0 .. MaxLoads]
  /\ orphans \subseteq Msgs \X (Devices \X (0 .. MaxLoads))
  /\ \A d \in Devices : \A l \in 0 .. MaxLoads, m \in Msgs :
       <<m, <<d, l>>>> \in orphans => l < loads[d] \/ (l = loads[d] /\ ~open[d])
  /\ \A m \in Msgs : /\ listed[m] \subseteq Devices \X (0 .. MaxLoads)
                     /\ IsFiniteSet(listed[m])
                     /\ \A d \in Devices : m \in Todo(d) => <<d, loads[d]>> \in listed[m]
                     /\ \A p \in Devices \X (0 .. MaxLoads) :
                          <<m, p>> \in orphans => p \in listed[m]
\* A mail that was sent is not listed again, and each submission has used up a listing.
CountOK ==
  \A m \in Msgs : /\ submitted[m] > 0 => "sendat" \notin kw[m]
                  /\ submitted[m] <= Cardinality(Used(m))
RestOK == counted \in [Devices -> BOOLEAN] /\ faults \in 0 .. MaxFaults

SchedulerInv ==
  /\ MailOK /\ RoundsOK /\ RestOK
  /\ DueOK /\ DraftOK /\ OutboxOK /\ AttemptsOK /\ CountOK

-----------------------------------------------------------------------------
(* Constants, and the folders a mail may be in.                             *)

LEMMA ConstantFacts == DOMAIN Rounds = Devices /\ MaxLoads \in Nat /\ MaxFaults \in Nat
BY SchedulerAssumption

LEMMA FolderFacts ==
  ASSUME account \in Accounts
  PROVE  /\ "scheduled" \in account.folders /\ "drafts" \in account.folders
         /\ Out \in account.folders /\ Sent \in account.folders /\ Sent # Out
         /\ Sent \in {"sent", "scheduled"} /\ Out \in {"outbox", "scheduled"}
         /\ Out # "outbox" => "outbox" \notin account.folders
         /\ account.mails \subseteq Msgs
<1>1. /\ {"scheduled", "drafts"} \subseteq account.folders /\ account.mails \subseteq Msgs
      /\ account.folders \cap {"outbox", "sent"} # {}
  BY SchedulerAssumption
<1> QED BY <1>1 DEF Out, Sent

LEMMA FaultStep == faults \in 0 .. MaxFaults /\ (Ok \/ Fault) => faults' \in 0 .. MaxFaults
BY ConstantFacts DEF Ok, Fault

LEMMA RecountStep == ASSUME NEW d \in Devices, RestOK, Recount(d) PROVE RestOK'
<1>1. faults' \in 0 .. MaxFaults
  BY FaultStep DEF Recount, RestOK
<1>2. counted' \in [Devices -> BOOLEAN]
  BY DEF Recount, RestOK
<1> QED BY <1>1, <1>2 DEF RestOK

\* What happens to one mail happens to no other.
LEMMA OneMail ==
  ASSUME MailOK, UNCHANGED account, NEW m \in Msgs,
         NEW b \in SUBSET account.folders, NEW w \in SUBSET {"draft", "sendat"},
         box' = [box EXCEPT ![m] = b], kw' = [kw EXCEPT ![m] = w],
         \/ UNCHANGED submitted
         \/ submitted' = [submitted EXCEPT ![m] = @ + 1]
  PROVE  /\ MailOK' /\ box'[m] = b /\ kw'[m] = w
         /\ \A n \in Msgs \ {m} :
              box'[n] = box[n] /\ kw'[n] = kw[n] /\ submitted'[n] = submitted[n]
BY DEF MailOK

LEMMA AcceptsStep ==
  ASSUME MailOK, UNCHANGED account, NEW m \in Msgs, Accepts(m)
  PROVE  /\ MailOK' /\ box'[m] = (ToOutbox(m) \cup {Sent}) \ {Out} /\ kw'[m] = {}
         /\ submitted'[m] = submitted[m] + 1 /\ "outbox" \notin box'[m]
         /\ \A n \in Msgs \ {m} :
              box'[n] = box[n] /\ kw'[n] = kw[n] /\ submitted'[n] = submitted[n]
<1> DEFINE b == (ToOutbox(m) \cup {Sent}) \ {Out}
<1>1. b \in SUBSET account.folders /\ "outbox" \notin b
  <2>1. box[m] \subseteq account.folders /\ account \in Accounts
    BY DEF MailOK
  <2>2. ToOutbox(m) \subseteq account.folders
    BY <2>1, FolderFacts DEF ToOutbox
  <2> QED BY <2>1, <2>2, FolderFacts
<1>2. box' = [box EXCEPT ![m] = b] /\ kw' = [kw EXCEPT ![m] = {}]
  BY DEF Accepts
<1>3. submitted' = [submitted EXCEPT ![m] = @ + 1] /\ submitted'[m] = submitted[m] + 1
  BY DEF Accepts, MailOK
<1> HIDE DEF b
<1>4. /\ MailOK' /\ box'[m] = b /\ kw'[m] = {}
      /\ \A n \in Msgs \ {m} :
           box'[n] = box[n] /\ kw'[n] = kw[n] /\ submitted'[n] = submitted[n]
  BY <1>1, <1>2, <1>3, OneMail
<1> QED BY <1>1, <1>3, <1>4 DEF b

LEMMA RejectsStep ==
  ASSUME MailOK, UNCHANGED account, NEW m \in Msgs, Rejects(m)
  PROVE  /\ MailOK' /\ box'[m] = (IF box[m] = {} THEN {} ELSE ToOutbox(m))
         /\ UNCHANGED <<kw, submitted>> /\ (Ok \/ Fault)
         /\ \A n \in Msgs \ {m} : box'[n] = box[n]
<1>1. box[m] \subseteq account.folders /\ account \in Accounts
  BY DEF MailOK
<1>2. ToOutbox(m) \subseteq account.folders
  BY <1>1, FolderFacts DEF ToOutbox
<1>3. UNCHANGED <<kw, submitted>> /\ (Ok \/ Fault)
  BY DEF Rejects
<1>4. /\ box' \in [Msgs -> SUBSET account.folders]
      /\ box'[m] = (IF box[m] = {} THEN {} ELSE ToOutbox(m))
      /\ \A n \in Msgs \ {m} : box'[n] = box[n]
  BY <1>1, <1>2 DEF Rejects, MailOK
<1> QED BY <1>3, <1>4 DEF MailOK
-----------------------------------------------------------------------------
(* Rounds.                                                                  *)

Others(d, k) ==
  \A e \in Devices : \A j \in Rounds[e] : e # d \/ j # k => round'[e][j] = round[e][j]

LEMMA IdleOK == Idle \in Round /\ GoodRound(Idle) /\ Idle.todo = {} /\ Idle.cur = {} /\ Idle.pc = "idle"
BY DEF Idle, Round, GoodRound

LEMMA PutFacts ==
  ASSUME RoundsOK, NEW d \in Devices, NEW k \in Rounds[d], NEW r \in Round, Put(d, k, r)
  PROVE  /\ DOMAIN round' = Devices /\ round'[d][k] = r /\ Others(d, k)
         /\ \A e \in Devices : round'[e] \in [Rounds[e] -> Round]
<1>1. /\ DOMAIN round' = Devices /\ round'[d] = [round[d] EXCEPT ![k] = r]
      /\ \A e \in Devices \ {d} : round'[e] = round[e]
  BY DEF Put, RoundsOK
<1>2. round[d] \in [Rounds[d] -> Round]
  BY DEF RoundsOK
<1>3. /\ round'[d] \in [Rounds[d] -> Round] /\ round'[d][k] = r
      /\ \A j \in Rounds[d] \ {k} : round'[d][j] = round[d][j]
  BY <1>1, <1>2
<1>4. \A e \in Devices : round'[e] \in [Rounds[e] -> Round]
  BY <1>1, <1>3 DEF RoundsOK
<1> QED BY <1>1, <1>3, <1>4 DEF Others

\* A round goes on: no other round of the page is in progress.
LEMMA GoOnStep ==
  ASSUME RoundsOK, NEW d \in Devices, NEW k \in Rounds[d], NEW r \in Round, GoodRound(r),
         Put(d, k, r), UNCHANGED open, open[d],
         \A j \in Rounds[d] \ {k} : Pc(d, j) = "idle",
         dispatching' = [dispatching EXCEPT ![d] = TRUE]
  PROVE  RoundsOK' /\ round'[d][k] = r /\ Others(d, k)
<1>1. /\ DOMAIN round' = Devices /\ round'[d][k] = r /\ Others(d, k)
      /\ \A e \in Devices : round'[e] \in [Rounds[e] -> Round]
  BY PutFacts
<1>2. /\ dispatching' \in [Devices -> BOOLEAN] /\ dispatching'[d]
      /\ \A e \in Devices \ {d} : dispatching'[e] = dispatching[e]
  BY DEF RoundsOK
<1>3. \A e \in Devices : \A j \in Rounds[e] :
        GoodRound(round'[e][j]) /\ (Pc(e, j)' # "idle" => open[e] /\ dispatching'[e])
  BY <1>1, <1>2 DEF RoundsOK, Others, Pc
<1>4. \A e \in Devices : \A i, j \in Rounds[e] :
        Pc(e, i)' # "idle" /\ Pc(e, j)' # "idle" => i = j
  BY <1>1 DEF RoundsOK, Others, Pc
<1> QED BY <1>1, <1>2, <1>3, <1>4 DEF RoundsOK, Pc

LEMMA LeaveStep ==
  ASSUME RoundsOK, NEW d \in Devices, NEW k \in Rounds[d], Pc(d, k) # "idle",
         Leave(d, k), UNCHANGED open
  PROVE  RoundsOK' /\ round'[d][k] = Idle /\ Others(d, k)
<1>1. /\ DOMAIN round' = Devices /\ round'[d][k] = Idle /\ Others(d, k)
      /\ \A e \in Devices : round'[e] \in [Rounds[e] -> Round]
  BY PutFacts, IdleOK DEF Leave
<1>2. /\ dispatching' \in [Devices -> BOOLEAN]
      /\ \A e \in Devices \ {d} : dispatching'[e] = dispatching[e]
  BY DEF RoundsOK, Leave
<1>3. \A j \in Rounds[d] : Pc(d, j)' = "idle"
  BY <1>1, IdleOK DEF RoundsOK, Others, Pc
<1>4. \A e \in Devices : \A j \in Rounds[e] :
        GoodRound(round'[e][j]) /\ (Pc(e, j)' # "idle" => open[e] /\ dispatching'[e])
  <2>1. \A j \in Rounds[d] : GoodRound(round'[d][j])
    BY <1>1, IdleOK DEF RoundsOK, Others
  <2> QED BY <1>1, <1>2, <1>3, <2>1 DEF RoundsOK, Others, Pc
<1>5. \A e \in Devices : \A i, j \in Rounds[e] :
        Pc(e, i)' # "idle" /\ Pc(e, j)' # "idle" => i = j
  BY <1>1, <1>3 DEF RoundsOK, Others, Pc
<1> QED BY <1>1, <1>2, <1>4, <1>5 DEF RoundsOK, Pc

\* A round under way is the only one, and the flag stays.
LEMMA UnderWay ==
  ASSUME RoundsOK, NEW d \in Devices, NEW k \in Rounds[d], Pc(d, k) # "idle"
  PROVE  /\ open[d] /\ dispatching = [dispatching EXCEPT ![d] = TRUE]
         /\ \A j \in Rounds[d] \ {k} : Pc(d, j) = "idle"
         /\ round[d][k] \in Round /\ GoodRound(round[d][k])
<1>1. dispatching \in [Devices -> BOOLEAN] /\ dispatching[d]
  BY DEF RoundsOK
<1>2. dispatching = [dispatching EXCEPT ![d] = TRUE]
  BY <1>1
<1> QED BY <1>2 DEF RoundsOK

LEMMA ContinueStep ==
  ASSUME RoundsOK, NEW d \in Devices, NEW k \in Rounds[d], Pc(d, k) # "idle", UNCHANGED open,
         NEW todo \in SUBSET Msgs, NEW sentN, sentN \in BOOLEAN, Continue(d, k, todo, sentN)
  PROVE  /\ RoundsOK' /\ Others(d, k)
         /\ round'[d][k].todo = todo /\ round'[d][k].cur = {}
<1>1. CASE todo = {} /\ ~sentN
  BY <1>1, LeaveStep, IdleOK DEF Continue
<1>2. CASE ~(todo = {} /\ ~sentN)
  <2> DEFINE r == [pc |-> IF todo = {} THEN "refresh" ELSE "post", todo |-> todo,
                   cur |-> {}, sentN |-> sentN]
  <2>1. r \in Round /\ GoodRound(r) /\ r.todo = todo /\ r.cur = {}
    BY DEF Round, GoodRound, Idle
  <2>2. Put(d, k, r) /\ UNCHANGED dispatching
    BY <1>2 DEF Continue
  <2> HIDE DEF r
  <2>3. RoundsOK' /\ round'[d][k] = r /\ Others(d, k)
    BY <2>1, <2>2, GoOnStep, UnderWay
  <2> QED BY <2>1, <2>3
<1> QED BY <1>1, <1>2

\* What a round has left to submit and to move back is that of the page.
LEMMA PageSets ==
  ASSUME RoundsOK, NEW d \in Devices, NEW k \in Rounds[d],
         \A j \in Rounds[d] \ {k} : Pc(d, j) = "idle"
  PROVE  Todo(d) = round[d][k].todo /\ Cur(d) = round[d][k].cur
<1>1. \A j \in Rounds[d] \ {k} : round[d][j].todo = {} /\ round[d][j].cur = {}
  BY IdleOK DEF RoundsOK, Pc, GoodRound
<1> QED BY <1>1 DEF Todo, Cur

\* After a step of a round of d the sets of d are those of that round; the other pages
\* keep theirs.
LEMMA PageStep ==
  ASSUME RoundsOK, NEW d \in Devices, NEW k \in Rounds[d], Others(d, k),
         \A j \in Rounds[d] \ {k} : Pc(d, j) = "idle"
  PROVE  /\ Todo(d)' = round'[d][k].todo /\ Cur(d)' = round'[d][k].cur
         /\ \A e \in Devices \ {d} : Todo(e)' = Todo(e) /\ Cur(e)' = Cur(e)
<1>1. \A j \in Rounds[d] \ {k} : round'[d][j].todo = {} /\ round'[d][j].cur = {}
  BY IdleOK DEF RoundsOK, Pc, GoodRound, Others
<1>2. Todo(d)' = round'[d][k].todo /\ Cur(d)' = round'[d][k].cur
  BY <1>1 DEF Todo, Cur
<1>3. \A e \in Devices \ {d} : Todo(e)' = Todo(e) /\ Cur(e)' = Cur(e)
  BY DEF Todo, Cur, Others
<1> QED BY <1>2, <1>3
-----------------------------------------------------------------------------
(* What each step does to the rounds and to the sets of the pages.          *)

SameSets == \A e \in Devices : Todo(e)' = Todo(e) /\ Cur(e)' = Cur(e)
OthersKeep(d) == \A e \in Devices \ {d} : Todo(e)' = Todo(e) /\ Cur(e)' = Cur(e)

LEMMA NoRoundStep ==
  ASSUME RoundsOK, UNCHANGED <<round, dispatching>>,
         \/ UNCHANGED open
         \/ \E d \in Devices : open' = [open EXCEPT ![d] = TRUE]
  PROVE  RoundsOK' /\ SameSets
<1>1. SameSets
  BY DEF SameSets, Todo, Cur
<1>2. open' \in [Devices -> BOOLEAN] /\ \A d \in Devices : open[d] => open'[d]
  BY DEF RoundsOK
<1>3. RoundsOK'
  BY <1>2 DEF RoundsOK, Pc
<1> QED BY <1>1, <1>3

LEMMA WakeStep ==
  ASSUME RoundsOK, NEW d \in Devices, NEW k \in Rounds[d], Wake(d, k)
  PROVE  RoundsOK' /\ SameSets
<1> DEFINE r == [Idle EXCEPT !.pc = "query"]
<1>1. r \in Round /\ GoodRound(r) /\ r.todo = {} /\ r.cur = {}
  BY DEF Round, GoodRound, Idle
<1>2. /\ Put(d, k, r) /\ open[d] /\ UNCHANGED open
      /\ dispatching' = [dispatching EXCEPT ![d] = TRUE]
  BY DEF Wake, page
<1>3. \A j \in Rounds[d] : Pc(d, j) = "idle"
  BY DEF Wake, RoundsOK
<1> HIDE DEF r
<1>4. RoundsOK' /\ round'[d][k] = r /\ Others(d, k)
  BY <1>1, <1>2, <1>3, GoOnStep
<1>5. round[d][k] = Idle
  BY <1>3 DEF RoundsOK, Pc, GoodRound
<1>6. Todo(d) = {} /\ Cur(d) = {}
  BY <1>3, <1>5, IdleOK, PageSets
<1>7. Todo(d)' = {} /\ Cur(d)' = {} /\ OthersKeep(d)
  BY <1>1, <1>3, <1>4, PageStep DEF OthersKeep
<1> QED BY <1>4, <1>6, <1>7 DEF SameSets, OthersKeep

LEMMA ListStep ==
  ASSUME RoundsOK, NEW d \in Devices, NEW k \in Rounds[d], List(d, k)
  PROVE  /\ RoundsOK' /\ OthersKeep(d) /\ Todo(d) = {} /\ Cur(d) = {} /\ Cur(d)' = {}
         /\ open[d] /\ UNCHANGED open /\ (Ok \/ Fault)
         /\ \/ /\ listed' = [m \in Msgs |-> listed[m] \cup
                               IF m \in Due THEN {<<d, loads[d]>>} ELSE {}]
               /\ Todo(d)' = Due
            \/ Todo(d)' = {} /\ UNCHANGED listed
<1>1. Pc(d, k) = "query" /\ UNCHANGED open
  BY DEF List, page
<1>2. /\ open[d] /\ \A j \in Rounds[d] \ {k} : Pc(d, j) = "idle"
      /\ GoodRound(round[d][k])
  BY <1>1, UnderWay
<1>3. Todo(d) = {} /\ Cur(d) = {}
  BY <1>1, <1>2, PageSets DEF GoodRound, Pc
<1>4. CASE /\ listed' = [m \in Msgs |-> listed[m] \cup
                           IF m \in Due THEN {<<d, loads[d]>>} ELSE {}]
           /\ Continue(d, k, Due, FALSE) /\ Ok
  <2>1. Due \in SUBSET Msgs
    BY DEF Due, InScheduled
  <2>2. RoundsOK' /\ Others(d, k) /\ round'[d][k].todo = Due /\ round'[d][k].cur = {}
    BY <1>1, <1>4, <2>1, ContinueStep
  <2>3. Todo(d)' = Due /\ Cur(d)' = {} /\ OthersKeep(d)
    BY <1>2, <2>2, PageStep DEF OthersKeep
  <2> QED BY <1>1, <1>2, <1>3, <1>4, <2>2, <2>3
<1>5. CASE Leave(d, k) /\ Fault /\ UNCHANGED listed
  <2>1. RoundsOK' /\ round'[d][k] = Idle /\ Others(d, k)
    BY <1>1, <1>5, LeaveStep
  <2>2. Todo(d)' = {} /\ Cur(d)' = {} /\ OthersKeep(d)
    BY <1>2, <2>1, IdleOK, PageStep DEF OthersKeep
  <2> QED BY <1>1, <1>2, <1>3, <1>5, <2>1, <2>2
<1> QED BY <1>4, <1>5 DEF List

\* One mail leaves the list: accepted, refused and on its way back, refused with the way
\* back cut off, or not reached.
Posted(d, m) ==
  \/ Accepts(m) /\ UNCHANGED cut /\ Cur(d)' = {}
  \/ /\ Rejects(m) /\ UNCHANGED cut
     /\ Cur(d)' = IF Out = "outbox" THEN {m} ELSE {}
  \/ Rejects(m) /\ cut' = cut \cup {m} /\ Cur(d)' = {}
  \/ UNCHANGED <<mail, cut>> /\ Cur(d)' = {}

LEMMA PostRest ==
  ASSUME RoundsOK, NEW d \in Devices, NEW k \in Rounds[d], Pc(d, k) = "post", UNCHANGED open,
         NEW m \in round[d][k].todo, NEW sentN, sentN \in BOOLEAN,
         Continue(d, k, round[d][k].todo \ {m}, sentN)
  PROVE  /\ RoundsOK' /\ OthersKeep(d)
         /\ Todo(d)' = Todo(d) \ {m} /\ Cur(d)' = {}
<1>1. /\ \A j \in Rounds[d] \ {k} : Pc(d, j) = "idle"
      /\ round[d][k] \in Round
  BY UnderWay
<1>2. PICK rest \in SUBSET Msgs : rest = round[d][k].todo \ {m}
  BY <1>1 DEF Round
<1>3. Continue(d, k, rest, sentN) /\ Pc(d, k) # "idle"
  BY <1>2
<1>4. RoundsOK' /\ Others(d, k) /\ round'[d][k].todo = rest /\ round'[d][k].cur = {}
  <2>1. CASE sentN
    <3>1. Continue(d, k, rest, TRUE)
      BY <1>3, <2>1
    <3> QED BY <1>3, <3>1, ContinueStep
  <2>2. CASE ~sentN
    <3>1. Continue(d, k, rest, FALSE)
      BY <1>3, <2>2
    <3> QED BY <1>3, <3>1, ContinueStep
  <2> QED BY <2>1, <2>2
<1> QED BY <1>1, <1>2, <1>4, PageSets, PageStep DEF OthersKeep

LEMMA RefusedStep ==
  ASSUME RoundsOK, NEW d \in Devices, NEW k \in Rounds[d], Pc(d, k) = "post", UNCHANGED open,
         NEW m \in round[d][k].todo, Refused(d, k, m)
  PROVE  /\ RoundsOK' /\ OthersKeep(d)
         /\ Todo(d)' = Todo(d) \ {m} /\ Cur(d)' = IF Out = "outbox" THEN {m} ELSE {}
<1>1. /\ open[d] /\ dispatching = [dispatching EXCEPT ![d] = TRUE]
      /\ \A j \in Rounds[d] \ {k} : Pc(d, j) = "idle"
      /\ round[d][k] \in Round
  BY UnderWay
<1>2. CASE Out = "outbox"
  <2> DEFINE r == [round[d][k] EXCEPT !.pc = "back", !.todo = @ \ {m}, !.cur = {m}]
  <2>1. /\ r \in Round /\ GoodRound(r) /\ r.cur = {m} /\ r.todo = round[d][k].todo \ {m}
    BY <1>1 DEF Round, GoodRound, Idle
  <2>2. Put(d, k, r) /\ UNCHANGED dispatching
    BY <1>2 DEF Refused
  <2> HIDE DEF r
  <2>3. RoundsOK' /\ round'[d][k] = r /\ Others(d, k)
    BY <1>1, <2>1, <2>2, GoOnStep
  <2> QED BY <1>1, <1>2, <2>1, <2>3, PageSets, PageStep DEF OthersKeep
<1>3. CASE Out # "outbox"
  <2>1. PICK sentN : sentN \in BOOLEAN /\ sentN = round[d][k].sentN
    BY <1>1 DEF Round
  <2>2. Continue(d, k, round[d][k].todo \ {m}, sentN)
    BY <1>3, <2>1 DEF Refused
  <2> QED BY <1>3, <2>1, <2>2, PostRest
<1> QED BY <1>2, <1>3
LEMMA PostStep ==
  ASSUME RoundsOK, NEW d \in Devices, NEW k \in Rounds[d], Post(d, k)
  PROVE  /\ RoundsOK' /\ OthersKeep(d) /\ open[d] /\ UNCHANGED open
         /\ Cur(d) = {} /\ Todo(d) \subseteq Msgs
         /\ \E m \in Todo(d) : Posted(d, m) /\ Todo(d)' = Todo(d) \ {m}
         /\ (Ok \/ Fault)
<1>1. Pc(d, k) = "post" /\ UNCHANGED open
  BY DEF Post, page
<1>2. /\ open[d] /\ \A j \in Rounds[d] \ {k} : Pc(d, j) = "idle"
      /\ round[d][k] \in Round /\ GoodRound(round[d][k])
  BY <1>1, UnderWay
<1>3. Todo(d) = round[d][k].todo /\ Cur(d) = {} /\ Todo(d) \subseteq Msgs
  BY <1>1, <1>2, PageSets DEF GoodRound, Pc, Round
<1>4. PICK m \in round[d][k].todo :
        LET rest == round[d][k].todo \ {m}
            Skip == Continue(d, k, rest, round[d][k].sentN)
        IN \/ /\ Accepts(m) /\ UNCHANGED cut
              /\ \/ Continue(d, k, rest, TRUE) /\ Ok
                 \/ Skip /\ Fault
           \/ Rejects(m) /\ Refused(d, k, m) /\ UNCHANGED cut
           \/ /\ Rejects(m) /\ box[m] # {} /\ Skip
              /\ cut' = cut \cup {m}
           \/ Fault /\ Skip /\ UNCHANGED <<mail, cut>>
  BY DEF Post
<1>5. PICK sentN : sentN \in BOOLEAN /\ sentN = round[d][k].sentN
  BY <1>2 DEF Round
<1>6. /\ Rejects(m) => Ok \/ Fault
      /\ Ok \/ Fault
  BY <1>4 DEF Rejects
<1>7. ASSUME \/ Continue(d, k, round[d][k].todo \ {m}, TRUE)
             \/ Continue(d, k, round[d][k].todo \ {m}, sentN)
      PROVE  RoundsOK' /\ OthersKeep(d) /\ Todo(d)' = Todo(d) \ {m} /\ Cur(d)' = {}
  BY <1>1, <1>5, <1>7, PostRest, ZenonT(40)
<1>8. CASE Rejects(m) /\ Refused(d, k, m) /\ UNCHANGED cut
  <2>1. /\ RoundsOK' /\ OthersKeep(d)
        /\ Todo(d)' = Todo(d) \ {m} /\ Cur(d)' = IF Out = "outbox" THEN {m} ELSE {}
    BY <1>1, <1>8, RefusedStep
  <2>2. Posted(d, m)
    BY <1>8, <2>1 DEF Posted
  <2> QED BY <1>1, <1>2, <1>3, <1>6, <2>1, <2>2
<1>9. CASE ~(Rejects(m) /\ Refused(d, k, m) /\ UNCHANGED cut)
  <2>1. RoundsOK' /\ OthersKeep(d) /\ Todo(d)' = Todo(d) \ {m} /\ Cur(d)' = {}
    <3>1. \/ Continue(d, k, round[d][k].todo \ {m}, TRUE)
          \/ Continue(d, k, round[d][k].todo \ {m}, sentN)
      BY <1>4, <1>5, <1>9
    <3> QED BY <1>7, <3>1
  <2>2. Posted(d, m)
    BY <1>4, <1>9, <2>1 DEF Posted
  <2> QED BY <1>1, <1>2, <1>3, <1>6, <2>1, <2>2
<1> QED BY <1>8, <1>9

LEMMA BackStep ==
  ASSUME RoundsOK, NEW d \in Devices, NEW k \in Rounds[d], Back(d, k)
  PROVE  /\ RoundsOK' /\ OthersKeep(d) /\ UNCHANGED open /\ (Ok \/ Fault)
         /\ Todo(d)' = Todo(d) /\ Cur(d)' = {} /\ Cur(d) \subseteq Msgs
         /\ \E m \in Cur(d) :
              /\ Cur(d) = {m}
              /\ \/ /\ box' = [box EXCEPT ![m] = IF @ = {} THEN {}
                                                 ELSE (@ \cup {"scheduled"}) \ {"outbox"}]
                    /\ UNCHANGED cut
                 \/ cut' = cut \cup {m} /\ UNCHANGED box
<1>1. Pc(d, k) # "idle" /\ UNCHANGED open
  BY DEF Back, page
<1>2. /\ \A j \in Rounds[d] \ {k} : Pc(d, j) = "idle"
      /\ round[d][k] \in Round /\ GoodRound(round[d][k])
  BY <1>1, UnderWay
<1>3. Todo(d) = round[d][k].todo /\ Cur(d) = round[d][k].cur
  BY <1>2, PageSets
<1>4. PICK m \in round[d][k].cur :
        \/ /\ box' = [box EXCEPT ![m] = IF @ = {} THEN {}
                                        ELSE (@ \cup {"scheduled"}) \ {"outbox"}]
           /\ Ok /\ UNCHANGED cut
        \/ Fault /\ cut' = cut \cup {m} /\ UNCHANGED box
  BY DEF Back
<1>5. Cur(d) = {m} /\ Cur(d) \subseteq Msgs
  BY <1>2, <1>3 DEF GoodRound, Round
<1>6. RoundsOK' /\ Others(d, k) /\ round'[d][k].todo = round[d][k].todo /\ round'[d][k].cur = {}
  <2>1. PICK todo \in SUBSET Msgs : todo = round[d][k].todo
    BY <1>2 DEF Round
  <2>2. PICK sentN : sentN \in BOOLEAN /\ sentN = round[d][k].sentN
    BY <1>2 DEF Round
  <2>3. Continue(d, k, todo, sentN)
    BY <2>1, <2>2 DEF Back
  <2>4. \/ Continue(d, k, todo, TRUE)
        \/ Continue(d, k, todo, FALSE)
    BY <2>2, <2>3
  <2>5. RoundsOK' /\ Others(d, k) /\ round'[d][k].todo = todo /\ round'[d][k].cur = {}
    BY <1>1, <2>4, ContinueStep
  <2> QED BY <2>1, <2>5
<1>7. OthersKeep(d) /\ Todo(d)' = Todo(d) /\ Cur(d)' = {}
  BY <1>2, <1>3, <1>6, PageStep DEF OthersKeep
<1> QED BY <1>1, <1>3, <1>4, <1>5, <1>6, <1>7

LEMMA RoundRefreshStep ==
  ASSUME RoundsOK, NEW d \in Devices, NEW k \in Rounds[d], RoundRefresh(d, k)
  PROVE  RoundsOK' /\ SameSets
<1>1. Pc(d, k) = "refresh" /\ Leave(d, k) /\ UNCHANGED open
  BY DEF RoundRefresh, page
<1>2. /\ \A j \in Rounds[d] \ {k} : Pc(d, j) = "idle"
      /\ GoodRound(round[d][k])
  BY <1>1, UnderWay
<1>3. Todo(d) = {} /\ Cur(d) = {}
  BY <1>1, <1>2, PageSets DEF GoodRound, Pc
<1>4. RoundsOK' /\ round'[d][k] = Idle /\ Others(d, k)
  BY <1>1, LeaveStep
<1>5. Todo(d)' = {} /\ Cur(d)' = {} /\ OthersKeep(d)
  BY <1>2, <1>4, IdleOK, PageStep DEF OthersKeep
<1> QED BY <1>3, <1>4, <1>5 DEF SameSets, OthersKeep

\* The page's lists are gone with it.
LEMMA UnloadStep ==
  ASSUME RoundsOK, NEW d \in Devices, Unload(d)
  PROVE  /\ RoundsOK' /\ OthersKeep(d) /\ Todo(d)' = {} /\ Cur(d)' = {} /\ ~open'[d]
         /\ cut' = cut \cup Cur(d) /\ Cur(d) \subseteq Msgs
         /\ \A e \in Devices \ {d} : open'[e] = open[e]
         /\ \/ UNCHANGED orphans
            \/ \E m \in Todo(d) : orphans' = orphans \cup {<<m, <<d, loads[d]>>>>}
         /\ Todo(d) \subseteq Msgs
<1>1. /\ DOMAIN round' = Devices /\ round'[d] = [k \in Rounds[d] |-> Idle]
      /\ \A e \in Devices \ {d} : round'[e] = round[e]
  BY DEF Unload, RoundsOK
<1>2. /\ open' \in [Devices -> BOOLEAN] /\ ~open'[d]
      /\ \A e \in Devices \ {d} : open'[e] = open[e]
      /\ dispatching' \in [Devices -> BOOLEAN]
      /\ \A e \in Devices \ {d} : dispatching'[e] = dispatching[e]
  BY DEF Unload, RoundsOK
<1>3. RoundsOK'
  <2>1. round'[d] \in [Rounds[d] -> Round] /\ \A k \in Rounds[d] : round'[d][k] = Idle
    BY <1>1, IdleOK
  <2>2. \A e \in Devices : round'[e] \in [Rounds[e] -> Round]
    BY <1>1, <2>1 DEF RoundsOK
  <2>3. \A e \in Devices : \A k \in Rounds[e] :
          GoodRound(round'[e][k]) /\ (Pc(e, k)' # "idle" => open'[e] /\ dispatching'[e])
    BY <1>1, <1>2, <2>1, IdleOK DEF RoundsOK, Pc
  <2>4. \A e \in Devices : \A j, k \in Rounds[e] :
          Pc(e, j)' # "idle" /\ Pc(e, k)' # "idle" => j = k
    BY <1>1, <2>1, IdleOK DEF RoundsOK, Pc
  <2> QED BY <1>1, <1>2, <2>2, <2>3, <2>4 DEF RoundsOK, Pc
<1>4. Todo(d)' = {} /\ Cur(d)' = {} /\ OthersKeep(d)
  BY <1>1, IdleOK DEF Todo, Cur, OthersKeep
<1>5. Cur(d) \subseteq Msgs /\ Todo(d) \subseteq Msgs
  BY DEF Todo, Cur, RoundsOK, Round
<1>6. UNION {round[d][k].todo : k \in {j \in Rounds[d] : Pc(d, j) = "post"}} \subseteq Todo(d)
  BY DEF Todo
<1>7. /\ cut' = cut \cup Cur(d)
      /\ \/ UNCHANGED orphans
         \/ \E m \in Todo(d) : orphans' = orphans \cup {<<m, <<d, loads[d]>>>>}
  BY <1>6 DEF Unload, Cur
<1> QED BY <1>2, <1>3, <1>4, <1>5, <1>7
-----------------------------------------------------------------------------
(* Steps that leave a part of the invariant alone.                          *)

Shrinks == orphans' \subseteq orphans /\ \A d \in Devices : Todo(d)' \subseteq Todo(d)

LEMMA SameShrinks == SameSets /\ UNCHANGED orphans => Shrinks
BY DEF SameSets, Shrinks

LEMMA DueFrame ==
  ASSUME DueOK, Shrinks, due \subseteq due', due' \subseteq Msgs, UNCHANGED submitted
  PROVE  DueOK'
BY DEF DueOK, Shrinks, NotBeforeTime

LEMMA AttemptsFrame ==
  ASSUME AttemptsOK, Shrinks, UNCHANGED <<open, loads, listed>>
  PROVE  AttemptsOK'
<1>1. \A d \in Devices : \A l \in 0 .. MaxLoads, m \in Msgs :
        <<m, <<d, l>>>> \in orphans' => l < loads'[d] \/ (l = loads'[d] /\ ~open'[d])
  BY DEF AttemptsOK, Shrinks
<1>2. ASSUME NEW m \in Msgs
      PROVE  /\ listed'[m] \subseteq Devices \X (0 .. MaxLoads)
             /\ IsFiniteSet(listed'[m])
             /\ \A d \in Devices : m \in Todo(d)' => <<d, loads'[d]>> \in listed'[m]
             /\ \A p \in Devices \X (0 .. MaxLoads) : <<m, p>> \in orphans' => p \in listed'[m]
  BY DEF AttemptsOK, Shrinks
<1>3. /\ loads' \in [Devices -> 0 .. MaxLoads]
      /\ orphans' \subseteq Msgs \X (Devices \X (0 .. MaxLoads))
  BY DEF AttemptsOK, Shrinks
<1> QED BY <1>1, <1>2, <1>3 DEF AttemptsOK

\* Where no attempt is added, the used listings stay used.
LEMMA UsedGrows ==
  ASSUME AttemptsOK, Shrinks, UNCHANGED <<loads, listed>>, NEW m \in Msgs
  PROVE  /\ Used(m) \subseteq Used(m)' /\ IsFiniteSet(Used(m)) /\ IsFiniteSet(Used(m)')
         /\ Cardinality(Used(m)) \in Nat /\ Cardinality(Used(m)') \in Nat
         /\ Cardinality(Used(m)) <= Cardinality(Used(m)')
<1>1. \A p : Attempt(m, p)' => Attempt(m, p)
  BY DEF Attempt, Shrinks
<1>2. Used(m) \subseteq Used(m)' /\ Used(m) \subseteq listed[m] /\ Used(m)' \subseteq listed[m]
  BY <1>1 DEF Used
<1>3. IsFiniteSet(Used(m)) /\ IsFiniteSet(Used(m)')
  BY <1>2, FS_Subset DEF AttemptsOK
<1> QED BY <1>2, <1>3, FS_Subset, FS_CardinalityType

LEMMA CountFrame ==
  ASSUME MailOK, AttemptsOK, CountOK, Shrinks, UNCHANGED <<loads, listed, submitted>>,
         \A m \in Msgs : "sendat" \in kw'[m] /\ submitted[m] > 0 => "sendat" \in kw[m]
  PROVE  CountOK'
<1>1. ASSUME NEW m \in Msgs
      PROVE  /\ submitted'[m] > 0 => "sendat" \notin kw'[m]
             /\ submitted'[m] <= Cardinality(Used(m)')
  <2>1. submitted[m] \in Nat /\ submitted[m] <= Cardinality(Used(m))
    BY DEF MailOK, CountOK
  <2> QED BY <2>1, UsedGrows DEF CountOK
<1> QED BY <1>1 DEF CountOK

\* A submission uses up the listing it comes from.
LEMMA CountAccepts ==
  ASSUME MailOK, AttemptsOK, CountOK, UNCHANGED account, Shrinks, UNCHANGED <<loads, listed>>,
         NEW m \in Msgs, Accepts(m),
         NEW p \in listed[m], Attempt(m, p), ~Attempt(m, p)'
  PROVE  CountOK'
<1>1. /\ submitted'[m] = submitted[m] + 1 /\ submitted[m] \in Nat /\ kw'[m] = {}
      /\ \A n \in Msgs \ {m} : kw'[n] = kw[n] /\ submitted'[n] = submitted[n]
      /\ submitted[m] <= Cardinality(Used(m))
  BY AcceptsStep DEF MailOK, CountOK
<1>2. submitted'[m] <= Cardinality(Used(m)')
  <2>1. /\ Used(m) \subseteq Used(m)' /\ IsFiniteSet(Used(m)) /\ IsFiniteSet(Used(m)')
        /\ Cardinality(Used(m)) \in Nat /\ Cardinality(Used(m)') \in Nat
    BY UsedGrows
  <2>2. p \notin Used(m) /\ p \in Used(m)'
    BY DEF Used
  <2>3. /\ IsFiniteSet(Used(m) \cup {p})
        /\ Cardinality(Used(m) \cup {p}) = Cardinality(Used(m)) + 1
    BY <2>1, <2>2, FS_AddElement
  <2>4. Cardinality(Used(m) \cup {p}) <= Cardinality(Used(m)')
    BY <2>1, <2>2, FS_Subset
  <2> QED BY <1>1, <2>1, <2>3, <2>4
<1>3. ASSUME NEW n \in Msgs \ {m} PROVE submitted'[n] <= Cardinality(Used(n)')
  <2>1. /\ submitted[n] \in Nat /\ submitted[n] <= Cardinality(Used(n))
        /\ submitted'[n] = submitted[n]
    BY <1>1 DEF MailOK, CountOK
  <2> QED BY <2>1, UsedGrows
<1> QED BY <1>1, <1>2, <1>3 DEF CountOK

LEMMA TodoOpen == ASSUME RoundsOK, NEW d \in Devices, Todo(d) # {} PROVE open[d]
<1>1. PICK k \in Rounds[d] : round[d][k].todo # {}
  BY DEF Todo
<1>2. Pc(d, k) # "idle"
  BY <1>1, IdleOK DEF RoundsOK, GoodRound, Pc
<1> QED BY <1>2, UnderWay
-----------------------------------------------------------------------------
(* The steps of the user and of time.                                       *)

\* A command of the user on one mail.
LEMMA UserStep ==
  ASSUME SchedulerInv, NEW d \in Devices, NEW m \in Msgs,
         NEW b \in SUBSET account.folders, NEW w \in SUBSET {"draft", "sendat"},
         box' = [box EXCEPT ![m] = b], kw' = [kw EXCEPT ![m] = w],
         "outbox" \in b => "outbox" \in box[m],
         b # {} /\ submitted[m] = 0 =>
           /\ "draft" \in w /\ "sent" \notin b
           /\ "drafts" \in b \/ ("sendat" \in w /\ b \cap {"scheduled", "outbox"} # {}),
         "sendat" \in w /\ submitted[m] > 0 => "sendat" \in kw[m],
         Recount(d),
         UNCHANGED <<account, submitted, due, orphans, page, dispatching, round, listed, cut>>
  PROVE  SchedulerInv'
<1> USE DEF SchedulerInv
<1>1. UNCHANGED <<open, loads>>
  BY DEF page
<1>2. /\ MailOK' /\ box'[m] = b /\ kw'[m] = w
      /\ \A n \in Msgs \ {m} : box'[n] = box[n] /\ kw'[n] = kw[n]
  BY OneMail
<1>3. RoundsOK' /\ SameSets /\ Shrinks /\ RestOK'
  BY <1>1, NoRoundStep, SameShrinks, RecountStep
<1>4. DueOK' /\ AttemptsOK'
  BY <1>1, <1>3, DueFrame, AttemptsFrame DEF DueOK
<1>5. CountOK'
  <2>1. \A n \in Msgs : "sendat" \in kw'[n] /\ submitted[n] > 0 => "sendat" \in kw[n]
    BY <1>2
  <2> QED BY <1>1, <1>3, <2>1, CountFrame
<1>6. DraftOK'
  <2>1. \A n \in Msgs : submitted'[n] = submitted[n]
    OBVIOUS
  <2> QED BY <1>2, <2>1 DEF DraftOK
<1>7. OutboxOK'
  <2>1. \A n \in Msgs : "outbox" \in box'[n] => "outbox" \in box[n]
    BY <1>2
  <2> QED BY <1>3, <2>1 DEF OutboxOK, SameSets
<1> QED BY <1>2, <1>3, <1>4, <1>5, <1>6, <1>7

LEMMA ScheduleInv ==
  ASSUME SchedulerInv, NEW d \in Devices, NEW m \in Msgs, Schedule(d, m)
  PROVE  SchedulerInv'
<1> DEFINE b == {"scheduled"}
           w == {"draft", "sendat"}
<1>1. /\ b \in SUBSET account.folders /\ w \in SUBSET {"draft", "sendat"}
      /\ "outbox" \notin b /\ "draft" \in w /\ "sent" \notin b /\ "sendat" \in w
      /\ b \cap {"scheduled", "outbox"} # {}
  BY FolderFacts DEF SchedulerInv, MailOK
<1>2. submitted[m] = 0 /\ Recount(d)
  BY DEF Schedule
<1>3. box' = [box EXCEPT ![m] = b] /\ kw' = [kw EXCEPT ![m] = w]
  BY DEF Schedule
<1>4. UNCHANGED <<account, submitted, due, orphans, page, dispatching, round, listed, cut>>
  BY DEF Schedule
<1> HIDE DEF b, w
<1>5. /\ "outbox" \in b => "outbox" \in box[m]
      /\ b # {} /\ submitted[m] = 0 =>
           /\ "draft" \in w /\ "sent" \notin b
           /\ "drafts" \in b \/ ("sendat" \in w /\ b \cap {"scheduled", "outbox"} # {})
      /\ "sendat" \in w /\ submitted[m] > 0 => "sendat" \in kw[m]
  BY <1>1, <1>2
<1> QED BY <1>1, <1>2, <1>3, <1>4, <1>5, UserStep

LEMMA CancelInv ==
  ASSUME SchedulerInv, NEW d \in Devices, NEW m \in Msgs, Cancel(d, m)
  PROVE  SchedulerInv'
<1> DEFINE b == (box[m] \cup {"drafts"}) \ {"scheduled"}
           w == kw[m] \ {"sendat"}
<1>1. /\ b \in SUBSET account.folders /\ w \in SUBSET {"draft", "sendat"}
      /\ box[m] # {} /\ "drafts" \in b
  BY FolderFacts DEF SchedulerInv, MailOK, Cancel
<1>2. /\ "outbox" \in b => "outbox" \in box[m]
      /\ "sendat" \notin w
      /\ submitted[m] = 0 => "draft" \in w /\ "sent" \notin b
  BY <1>1 DEF SchedulerInv, DraftOK
<1>3. box' = [box EXCEPT ![m] = b] /\ kw' = [kw EXCEPT ![m] = w] /\ Recount(d)
  BY DEF Cancel
<1>4. UNCHANGED <<account, submitted, due, orphans, page, dispatching, round, listed, cut>>
  BY DEF Cancel
<1> HIDE DEF b, w
<1> QED BY <1>1, <1>2, <1>3, <1>4, UserStep

LEMMA DestroyInv ==
  ASSUME SchedulerInv, NEW d \in Devices, NEW m \in Msgs, Destroy(d, m)
  PROVE  SchedulerInv'
<1>1. box' = [box EXCEPT ![m] = {}] /\ kw' = [kw EXCEPT ![m] = {}] /\ Recount(d)
  BY DEF Destroy
<1>2. UNCHANGED <<account, submitted, due, orphans, page, dispatching, round, listed, cut>>
  BY DEF Destroy
<1> QED BY <1>1, <1>2, UserStep

LEMMA TickInv ==
  ASSUME SchedulerInv, NEW m \in Msgs, Tick(m)
  PROVE  SchedulerInv'
<1> USE DEF SchedulerInv
<1>1. /\ UNCHANGED <<account, box, kw, submitted, orphans, open, loads, counted, dispatching,
                     round, listed, cut, faults>>
      /\ due' = due \cup {m}
  BY DEF Tick, mail, page
<1>2. MailOK' /\ RestOK'
  BY <1>1 DEF MailOK, RestOK
<1>3. RoundsOK' /\ SameSets /\ Shrinks
  BY <1>1, NoRoundStep, SameShrinks
<1>4. DueOK' /\ AttemptsOK' /\ CountOK'
  <2>1. due \subseteq due' /\ due' \subseteq Msgs
    BY <1>1 DEF DueOK
  <2> QED BY <1>1, <1>3, <2>1, DueFrame, AttemptsFrame, CountFrame
<1>5. DraftOK' /\ OutboxOK'
  BY <1>1, <1>3 DEF DraftOK, OutboxOK, SameSets
<1> QED BY <1>2, <1>3, <1>4, <1>5

-----------------------------------------------------------------------------
(* Steps that change no mail: pages and the bookkeeping of rounds.          *)

LEMMA QuietInv ==
  ASSUME SchedulerInv, RoundsOK', SameSets, RestOK',
         UNCHANGED <<account, mail, due, orphans, page, listed, cut>>
  PROVE  SchedulerInv'
<1> USE DEF SchedulerInv
<1>1. UNCHANGED <<account, box, kw, submitted, due, orphans, open, loads, listed, cut>>
  BY DEF mail, page
<1>2. MailOK' /\ Shrinks
  BY <1>1, SameShrinks DEF MailOK
<1>3. DueOK' /\ AttemptsOK' /\ CountOK'
  <2>1. due \subseteq due' /\ due' \subseteq Msgs
    BY <1>1 DEF DueOK
  <2> QED BY <1>1, <1>2, <2>1, DueFrame, AttemptsFrame, CountFrame
<1>4. DraftOK' /\ OutboxOK'
  BY <1>1 DEF DraftOK, OutboxOK, SameSets
<1> QED BY <1>2, <1>3, <1>4

LEMMA RefreshInv ==
  ASSUME SchedulerInv, NEW d \in Devices, Refresh(d) PROVE SchedulerInv'
<1>1. /\ UNCHANGED <<account, mail, due, orphans, page, listed, cut>> /\ Recount(d)
      /\ UNCHANGED <<open, dispatching, round>>
  BY DEF Refresh, page
<1> QED BY <1>1, NoRoundStep, RecountStep, QuietInv DEF SchedulerInv

LEMMA WakeInv ==
  ASSUME SchedulerInv, NEW d \in Devices, NEW k \in Rounds[d], Wake(d, k) PROVE SchedulerInv'
<1>1. /\ UNCHANGED <<account, mail, due, orphans, page, listed, cut>>
      /\ UNCHANGED <<counted, faults>>
  BY DEF Wake
<1>2. RestOK'
  BY <1>1 DEF SchedulerInv, RestOK
<1> QED BY <1>1, <1>2, WakeStep, QuietInv DEF SchedulerInv

LEMMA RoundRefreshInv ==
  ASSUME SchedulerInv, NEW d \in Devices, NEW k \in Rounds[d], RoundRefresh(d, k)
  PROVE  SchedulerInv'
<1>1. UNCHANGED <<account, mail, due, orphans, page, listed, cut>> /\ Recount(d)
  BY DEF RoundRefresh
<1> QED BY <1>1, RoundRefreshStep, RecountStep, QuietInv DEF SchedulerInv
-----------------------------------------------------------------------------
(* The server's answers.                                                    *)

LEMMA AcceptsDraft ==
  ASSUME MailOK, DraftOK, UNCHANGED account, NEW m \in Msgs, Accepts(m)
  PROVE  DraftOK'
<1>1. /\ submitted'[m] = submitted[m] + 1 /\ submitted[m] \in Nat
      /\ \A n \in Msgs \ {m} :
           box'[n] = box[n] /\ kw'[n] = kw[n] /\ submitted'[n] = submitted[n]
  BY AcceptsStep DEF MailOK
<1>2. submitted'[m] # 0
  BY <1>1
<1> QED BY <1>1, <1>2 DEF DraftOK

LEMMA RejectsDraft ==
  ASSUME MailOK, DraftOK, UNCHANGED account, NEW m \in Msgs, Rejects(m)
  PROVE  DraftOK' /\ ("outbox" \in box'[m] => Out = "outbox")
<1>1. /\ box'[m] = (IF box[m] = {} THEN {} ELSE ToOutbox(m))
      /\ kw' = kw /\ submitted' = submitted
      /\ \A n \in Msgs \ {m} : box'[n] = box[n]
  BY RejectsStep
<1>2. Out # "outbox" => "outbox" \notin box[m] /\ ToOutbox(m) = box[m]
  BY FolderFacts DEF MailOK, ToOutbox
<1>3. Out = "outbox" => ToOutbox(m) = (box[m] \cup {"outbox"}) \ {"scheduled"}
  BY DEF ToOutbox
<1>4. box'[m] # {} /\ submitted'[m] = 0 =>
        /\ "draft" \in kw'[m] /\ "sent" \notin box'[m]
        /\ \/ "drafts" \in box'[m]
           \/ "sendat" \in kw'[m] /\ box'[m] \cap {"scheduled", "outbox"} # {}
  <2> SUFFICES ASSUME box'[m] # {}, submitted'[m] = 0
               PROVE  /\ "draft" \in kw'[m] /\ "sent" \notin box'[m]
                      /\ \/ "drafts" \in box'[m]
                         \/ "sendat" \in kw'[m] /\ box'[m] \cap {"scheduled", "outbox"} # {}
    OBVIOUS
  <2>1. /\ "draft" \in kw[m] /\ "sent" \notin box[m]
        /\ \/ "drafts" \in box[m]
           \/ "sendat" \in kw[m] /\ box[m] \cap {"scheduled", "outbox"} # {}
        /\ box'[m] = ToOutbox(m)
    BY <1>1 DEF DraftOK
  <2>2. CASE Out = "outbox"
    <3>1. /\ "outbox" \in box'[m] /\ "sent" \notin box'[m]
          /\ "drafts" \in box[m] => "drafts" \in box'[m]
      BY <1>3, <2>1, <2>2
    <3> QED BY <1>1, <2>1, <3>1
  <2>3. CASE Out # "outbox"
    BY <1>1, <1>2, <2>1, <2>3
  <2> QED BY <2>2, <2>3
<1>5. DraftOK'
  BY <1>1, <1>4 DEF DraftOK
<1> QED BY <1>1, <1>2, <1>5

\* Where one mail's copy changes and no set loses a mail, Outbox is accounted for if that
\* mail is.
LEMMA OutboxFrame ==
  ASSUME OutboxOK, NEW m \in Msgs, cut \subseteq cut', cut' \subseteq Msgs,
         \A n \in Msgs \ {m} : box'[n] = box[n],
         \A d \in Devices : \A n \in Cur(d) \ {m} : n \in cut' \/ n \in Cur(d)',
         "outbox" \in box'[m] => m \in cut' \/ \E d \in Devices : m \in Cur(d)'
  PROVE  OutboxOK'
BY DEF OutboxOK

LEMMA ListInv ==
  ASSUME SchedulerInv, NEW d \in Devices, NEW k \in Rounds[d], List(d, k)
  PROVE  SchedulerInv'
<1> USE DEF SchedulerInv
<1>1. /\ UNCHANGED <<account, box, kw, submitted, due, orphans, open, loads, counted, cut>>
  BY DEF List, mail, page
<1>2. /\ RoundsOK' /\ OthersKeep(d) /\ Todo(d) = {} /\ Cur(d) = {} /\ Cur(d)' = {}
      /\ open[d] /\ (Ok \/ Fault)
      /\ \/ /\ listed' = [m \in Msgs |-> listed[m] \cup
                            IF m \in Due THEN {<<d, loads[d]>>} ELSE {}]
            /\ Todo(d)' = Due
         \/ Todo(d)' = {} /\ UNCHANGED listed
  BY ListStep
<1>3. MailOK' /\ RestOK'
  BY <1>1, <1>2, FaultStep DEF MailOK, RestOK
<1>4. DraftOK' /\ OutboxOK'
  BY <1>1, <1>2 DEF DraftOK, OutboxOK, OthersKeep
<1>5. \A m \in Due : m \in Msgs /\ m \in due /\ "sendat" \in kw[m]
  BY DEF Due, InScheduled
<1>6. DueOK'
  BY <1>1, <1>2, <1>5 DEF DueOK, OthersKeep, NotBeforeTime
<1>7. CASE Todo(d)' = {} /\ UNCHANGED listed
  <2>1. Shrinks
    BY <1>1, <1>2, <1>7 DEF Shrinks, OthersKeep
  <2>2. AttemptsOK' /\ CountOK'
    BY <1>1, <1>7, <2>1, AttemptsFrame, CountFrame
  <2> QED BY <1>2, <1>3, <1>4, <1>6, <2>2
<1>8. CASE /\ listed' = [m \in Msgs |-> listed[m] \cup
                           IF m \in Due THEN {<<d, loads[d]>>} ELSE {}]
           /\ Todo(d)' = Due
  <2>1. <<d, loads[d]>> \in Devices \X (0 .. MaxLoads)
    BY DEF AttemptsOK
  <2>2. ASSUME NEW m \in Msgs
        PROVE  /\ listed'[m] \subseteq Devices \X (0 .. MaxLoads)
               /\ IsFiniteSet(listed'[m]) /\ listed[m] \subseteq listed'[m]
               /\ m \in Due => <<d, loads[d]>> \in listed'[m]
               /\ m \notin Due => listed'[m] = listed[m]
    <3>1. listed[m] \subseteq Devices \X (0 .. MaxLoads) /\ IsFiniteSet(listed[m])
      BY DEF AttemptsOK
    <3>2. CASE m \in Due
      <4>1. listed'[m] = listed[m] \cup {<<d, loads[d]>>}
        BY <1>8, <3>2
      <4> QED BY <2>1, <3>1, <3>2, <4>1, FS_AddElement, ZenonT(40)
    <3>3. CASE m \notin Due
      BY <1>8, <3>1, <3>3
    <3> QED BY <3>2, <3>3
  <2>3. AttemptsOK'
    <3>1. ASSUME NEW m \in Msgs, NEW e \in Devices, m \in Todo(e)'
          PROVE  <<e, loads[e]>> \in listed'[m]
      BY <1>2, <1>8, <2>2, <3>1 DEF AttemptsOK, OthersKeep
    <3>2. \A m \in Msgs : \A p \in Devices \X (0 .. MaxLoads) :
            <<m, p>> \in orphans => p \in listed'[m]
      BY <2>2 DEF AttemptsOK
    <3>3. /\ loads \in [Devices -> 0 .. MaxLoads]
          /\ orphans \subseteq Msgs \X (Devices \X (0 .. MaxLoads))
          /\ \A e \in Devices : \A l \in 0 .. MaxLoads, m \in Msgs :
               <<m, <<e, l>>>> \in orphans => l < loads[e] \/ (l = loads[e] /\ ~open[e])
      BY DEF AttemptsOK
    <3> QED BY <1>1, <2>2, <3>1, <3>2, <3>3 DEF AttemptsOK
  <2>4. CountOK'
    <3>1. ASSUME NEW m \in Msgs PROVE submitted[m] <= Cardinality(Used(m)')
      <4>1. submitted[m] \in Nat /\ submitted[m] <= Cardinality(Used(m))
        BY DEF MailOK, CountOK
      <4>2. Used(m)' \subseteq listed'[m] /\ IsFiniteSet(Used(m)')
        BY <2>2, FS_Subset DEF Used
      <4>3. CASE m \in Due
        <5>1. submitted[m] = 0
          BY <1>5, <4>1, <4>3 DEF CountOK
        <5> QED BY <4>2, <5>1, FS_CardinalityType
      <4>4. CASE m \notin Due
        <5>1. \A e \in Devices : m \in Todo(e)' => m \in Todo(e)
          BY <1>2, <1>8, <4>4 DEF OthersKeep
        <5>2. \A p : Attempt(m, p)' => Attempt(m, p)
          BY <1>1, <5>1 DEF Attempt
        <5>3. Used(m) \subseteq Used(m)'
          BY <2>2, <4>4, <5>2 DEF Used
        <5>4. Cardinality(Used(m)) <= Cardinality(Used(m)') /\ IsFiniteSet(Used(m))
          BY <4>2, <5>3, FS_Subset
        <5> QED BY <4>1, <4>2, <5>4, FS_CardinalityType
      <4> QED BY <4>3, <4>4
    <3> QED BY <1>1, <3>1 DEF CountOK
  <2> QED BY <1>2, <1>3, <1>4, <1>6, <2>3, <2>4
<1> QED BY <1>2, <1>7, <1>8
LEMMA PostInv ==
  ASSUME SchedulerInv, NEW d \in Devices, NEW k \in Rounds[d], Post(d, k)
  PROVE  SchedulerInv'
<1> USE DEF SchedulerInv
<1>1. UNCHANGED <<account, due, orphans, open, loads, counted, listed>>
  BY DEF Post, page
<1>2. /\ RoundsOK' /\ OthersKeep(d) /\ open[d] /\ Cur(d) = {} /\ Todo(d) \subseteq Msgs
      /\ (Ok \/ Fault)
  BY PostStep
<1>3. PICK m \in Todo(d) : Posted(d, m) /\ Todo(d)' = Todo(d) \ {m}
  BY PostStep
<1>4. m \in Msgs /\ m \in due
  BY <1>2, <1>3 DEF DueOK
<1>5. Shrinks
  BY <1>1, <1>2, <1>3 DEF Shrinks, OthersKeep
<1>6. RestOK' /\ AttemptsOK'
  BY <1>1, <1>2, <1>5, FaultStep, AttemptsFrame DEF RestOK
<1>7. \A e \in Devices : \A n \in Cur(e) \ {m} : n \in cut' \/ n \in Cur(e)'
  BY <1>2 DEF OthersKeep
<1>8. cut \subseteq cut' /\ cut' \subseteq Msgs
  BY <1>3, <1>4 DEF Posted, OutboxOK
<1>9. CASE Accepts(m)
  <2>1. /\ MailOK' /\ "outbox" \notin box'[m]
        /\ \A n \in Msgs \ {m} : box'[n] = box[n] /\ submitted'[n] = submitted[n]
    BY <1>1, <1>4, <1>9, AcceptsStep
  <2>2. DraftOK'
    BY <1>1, <1>4, <1>9, AcceptsDraft
  <2>3. OutboxOK'
    BY <1>4, <1>7, <1>8, <2>1, OutboxFrame
  <2>4. DueOK'
    BY <1>1, <1>4, <1>5, <2>1 DEF DueOK, Shrinks, NotBeforeTime
  <2>5. CountOK'
    <3> DEFINE p == <<d, loads[d]>>
    <3>1. p \in listed[m] /\ Attempt(m, p) /\ p \in Devices \X (0 .. MaxLoads)
      BY <1>3, <1>4 DEF AttemptsOK, Attempt
    <3>2. <<m, p>> \notin orphans
      BY <1>2, <1>4 DEF AttemptsOK
    <3>3. \A e \in Devices : p = <<e, loads[e]>> => m \notin Todo(e)'
      BY <1>3
    <3>4. ~(<<m, p>> \in orphans' \/ \E e \in Devices : p = <<e, loads'[e]>> /\ m \in Todo(e)')
      BY <1>1, <3>2, <3>3
    <3>5. PICK q \in listed[m] : q = p
      BY <3>1
    <3>6. Attempt(m, q) /\ ~Attempt(m, q)'
      BY <3>1, <3>4, <3>5 DEF Attempt
    <3> QED BY <1>1, <1>4, <1>5, <1>9, <3>6, CountAccepts
  <2> QED BY <1>2, <1>6, <2>1, <2>2, <2>3, <2>4, <2>5
<1>10. CASE ~Accepts(m) /\ Rejects(m)
  <2>1. /\ MailOK' /\ UNCHANGED <<kw, submitted>>
        /\ \A n \in Msgs \ {m} : box'[n] = box[n]
    BY <1>1, <1>4, <1>10, RejectsStep
  <2>2. DraftOK' /\ ("outbox" \in box'[m] => Out = "outbox")
    BY <1>1, <1>4, <1>10, RejectsDraft
  <2>3. DueOK' /\ CountOK'
    <3>1. due \subseteq due' /\ due' \subseteq Msgs
      BY <1>1 DEF DueOK
    <3> QED BY <1>1, <1>5, <2>1, <3>1, DueFrame, CountFrame
  <2>4. OutboxOK'
    <3>1. CASE m \in cut'
      BY <1>4, <1>7, <1>8, <2>1, <3>1, OutboxFrame
    <3>2. CASE Cur(d)' = IF Out = "outbox" THEN {m} ELSE {}
      <4>1. "outbox" \in box'[m] => m \in Cur(d)'
        BY <2>2, <3>2
      <4> QED BY <1>4, <1>7, <1>8, <2>1, <4>1, OutboxFrame
    <3>3. CASE UNCHANGED <<mail, cut>>
      <4>1. box' = box
        BY <3>3 DEF mail
      <4> QED BY <1>2, <1>8, <3>3, <4>1 DEF OutboxOK, OthersKeep
    <3> QED BY <1>3, <1>10, <3>1, <3>2, <3>3 DEF Posted
  <2> QED BY <1>2, <1>6, <2>1, <2>2, <2>3, <2>4
<1>11. CASE ~Accepts(m) /\ ~Rejects(m)
  <2>1. UNCHANGED <<box, kw, submitted, cut>>
    BY <1>3, <1>11 DEF Posted, mail
  <2>2. MailOK' /\ DraftOK' /\ OutboxOK'
    BY <1>1, <1>2, <2>1 DEF MailOK, DraftOK, OutboxOK, OthersKeep
  <2>3. DueOK' /\ CountOK'
    <3>1. due \subseteq due' /\ due' \subseteq Msgs
      BY <1>1 DEF DueOK
    <3> QED BY <1>1, <1>5, <2>1, <3>1, DueFrame, CountFrame
  <2> QED BY <1>2, <1>6, <2>2, <2>3
<1> QED BY <1>9, <1>10, <1>11

LEMMA BackInv ==
  ASSUME SchedulerInv, NEW d \in Devices, NEW k \in Rounds[d], Back(d, k)
  PROVE  SchedulerInv'
<1> USE DEF SchedulerInv
<1>1. UNCHANGED <<account, kw, submitted, due, orphans, open, loads, counted, listed>>
  BY DEF Back, page
<1>2. /\ RoundsOK' /\ OthersKeep(d) /\ (Ok \/ Fault)
      /\ Todo(d)' = Todo(d) /\ Cur(d)' = {} /\ Cur(d) \subseteq Msgs
  BY BackStep
<1>3. PICK m \in Cur(d) :
        /\ Cur(d) = {m}
        /\ \/ /\ box' = [box EXCEPT ![m] = IF @ = {} THEN {}
                                           ELSE (@ \cup {"scheduled"}) \ {"outbox"}]
              /\ UNCHANGED cut
           \/ cut' = cut \cup {m} /\ UNCHANGED box
  BY BackStep
<1>4. m \in Msgs
  BY <1>2
<1>5. Shrinks
  BY <1>1, <1>2 DEF Shrinks, OthersKeep
<1>6. RestOK' /\ AttemptsOK' /\ DueOK' /\ CountOK'
  <2>1. due \subseteq due' /\ due' \subseteq Msgs
    BY <1>1 DEF DueOK
  <2> QED BY <1>1, <1>2, <1>5, <2>1, FaultStep, AttemptsFrame, DueFrame, CountFrame DEF RestOK
<1>7. CASE cut' = cut \cup {m} /\ UNCHANGED box
  <2>1. MailOK' /\ DraftOK'
    BY <1>1, <1>7 DEF MailOK, DraftOK
  <2>2. OutboxOK'
    BY <1>2, <1>3, <1>4, <1>7 DEF OutboxOK, OthersKeep
  <2> QED BY <1>2, <1>6, <2>1, <2>2
<1>8. CASE /\ box' = [box EXCEPT ![m] = IF @ = {} THEN {}
                                        ELSE (@ \cup {"scheduled"}) \ {"outbox"}]
           /\ UNCHANGED cut
  <2> DEFINE b == IF box[m] = {} THEN {} ELSE (box[m] \cup {"scheduled"}) \ {"outbox"}
  <2>1. b \in SUBSET account.folders /\ kw[m] \in SUBSET {"draft", "sendat"}
    BY <1>4, FolderFacts DEF MailOK
  <2>2. box' = [box EXCEPT ![m] = b] /\ kw' = [kw EXCEPT ![m] = kw[m]]
    BY <1>1, <1>8 DEF MailOK
  <2>3. MailOK' /\ box'[m] = b /\ \A n \in Msgs \ {m} : box'[n] = box[n]
    <3> HIDE DEF b
    <3> QED BY <1>1, <1>4, <2>1, <2>2 DEF MailOK
  <2>4. b # {} /\ submitted[m] = 0 =>
          /\ "draft" \in kw[m] /\ "sent" \notin b
          /\ "drafts" \in b \/ ("sendat" \in kw[m] /\ b \cap {"scheduled", "outbox"} # {})
    BY <1>4 DEF DraftOK
  <2>5. DraftOK'
    BY <1>1, <2>3, <2>4 DEF DraftOK
  <2>6. OutboxOK'
    <3>1. "outbox" \notin box'[m]
      BY <2>3
    <3>2. \A e \in Devices : \A n \in Cur(e) \ {m} : n \in cut' \/ n \in Cur(e)'
      BY <1>2, <1>3 DEF OthersKeep
    <3>3. cut \subseteq cut' /\ cut' \subseteq Msgs
      BY <1>8 DEF OutboxOK
    <3> QED BY <1>4, <2>3, <3>1, <3>2, <3>3, OutboxFrame
  <2> QED BY <1>2, <1>6, <2>3, <2>5, <2>6
<1> QED BY <1>3, <1>7, <1>8

LEMMA LateInv ==
  ASSUME SchedulerInv, NEW m \in Msgs, Late(m)
  PROVE  SchedulerInv'
<1> USE DEF SchedulerInv
<1>1. UNCHANGED <<account, due, open, loads, counted, dispatching, round, listed>>
  BY DEF Late, page
<1>2. PICK o \in orphans : o[1] = m /\ orphans' = orphans \ {o}
  BY DEF Late
<1>3. PICK p \in Devices \X (0 .. MaxLoads) : o = <<m, p>>
  BY <1>2 DEF AttemptsOK
<1>4. RoundsOK' /\ SameSets /\ Shrinks
  BY <1>1, <1>2, NoRoundStep DEF Shrinks, SameSets
<1>5. m \in due
  BY <1>2 DEF DueOK
<1>6. AttemptsOK'
  BY <1>1, <1>4, AttemptsFrame
<1>7. \A e \in Devices : Cur(e)' = Cur(e)
  BY <1>4 DEF SameSets
<1>8. CASE Accepts(m) /\ Ok /\ UNCHANGED cut
  <2>1. /\ MailOK' /\ "outbox" \notin box'[m]
        /\ \A n \in Msgs \ {m} : box'[n] = box[n] /\ submitted'[n] = submitted[n]
    BY <1>1, <1>8, AcceptsStep
  <2>2. DraftOK'
    BY <1>1, <1>8, AcceptsDraft
  <2>3. OutboxOK'
    BY <1>7, <1>8, <2>1 DEF OutboxOK
  <2>4. DueOK'
    BY <1>1, <1>4, <1>5, <2>1 DEF DueOK, Shrinks, NotBeforeTime
  <2>5. RestOK'
    BY <1>1, <1>8 DEF RestOK, Ok
  <2>6. CountOK'
    <3>1. p \in listed[m] /\ Attempt(m, p)
      BY <1>2, <1>3 DEF AttemptsOK, Attempt
    <3>2. \A e \in Devices : p = <<e, loads[e]>> => m \notin Todo(e)
      <4> SUFFICES ASSUME NEW e \in Devices, p = <<e, loads[e]>>, m \in Todo(e) PROVE FALSE
        OBVIOUS
      <4>1. open[e]
        BY TodoOpen
      <4>2. loads[e] \in 0 .. MaxLoads /\ loads[e] \in Nat
        BY ConstantFacts DEF AttemptsOK
      <4>3. loads[e] < loads[e]
        BY <1>2, <1>3, <4>1, <4>2 DEF AttemptsOK
      <4> QED BY <4>2, <4>3
    <3>3. ~Attempt(m, p)'
      BY <1>1, <1>2, <1>3, <1>4, <3>2 DEF Attempt, SameSets
    <3> QED BY <1>1, <1>4, <1>8, <3>1, <3>3, CountAccepts
  <2> QED BY <1>4, <1>6, <2>1, <2>2, <2>3, <2>4, <2>5, <2>6
<1>9. CASE Rejects(m) /\ cut' = cut \cup {m}
  <2>1. /\ MailOK' /\ UNCHANGED <<kw, submitted>> /\ (Ok \/ Fault)
        /\ \A n \in Msgs \ {m} : box'[n] = box[n]
    BY <1>1, <1>9, RejectsStep
  <2>2. DraftOK'
    BY <1>1, <1>9, RejectsDraft
  <2>3. RestOK'
    BY <1>1, <2>1, FaultStep DEF RestOK
  <2>4. DueOK' /\ CountOK'
    <3>1. due \subseteq due' /\ due' \subseteq Msgs
      BY <1>1 DEF DueOK
    <3> QED BY <1>1, <1>4, <2>1, <3>1, DueFrame, CountFrame
  <2>5. OutboxOK'
    BY <1>7, <1>9, <2>1 DEF OutboxOK
  <2> QED BY <1>4, <1>6, <2>1, <2>2, <2>3, <2>4, <2>5
<1> QED BY <1>8, <1>9 DEF Late

LEMMA LoadInv ==
  ASSUME SchedulerInv, NEW d \in Devices, Load(d)
  PROVE  SchedulerInv'
<1> USE DEF SchedulerInv
<1>1. /\ UNCHANGED <<account, box, kw, submitted, due, orphans, dispatching, round, listed,
                     cut, faults>>
      /\ open' = [open EXCEPT ![d] = TRUE] /\ loads' = [loads EXCEPT ![d] = @ + 1]
      /\ ~open[d] /\ loads[d] < MaxLoads /\ counted' = [counted EXCEPT ![d] = InScheduled # {}]
  BY DEF Load, mail
<1>2. RoundsOK' /\ SameSets
  BY <1>1, NoRoundStep
<1>3. MailOK' /\ RestOK' /\ DraftOK' /\ OutboxOK' /\ DueOK'
  <2>1. counted' \in [Devices -> BOOLEAN]
    BY <1>1 DEF RestOK
  <2>2. Shrinks
    BY <1>1, <1>2, SameShrinks
  <2>3. DueOK'
    BY <1>1, <2>2, DueFrame DEF DueOK
  <2> QED BY <1>1, <1>2, <2>1, <2>3 DEF MailOK, RestOK, DraftOK, OutboxOK, SameSets
<1>4. Todo(d) = {} /\ Todo(d)' = {}
  BY <1>1, <1>2, TodoOpen DEF SameSets
<1>5. /\ loads' \in [Devices -> 0 .. MaxLoads] /\ loads'[d] = loads[d] + 1
      /\ loads[d] \in Nat /\ open'[d]
      /\ \A e \in Devices \ {d} : loads'[e] = loads[e] /\ open'[e] = open[e]
  BY <1>1, ConstantFacts DEF AttemptsOK, RoundsOK
<1>6. AttemptsOK'
  <2>1. ASSUME NEW e \in Devices, NEW l \in 0 .. MaxLoads, NEW m \in Msgs,
               <<m, <<e, l>>>> \in orphans
        PROVE  l < loads'[e] \/ (l = loads'[e] /\ ~open'[e])
    <3>1. (l < loads[e] \/ (l = loads[e] /\ ~open[e])) /\ l \in Nat
      BY <2>1, ConstantFacts DEF AttemptsOK
    <3> QED BY <1>5, <3>1
  <2>2. ASSUME NEW m \in Msgs, NEW e \in Devices, m \in Todo(e)'
        PROVE  <<e, loads'[e]>> \in listed[m]
    BY <1>2, <1>4, <1>5, <2>2 DEF AttemptsOK, SameSets
  <2>3. /\ orphans \subseteq Msgs \X (Devices \X (0 .. MaxLoads))
        /\ \A m \in Msgs : /\ listed[m] \subseteq Devices \X (0 .. MaxLoads)
                           /\ IsFiniteSet(listed[m])
                           /\ \A p \in Devices \X (0 .. MaxLoads) :
                                <<m, p>> \in orphans => p \in listed[m]
    BY DEF AttemptsOK
  <2> QED BY <1>1, <1>5, <2>1, <2>2, <2>3 DEF AttemptsOK
<1>7. CountOK'
  <2>1. ASSUME NEW m \in Msgs PROVE Used(m)' = Used(m)
    <3>1. \A p : Attempt(m, p)' <=> Attempt(m, p)
      <4>1. \A p : (\E e \in Devices : p = <<e, loads'[e]>> /\ m \in Todo(e)')
                     <=> (\E e \in Devices : p = <<e, loads[e]>> /\ m \in Todo(e))
        BY <1>2, <1>4, <1>5 DEF SameSets
      <4> QED BY <1>1, <4>1 DEF Attempt
    <3> QED BY <1>1, <3>1 DEF Used
  <2> QED BY <1>1, <2>1 DEF CountOK
<1> QED BY <1>2, <1>3, <1>6, <1>7
LEMMA UnloadInv ==
  ASSUME SchedulerInv, NEW d \in Devices, Unload(d)
  PROVE  SchedulerInv'
<1> USE DEF SchedulerInv
<1>1. UNCHANGED <<account, box, kw, submitted, due, loads, counted, listed, faults>>
  BY DEF Unload, mail
<1>2. /\ RoundsOK' /\ OthersKeep(d) /\ Todo(d)' = {} /\ Cur(d)' = {} /\ ~open'[d]
      /\ cut' = cut \cup Cur(d) /\ Cur(d) \subseteq Msgs /\ Todo(d) \subseteq Msgs
      /\ \A e \in Devices \ {d} : open'[e] = open[e]
      /\ \/ UNCHANGED orphans
         \/ \E m \in Todo(d) : orphans' = orphans \cup {<<m, <<d, loads[d]>>>>}
  BY UnloadStep
<1>3. MailOK' /\ RestOK' /\ DraftOK'
  BY <1>1 DEF MailOK, RestOK, DraftOK
<1>4. OutboxOK'
  BY <1>1, <1>2 DEF OutboxOK, OthersKeep
<1>5. \A o \in orphans' :
        o \in orphans \/ \E m \in Todo(d) : o = <<m, <<d, loads[d]>>>>
  BY <1>2
<1>6. DueOK'
  <2>1. \A o \in orphans' : o[1] \in due
    <3> SUFFICES ASSUME NEW o \in orphans' PROVE o[1] \in due
      OBVIOUS
    <3>1. CASE o \in orphans
      BY <3>1 DEF DueOK
    <3>2. CASE \E m \in Todo(d) : o = <<m, <<d, loads[d]>>>>
      BY <3>2 DEF DueOK
    <3> QED BY <1>5, <3>1, <3>2
  <2> QED BY <1>1, <1>2, <2>1 DEF DueOK, OthersKeep, NotBeforeTime
<1>7. /\ loads \in [Devices -> 0 .. MaxLoads] /\ loads[d] \in 0 .. MaxLoads
      /\ orphans \subseteq Msgs \X (Devices \X (0 .. MaxLoads))
  BY DEF AttemptsOK
<1>8. AttemptsOK'
  <2>1. orphans' \subseteq Msgs \X (Devices \X (0 .. MaxLoads))
    <3> SUFFICES ASSUME NEW o \in orphans' PROVE o \in Msgs \X (Devices \X (0 .. MaxLoads))
      OBVIOUS
    <3> QED BY <1>2, <1>5, <1>7
  <2>2. ASSUME NEW e \in Devices, NEW l \in 0 .. MaxLoads, NEW m \in Msgs,
               <<m, <<e, l>>>> \in orphans'
        PROVE  l < loads[e] \/ (l = loads[e] /\ ~open'[e])
    <3>1. CASE <<m, <<e, l>>>> \in orphans
      <4>1. l < loads[e] \/ (l = loads[e] /\ ~open[e])
        BY <3>1 DEF AttemptsOK
      <4> QED BY <1>2, <4>1
    <3>2. CASE \E n \in Todo(d) : <<m, <<e, l>>>> = <<n, <<d, loads[d]>>>>
      BY <1>2, <3>2
    <3> QED BY <1>5, <2>2, <3>1, <3>2
  <2>3. ASSUME NEW m \in Msgs, NEW p \in Devices \X (0 .. MaxLoads), <<m, p>> \in orphans'
        PROVE  p \in listed[m]
    <3>1. CASE <<m, p>> \in orphans
      BY <3>1 DEF AttemptsOK
    <3>2. CASE \E n \in Todo(d) : <<m, p>> = <<n, <<d, loads[d]>>>>
      BY <3>2 DEF AttemptsOK
    <3> QED BY <1>5, <2>3, <3>1, <3>2
  <2>4. ASSUME NEW m \in Msgs
        PROVE  /\ listed[m] \subseteq Devices \X (0 .. MaxLoads) /\ IsFiniteSet(listed[m])
               /\ \A e \in Devices : m \in Todo(e)' => <<e, loads[e]>> \in listed[m]
    BY <1>2 DEF AttemptsOK, OthersKeep
  <2> QED BY <1>1, <1>7, <2>1, <2>2, <2>3, <2>4 DEF AttemptsOK
<1>9. CountOK'
  <2>1. ASSUME NEW m \in Msgs PROVE submitted[m] <= Cardinality(Used(m)')
    <3>1. \A p : Attempt(m, p)' => Attempt(m, p)
      <4> SUFFICES ASSUME NEW p, Attempt(m, p)' PROVE Attempt(m, p)
        OBVIOUS
      <4>1. CASE <<m, p>> \in orphans'
        <5>1. CASE <<m, p>> \in orphans
          BY <5>1 DEF Attempt
        <5>2. CASE \E n \in Todo(d) : <<m, p>> = <<n, <<d, loads[d]>>>>
          BY <5>2 DEF Attempt
        <5> QED BY <1>5, <4>1, <5>1, <5>2
      <4>2. CASE \E e \in Devices : p = <<e, loads[e]>> /\ m \in Todo(e)'
        BY <1>2, <4>2 DEF Attempt, OthersKeep
      <4> QED BY <1>1, <4>1, <4>2 DEF Attempt
    <3>2. /\ Used(m) \subseteq Used(m)' /\ Used(m)' \subseteq listed[m]
          /\ IsFiniteSet(listed[m])
      BY <1>1, <3>1 DEF Used, AttemptsOK
    <3>3. IsFiniteSet(Used(m)') /\ IsFiniteSet(Used(m))
      BY <3>2, FS_Subset
    <3>4. /\ Cardinality(Used(m)) <= Cardinality(Used(m)')
          /\ Cardinality(Used(m)) \in Nat /\ Cardinality(Used(m)') \in Nat
      BY <3>2, <3>3, FS_Subset, FS_CardinalityType
    <3> QED BY <3>4 DEF MailOK, CountOK
  <2> QED BY <1>1, <2>1 DEF CountOK
<1> QED BY <1>2, <1>3, <1>4, <1>6, <1>8, <1>9

-----------------------------------------------------------------------------
(* The theorems.                                                            *)

LEMMA InitInv == Init => SchedulerInv
<1> SUFFICES ASSUME Init PROVE SchedulerInv
  OBVIOUS
<1>1. /\ \A d \in Devices : \A k \in Rounds[d] : round[d][k] = Idle
      /\ round = [d \in Devices |-> [k \in Rounds[d] |-> Idle]]
  BY DEF Init
<1>2. RoundsOK
  <2>1. \A d \in Devices : round[d] \in [Rounds[d] -> Round]
    BY <1>1, IdleOK
  <2>2. \A d \in Devices : \A k \in Rounds[d] :
          GoodRound(round[d][k]) /\ (Pc(d, k) # "idle" => open[d] /\ dispatching[d])
    BY <1>1, IdleOK DEF Pc
  <2>3. open \in [Devices -> BOOLEAN] /\ dispatching \in [Devices -> BOOLEAN]
    BY DEF Init
  <2>4. \A d \in Devices : \A j, k \in Rounds[d] :
          Pc(d, j) # "idle" /\ Pc(d, k) # "idle" => j = k
    BY <1>1, IdleOK DEF Pc
  <2> QED BY <1>1, <2>1, <2>2, <2>3, <2>4 DEF RoundsOK
<1>3. \A d \in Devices : Todo(d) = {} /\ Cur(d) = {}
  BY <1>1, IdleOK DEF Todo, Cur
<1>4. MailOK
  BY FolderFacts DEF Init, MailOK
<1>5. RestOK /\ DraftOK /\ OutboxOK
  BY ConstantFacts DEF Init, RestOK, DraftOK, OutboxOK
<1>6. DueOK
  BY <1>3 DEF Init, DueOK, NotBeforeTime
<1>7. AttemptsOK
  <2>1. orphans = {} /\ loads \in [Devices -> 0 .. MaxLoads]
    BY ConstantFacts DEF Init
  <2>2. \A m \in Msgs : listed[m] = {}
    BY DEF Init
  <2> QED BY <1>3, <2>1, <2>2, FS_EmptySet DEF AttemptsOK
<1>8. CountOK
  <2>1. \A m \in Msgs : Used(m) = {} /\ submitted[m] = 0 /\ kw[m] = {}
    BY DEF Init, Used
  <2> QED BY <2>1, FS_EmptySet DEF CountOK
<1> QED BY <1>2, <1>4, <1>5, <1>6, <1>7, <1>8 DEF SchedulerInv

LEMMA StepInv == SchedulerInv /\ [Next]_vars => SchedulerInv'
<1> SUFFICES ASSUME SchedulerInv, [Next]_vars PROVE SchedulerInv'
  OBVIOUS
<1>1. CASE UNCHANGED vars
  <2>1. /\ UNCHANGED <<account, mail, due, orphans, page, listed, cut>>
        /\ UNCHANGED <<open, round, dispatching, counted, faults>>
    BY <1>1 DEF vars, mail, page
  <2>2. RoundsOK' /\ SameSets /\ RestOK'
    BY <2>1, NoRoundStep DEF SchedulerInv, RestOK
  <2> QED BY <2>1, <2>2, QuietInv
<1>2. ASSUME NEW d \in Devices, NEW m \in Msgs, Schedule(d, m) \/ Cancel(d, m) \/ Destroy(d, m)
      PROVE  SchedulerInv'
  BY <1>2, ScheduleInv, CancelInv, DestroyInv
<1>3. ASSUME NEW m \in Msgs, Tick(m) \/ Late(m) PROVE SchedulerInv'
  BY <1>3, TickInv, LateInv
<1>4. ASSUME NEW d \in Devices, Load(d) \/ Unload(d) \/ Refresh(d) PROVE SchedulerInv'
  BY <1>4, LoadInv, UnloadInv, RefreshInv
<1>5. ASSUME NEW d \in Devices, NEW k \in Rounds[d], RoundStep(d, k) PROVE SchedulerInv'
  BY <1>5, WakeInv, ListInv, PostInv, BackInv, RoundRefreshInv DEF RoundStep
<1> QED BY <1>1, <1>2, <1>3, <1>4, <1>5 DEF Next

\* The invariant the theorems below rest on: rounds, mails, listings and attempts together.
THEOREM Inductive == Spec => []SchedulerInv
BY InitInv, StepInv, PTL DEF Spec

\* Every variable of the scheduler keeps its type, whatever the account's folders: a mail is
\* only ever filed in folders the account has.
THEOREM TypeCorrect == Spec => []TypeOK
<1>1. SchedulerInv => TypeOK
  BY DEF SchedulerInv, TypeOK, MailOK, RoundsOK, RestOK, DueOK, OutboxOK, AttemptsOK
<1> QED BY <1>1, Inductive, PTL

\* dispatchDue submits a mail at most once for each page load whose list of due mails it was
\* in: however many timers overlap, requests fail and replies are lost within one page.
THEOREM SentOncePerLoad == Spec => []OncePerLoad
<1>1. SchedulerInv => OncePerLoad
  <2> SUFFICES ASSUME SchedulerInv, NEW m \in Msgs
               PROVE  submitted[m] <= Cardinality(listed[m])
    BY DEF OncePerLoad
  <2>1. /\ Used(m) \subseteq listed[m] /\ IsFiniteSet(listed[m])
        /\ submitted[m] \in Nat /\ submitted[m] <= Cardinality(Used(m))
    BY DEF SchedulerInv, AttemptsOK, CountOK, MailOK, Used
  <2>2. /\ Cardinality(Used(m)) <= Cardinality(listed[m]) /\ Cardinality(Used(m)) \in Nat
        /\ Cardinality(listed[m]) \in Nat
    BY <2>1, FS_Subset, FS_CardinalityType
  <2> QED BY <2>1, <2>2
<1> QED BY <1>1, Inductive, PTL

\* dispatchDue submits no mail before the time the user set, whatever was cancelled,
\* reloaded or retried meanwhile and whichever request is still under way.
THEOREM SentAfterItsTime == Spec => []NotBeforeTime
<1>1. SchedulerInv => NotBeforeTime
  BY DEF SchedulerInv, DueOK
<1> QED BY <1>1, Inductive, PTL

\* The requests of dispatchDue leave a mail they did not send a draft that the user can
\* still reach.
THEOREM UnsentIsReachable == Spec => []UnsentStaysDraft
<1>1. SchedulerInv => UnsentStaysDraft
  BY DEF SchedulerInv, DraftOK, UnsentStaysDraft
<1> QED BY <1>1, Inductive, PTL

\* dispatchDue leaves a refused mail in Outbox only where its move back to Scheduled was
\* interrupted.
THEOREM OutboxHoldsInterrupted == Spec => []OutboxIsTransient
<1>1. SchedulerInv => OutboxIsTransient
  BY DEF SchedulerInv, OutboxOK, OutboxIsTransient, Cur
<1> QED BY <1>1, Inductive, PTL
=============================================================================
