--------------------------- MODULE ScheduledSend ----------------------------
(***************************************************************************)
(* "Send later" of dist/app.js.  There is no server-side scheduler: a      *)
(* scheduled mail is a draft in the folder Scheduled with the keyword      *)
(* sendat_<time>, and every open client looks for due ones twice a minute  *)
(* and submits them.  The mail account is shared by all clients; each      *)
(* request is one step of the server, and its reply may be lost.           *)
(***************************************************************************)
EXTENDS Naturals, FiniteSets

CONSTANTS
  Msgs, Devices,
  Rounds,       \* d -> the calls of wakeDue that may overlap in d (timer, boot)
  Accounts,     \* what an account may turn out to be: its folders, the mails its user
                \* schedules, the devices its clients run on
  MaxLoads,     \* bound on the page loads of a device; the last one stays open
  MaxFaults     \* bound on lost requests and replies and on rejected submissions

ASSUME SchedulerAssumption ==
  /\ DOMAIN Rounds = Devices
  /\ MaxLoads \in Nat /\ MaxFaults \in Nat
  \* Scheduled and Drafts are there (the handlers return without them), and so is one of
  \* Outbox, which ensureSystemBoxes tries to create, and Sent.
  /\ \A a \in Accounts : /\ {"scheduled", "drafts"} \subseteq a.folders
                         /\ a.folders \cap {"outbox", "sent"} # {}
                         /\ a.folders \subseteq {"scheduled", "drafts", "outbox", "sent"}
                         /\ a.mails \subseteq Msgs /\ a.devices \subseteq Devices

VARIABLES
  account,      \* the account
  box, kw,      \* the folders and the keywords of each mail; a mail in no folder does not exist
  submitted,    \* how often the server accepted each mail for delivery
  due,          \* the mails whose time has come
  orphans,      \* requests not yet processed whose page is gone: the mail, the page load
  open, loads,  \* whether the client runs, and how often it was loaded
  counted,      \* the cached totalEmails of Scheduled is not zero
  dispatching,  \* the flag of dispatchDue
  round,        \* the calls of wakeDue in progress
  listed,       \* history: the page loads whose query returned the mail
  cut,          \* history: rejected mails whose way back to Scheduled was interrupted
  faults

mail == <<box, kw, submitted>>
page == <<open, loads>>
vars == <<account, box, kw, submitted, due, orphans, open, loads, counted, dispatching,
          round, listed, cut, faults>>

Idle == [pc |-> "idle", todo |-> {}, cur |-> {}, sentN |-> FALSE]
Round == [pc : {"idle", "query", "post", "back", "refresh"}, todo : SUBSET Msgs,
          cur : SUBSET Msgs, sentN : BOOLEAN]

Init ==
  /\ account \in Accounts
  /\ box = [m \in Msgs |-> {}] /\ kw = [m \in Msgs |-> {}]
  /\ submitted = [m \in Msgs |-> 0]
  /\ due = {} /\ orphans = {}
  /\ open = [d \in Devices |-> FALSE] /\ loads = [d \in Devices |-> 0]
  /\ counted = [d \in Devices |-> FALSE] /\ dispatching = [d \in Devices |-> FALSE]
  /\ round = [d \in Devices |-> [k \in Rounds[d] |-> Idle]]
  /\ listed = [m \in Msgs |-> {}] /\ cut = {} /\ faults = 0

Ok == UNCHANGED faults
Fault == faults < MaxFaults /\ faults' = faults + 1

InScheduled == {m \in Msgs : "scheduled" \in box[m]}
\* refreshBoxes: Mailbox/get; its failure is swallowed.
Recount(d) == \/ counted' = [counted EXCEPT ![d] = InScheduled' # {}] /\ Ok
              \/ UNCHANGED counted /\ Fault

-----------------------------------------------------------------------------
(* The user: schedules a mail, cancels one, edits it away.                  *)

\* saveScheduled: Email/set create, then afterMutate.
Schedule(d, m) ==
  /\ m \in account.mails /\ open[d] /\ box[m] = {} /\ submitted[m] = 0 /\ m \notin due
  /\ box' = [box EXCEPT ![m] = {"scheduled"}]
  /\ kw' = [kw EXCEPT ![m] = {"draft", "sendat"}]
  /\ Recount(d)
  /\ UNCHANGED <<account, submitted, due, orphans, page, dispatching, round, listed, cut>>

\* cancelScheduled, on a row of a list that may be out of date.
Cancel(d, m) ==
  /\ open[d] /\ box[m] # {}
  /\ box' = [box EXCEPT ![m] = (@ \cup {"drafts"}) \ {"scheduled"}]
  /\ kw' = [kw EXCEPT ![m] = @ \ {"sendat"}]
  /\ Recount(d)
  /\ UNCHANGED <<account, submitted, due, orphans, page, dispatching, round, listed, cut>>

\* The mail was opened in the composer (openRow: from Drafts, or a draft in Outbox) and then
\* discarded, sent or saved again, which destroys this copy.
Destroy(d, m) ==
  /\ open[d]
  /\ "drafts" \in box[m] \/ ("outbox" \in box[m] /\ "draft" \in kw[m])
  /\ box' = [box EXCEPT ![m] = {}] /\ kw' = [kw EXCEPT ![m] = {}]
  /\ Recount(d)
  /\ UNCHANGED <<account, submitted, due, orphans, page, dispatching, round, listed, cut>>

Tick(m) ==
  /\ box[m] # {} /\ m \notin due
  /\ due' = due \cup {m}
  /\ UNCHANGED <<account, mail, orphans, page, counted, dispatching, round, listed, cut, faults>>

-----------------------------------------------------------------------------
(* The server, on the two calls of one dispatch request.                    *)

Out == IF "outbox" \in account.folders THEN "outbox" ELSE "scheduled"
Sent == IF "sent" \in account.folders THEN "sent" ELSE "scheduled"

\* Mutant: Outbox is taken for granted.
ToOutbox_Always(m) == (box[m] \cup {"outbox"}) \ {"scheduled"}
\* toOut: Email/set to Outbox, nothing without that folder.
ToOutbox(m) == IF Out = "outbox" THEN (box[m] \cup {"outbox"}) \ {"scheduled"} ELSE box[m]

\* EmailSubmission/set is accepted and onSuccessUpdateEmail applies onOk.
Accepts(m) ==
  /\ box[m] # {}
  /\ submitted' = [submitted EXCEPT ![m] = @ + 1]
  /\ box' = [box EXCEPT ![m] = (ToOutbox(m) \cup {Sent}) \ {Out}]
  /\ kw' = [kw EXCEPT ![m] = {}]

\* Mutant: the update is unconditional.
Rejects_Filed(m) ==
  /\ box' = [box EXCEPT ![m] = IF @ = {} THEN {} ELSE (ToOutbox(m) \cup {Sent}) \ {Out}]
  /\ IF box[m] = {} THEN Ok ELSE Fault
  /\ kw' = [kw EXCEPT ![m] = {}] /\ UNCHANGED submitted
\* It is not: the first call's effect stays.  A destroyed mail is always refused.
Rejects(m) ==
  /\ box' = [box EXCEPT ![m] = IF @ = {} THEN {} ELSE ToOutbox(m)]
  /\ IF box[m] = {} THEN Ok ELSE Fault
  /\ UNCHANGED <<kw, submitted>>

-----------------------------------------------------------------------------
(* wakeDue and dispatchDue: round k of device d.                            *)

Pc(d, k) == round[d][k].pc
Put(d, k, r) == round' = [round EXCEPT ![d][k] = r]
\* Mutant: no finally clause.
Leave_FlagKept(d, k) == Put(d, k, Idle) /\ UNCHANGED dispatching
\* The finally clause.
Leave(d, k) ==
  /\ Put(d, k, Idle)
  /\ dispatching' = [dispatching EXCEPT ![d] = FALSE]

\* The loop goes on with the mails left, or ends: the folder counts are fetched again when
\* something was sent.
Continue(d, k, todo, sentN) ==
  IF todo = {} /\ ~sentN THEN Leave(d, k)
  ELSE /\ Put(d, k, [pc |-> IF todo = {} THEN "refresh" ELSE "post", todo |-> todo,
                     cur |-> {}, sentN |-> sentN])
       /\ UNCHANGED dispatching

\* The interval fires, or boot calls; the half about snoozed mails ends without an error.
\* When the cached count is zero the handler returns at once and clears the flag.
\* Mutant: the flag is not looked at.
Wake_Unguarded(d, k) ==
  /\ open[d] /\ Pc(d, k) = "idle" /\ counted[d]
  /\ dispatching' = [dispatching EXCEPT ![d] = TRUE]
  /\ Put(d, k, [Idle EXCEPT !.pc = "query"])
  /\ UNCHANGED <<account, mail, due, orphans, page, counted, listed, cut, faults>>
Wake(d, k) ==
  /\ open[d] /\ Pc(d, k) = "idle" /\ ~dispatching[d] /\ counted[d]
  /\ dispatching' = [dispatching EXCEPT ![d] = TRUE]
  /\ Put(d, k, [Idle EXCEPT !.pc = "query"])
  /\ UNCHANGED <<account, mail, due, orphans, page, counted, listed, cut, faults>>

\* Mutant: the time is not compared.
Due_AnyTime == {m \in InScheduled : "sendat" \in kw[m]}
\* What the query returns and the loop does not skip.
Due == {m \in InScheduled : "sendat" \in kw[m] /\ m \in due}

\* Email/query and Email/get.
List(d, k) ==
  /\ Pc(d, k) = "query"
  /\ \/ /\ listed' = [m \in Msgs |-> listed[m] \cup
                        IF m \in Due THEN {<<d, loads[d]>>} ELSE {}]
        /\ Continue(d, k, Due, FALSE) /\ Ok
     \/ Leave(d, k) /\ Fault /\ UNCHANGED listed
  /\ UNCHANGED <<account, mail, due, orphans, page, counted, cut>>

\* Mutant: nothing moves the mail back.
Refused_NoWayBack(d, k, m) == Continue(d, k, round[d][k].todo \ {m}, round[d][k].sentN)
\* The reply says that the submission was not created.
Refused(d, k, m) ==
  IF Out = "outbox"
    THEN /\ Put(d, k, [round[d][k] EXCEPT !.pc = "back", !.todo = @ \ {m}, !.cur = {m}])
         /\ UNCHANGED dispatching
    ELSE Continue(d, k, round[d][k].todo \ {m}, round[d][k].sentN)

\* One mail of the list: Email/set and EmailSubmission/set in one request.  Accepted, with
\* the reply or without; refused, likewise; or the request is lost.
Post(d, k) ==
  /\ Pc(d, k) = "post"
  /\ \E m \in round[d][k].todo :
       LET rest == round[d][k].todo \ {m}
           Skip == Continue(d, k, rest, round[d][k].sentN)
       IN \/ /\ Accepts(m) /\ UNCHANGED cut
             /\ \/ Continue(d, k, rest, TRUE) /\ Ok
                \/ Skip /\ Fault
          \/ Rejects(m) /\ Refused(d, k, m) /\ UNCHANGED cut
          \/ /\ Rejects(m) /\ box[m] # {} /\ Skip
             /\ cut' = cut \cup {m}
          \/ Fault /\ Skip /\ UNCHANGED <<mail, cut>>
  /\ UNCHANGED <<account, due, orphans, page, counted, listed>>

\* The rejected mail goes back to Scheduled; an error is swallowed.
Back(d, k) ==
  /\ Pc(d, k) = "back"
  /\ \E m \in round[d][k].cur :
       \/ /\ box' = [box EXCEPT ![m] = IF @ = {} THEN {}
                                       ELSE (@ \cup {"scheduled"}) \ {"outbox"}]
          /\ Ok /\ UNCHANGED cut
       \/ Fault /\ cut' = cut \cup {m} /\ UNCHANGED box
  /\ Continue(d, k, round[d][k].todo, round[d][k].sentN)
  /\ UNCHANGED <<account, kw, submitted, due, orphans, page, counted, listed>>

\* refreshBoxes after a round that sent something.
RoundRefresh(d, k) ==
  /\ Pc(d, k) = "refresh"
  /\ UNCHANGED <<account, mail, due, orphans, page, listed, cut>>
  /\ Recount(d) /\ Leave(d, k)

-----------------------------------------------------------------------------
(* Pages come and go.                                                       *)

\* boot: Mailbox/get.
Load(d) ==
  /\ d \in account.devices /\ ~open[d] /\ loads[d] < MaxLoads
  /\ open' = [open EXCEPT ![d] = TRUE] /\ loads' = [loads EXCEPT ![d] = @ + 1]
  /\ counted' = [counted EXCEPT ![d] = InScheduled # {}]
  /\ UNCHANGED <<account, mail, due, orphans, dispatching, round, listed, cut, faults>>

\* The page goes away; a request already sent may still reach the server.
Unload(d) ==
  /\ open[d] /\ loads[d] < MaxLoads
  /\ LET InPost == UNION {round[d][k].todo : k \in {j \in Rounds[d] : Pc(d, j) = "post"}}
         InBack == UNION {round[d][k].cur : k \in Rounds[d]}
     IN /\ \/ UNCHANGED orphans
           \/ \E m \in InPost : orphans' = orphans \cup {<<m, <<d, loads[d]>>>>}
        /\ cut' = cut \cup InBack
  /\ open' = [open EXCEPT ![d] = FALSE]
  /\ dispatching' = [dispatching EXCEPT ![d] = FALSE]
  /\ round' = [round EXCEPT ![d] = [k \in Rounds[d] |-> Idle]]
  /\ UNCHANGED <<account, mail, due, loads, counted, listed, faults>>

\* The server gets to a request whose page is gone.
Late(m) ==
  /\ \E o \in orphans : o[1] = m /\ orphans' = orphans \ {o}
  /\ \/ Accepts(m) /\ Ok /\ UNCHANGED cut
     \/ Rejects(m) /\ cut' = cut \cup {m}
  /\ UNCHANGED <<account, due, page, counted, dispatching, round, listed>>

\* refreshSoft: once a minute, unless a mail, the composer or a focus timer is open.
Refresh(d) ==
  /\ open[d]
  /\ UNCHANGED <<account, mail, due, orphans, page, dispatching, round, listed, cut>>
  /\ Recount(d)

RoundStep(d, k) == Wake(d, k) \/ List(d, k) \/ Post(d, k) \/ Back(d, k) \/ RoundRefresh(d, k)
Next ==
  \/ \E d \in Devices, m \in Msgs : Schedule(d, m) \/ Cancel(d, m) \/ Destroy(d, m)
  \/ \E m \in Msgs : Tick(m) \/ Late(m)
  \/ \E d \in Devices : Load(d) \/ Unload(d) \/ Refresh(d)
  \/ \E d \in Devices : \E k \in Rounds[d] : RoundStep(d, k)

Spec == Init /\ [][Next]_vars

\* Timers fire, requests are answered, time passes, a closed client is opened again; the
\* user, the network's faults and the closing of pages are not forced.
FairSpec ==
  /\ Spec
  /\ \A m \in Msgs : WF_vars(Tick(m)) /\ WF_vars(Late(m))
  /\ \A d \in Devices : WF_vars(Load(d)) /\ WF_vars(Refresh(d))
  /\ \A d \in Devices : \A k \in Rounds[d] : WF_vars(RoundStep(d, k))

-----------------------------------------------------------------------------
TypeOK ==
  /\ account \in Accounts
  /\ box \in [Msgs -> SUBSET account.folders] /\ kw \in [Msgs -> SUBSET {"draft", "sendat"}]
  /\ submitted \in [Msgs -> Nat]
  /\ due \subseteq Msgs /\ orphans \subseteq Msgs \X (Devices \X (0 .. MaxLoads))
  /\ open \in [Devices -> BOOLEAN] /\ loads \in [Devices -> 0 .. MaxLoads]
  /\ counted \in [Devices -> BOOLEAN] /\ dispatching \in [Devices -> BOOLEAN]
  /\ \A d \in Devices : round[d] \in [Rounds[d] -> Round]
  /\ \A m \in Msgs : listed[m] \subseteq Devices \X (0 .. MaxLoads)
  /\ cut \subseteq Msgs /\ faults \in 0 .. MaxFaults

\* A mail goes out at most once for each page load (another device, or after a reload) whose
\* list of due mails it was ever in: overlapping timers, refusals and lost replies within one
\* page never send it twice.
OncePerLoad ==
  \A m \in Msgs : submitted[m] > 1 => submitted[m] <= Cardinality(listed[m])

\* No mail goes out before its time, whatever was cancelled, reloaded or retried meanwhile.
NotBeforeTime == \A m \in Msgs : submitted[m] > 0 => m \in due

\* A mail that was not sent is a draft the user can still reach: in Scheduled with its time,
\* in Drafts, or in Outbox.  It never loses its draft mark or shows only under Sent.
UnsentStaysDraft ==
  \A m \in Msgs : box[m] # {} /\ submitted[m] = 0 =>
    /\ "draft" \in kw[m] /\ "sent" \notin box[m]
    /\ \/ "scheduled" \in box[m] /\ "sendat" \in kw[m]
       \/ box[m] \cap {"drafts", "outbox"} # {}

\* A mail whose submission was refused rests in Outbox, where nothing retries it, only if its
\* move back to Scheduled was interrupted.
OutboxIsTransient ==
  \A m \in Msgs : "outbox" \in box[m] =>
    m \in cut \/ \E d \in Devices : \E k \in Rounds[d] : m \in round[d][k].cur

\* A scheduled mail is eventually sent, unless the user takes it back or its way back from
\* Outbox was interrupted.
ScheduledGoesOut ==
  \A m \in Msgs : "scheduled" \in box[m] /\ "sendat" \in kw[m] ~>
    submitted[m] > 0 \/ "sendat" \notin kw[m] \/ m \in cut
=============================================================================
