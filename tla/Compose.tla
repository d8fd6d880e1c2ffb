------------------------------ MODULE Compose -------------------------------
(***************************************************************************)
(* The composer of dist/app.js: drafts that save themselves, a send that   *)
(* waits for the user to change his mind, and what interrupts either.  One *)
(* page; JavaScript runs one callback at a time, and a request is answered *)
(* later, whatever the user has done since.  A mail is one value: what     *)
(* matters of its text is which mail it belongs to.                        *)
(***************************************************************************)
EXTENDS Naturals, FiniteSets

CONSTANTS
  MaxMails,     \* bound on the mails the user begins
  Nil,
  MaxSends,     \* bound on how often Send is pressed
  MaxSaves,     \* bound on the drafts saved
  MaxReqs,      \* bound on the requests the form has under way
  MaxUpsets     \* bound on requests lost or refused, lost answers, visits to the direct
                \* messages and reloads of the page, together

ASSUME ComposeAssumption ==
  /\ MaxMails \in Nat /\ MaxSends \in Nat /\ MaxSaves \in Nat
  /\ MaxReqs \in Nat /\ MaxUpsets \in Nat
  /\ Nil \notin Nat

VARIABLES
  drafts,       \* server: the mail in each draft, by id; Nil for none
  fresh,        \* the last id given to a draft
  started,      \* how many mails the user began
  form,         \* the mail in the form, or Nil
  shown,        \* the composer is not hidden
  armed, dirty, \* S.autosaveTimer is set; S.cpDirty
  draftId,      \* S.draftId
  pending,      \* S.pendingSend: which send, or Nil
  undo,         \* what the toast's Undo would take back, or Nil: there is one toast
  sends,        \* every press of Send: the mail and the draft it replaces while it waits,
                \* and how far it is
  reqs,         \* requests in flight
  submitted,    \* how often the server accepted the mail of a press
  loose,        \* history: drafts whose id came in an answer after the composer had gone on,
                \* or was kept when a mail was begun over another or over one discarded
  upsets

composer == <<form, shown, armed, dirty, draftId>>
sending == <<pending, undo, sends>>
vars == <<drafts, fresh, started, composer, sending, reqs, submitted, loose, upsets>>

Mails == 1 .. MaxMails
Presses == 1 .. MaxSends
Ids == 1 .. MaxSaves + MaxSends          \* the message of press p is MaxSaves + p
Unused == [mail |-> Nil, old |-> Nil, st |-> "unused"]

Init ==
  /\ drafts = [i \in Ids |-> Nil] /\ fresh = 0 /\ started = 0
  /\ form = Nil /\ shown = FALSE /\ armed = FALSE /\ dirty = FALSE /\ draftId = Nil
  /\ pending = Nil /\ undo = Nil /\ sends = [p \in Presses |-> Unused] /\ reqs = {}
  /\ submitted = [p \in Presses |-> 0]
  /\ loose = {} /\ upsets = 0

Ok == UNCHANGED upsets
Upset == upsets < MaxUpsets /\ upsets' = upsets + 1

\* A request: it creates message id, unless Nil, and destroys draft old; the page that made
\* it hears the answer.
Post(kind, m, id, old) ==
  reqs' = reqs \cup {[kind |-> kind, mail |-> m, id |-> id, old |-> old, heard |-> TRUE]}
Room == Cardinality(reqs) < MaxReqs
Quiet == UNCHANGED <<drafts, submitted, upsets>>

-----------------------------------------------------------------------------
(* The form.                                                                *)

\* openCompose resets everything but S.draftId.  A mail in the form has content.
Opened(m, id, changed) ==
  /\ form' = m /\ shown' = TRUE /\ armed' = TRUE /\ dirty' = changed /\ draftId' = id
Hidden == form' = Nil /\ shown' = FALSE /\ armed' = FALSE /\ dirty' = FALSE

\* The user starts a mail, from a button, a key, a reply, or a file to send.
Start(m) ==
  /\ m = started + 1 /\ started' = m
  /\ Opened(m, draftId, FALSE)
  /\ loose' = IF shown \/ armed THEN loose \cup ({draftId} \ {Nil}) ELSE loose
  /\ UNCHANGED <<fresh, sending, reqs>> /\ Quiet

Edit ==
  /\ shown /\ ~dirty /\ dirty' = TRUE
  /\ UNCHANGED <<fresh, started, form, shown, armed, draftId, sending, reqs, loose>> /\ Quiet

\* saveDraft, up to the request.
Save ==
  /\ Room /\ fresh < MaxSaves /\ fresh' = fresh + 1
  /\ Post("save", form, fresh + 1, draftId)

\* The interval of armAutosave, which goes on when the direct messages hide the composer.
Autosave ==
  /\ armed /\ dirty /\ Save
  /\ UNCHANGED <<started, composer, sending, loose>> /\ Quiet

\* Mutant: the id outlives the composer.
Close_KeepsId(save) ==
  /\ shown
  /\ IF save /\ dirty THEN Save ELSE UNCHANGED <<fresh, reqs>>
  /\ Hidden
  /\ UNCHANGED <<started, draftId, sending, loose>> /\ Quiet
\* closeCompose: saving, or on the way to the settings.
Close(save) ==
  /\ shown
  /\ IF save /\ dirty THEN Save ELSE UNCHANGED <<fresh, reqs>>
  /\ Hidden /\ draftId' = Nil
  /\ UNCHANGED <<started, sending, loose>> /\ Quiet

\* discardDraft, up to the request.
Discard ==
  /\ shown /\ Hidden
  /\ IF draftId = Nil THEN UNCHANGED <<reqs, loose>>
                      ELSE /\ Room /\ Post("discard", form, Nil, draftId)
                           /\ loose' = loose \cup {draftId}
  /\ UNCHANGED <<fresh, started, draftId, sending>> /\ Quiet

\* resumeDraft, when Email/get has answered.
Resume(i) ==
  /\ drafts[i] # Nil
  /\ Opened(drafts[i], i, FALSE)
  /\ UNCHANGED <<fresh, started, sending, reqs, loose>> /\ Quiet

\* saveScheduled, up to the request: the mail leaves the composer at once.
Schedule ==
  /\ shown /\ Room /\ Post("schedule", form, Nil, draftId)
  /\ Hidden /\ draftId' = Nil
  /\ UNCHANGED <<fresh, started, sending, loose>> /\ Quiet

-----------------------------------------------------------------------------
(* The undoable send.                                                       *)

Offer(p) == [press |-> p, mail |-> form, old |-> draftId]
End(p, st) == sends' = [sends EXCEPT ![p] = [Unused EXCEPT !.st = st]]
Following(p) == sends[p] = Unused /\ \A q \in Presses : q < p => sends[q] # Unused

\* Mutant: a send still waiting is given up for the next.
Send_DropsFirst(p) ==
  /\ shown /\ Following(p)
  /\ sends' = [q \in Presses |->
                 IF q = p THEN [mail |-> form, old |-> draftId, st |-> "waiting"]
                 ELSE IF q = pending THEN [Unused EXCEPT !.st = "stopped"] ELSE sends[q]]
  /\ pending' = p /\ undo' = Offer(p)
  /\ Hidden /\ draftId' = Nil
  /\ UNCHANGED <<fresh, started, reqs, loose>> /\ Quiet
\* sendNowRequest: pending and the toast are taken from a send that still waits.
Send(p) ==
  /\ shown /\ Following(p)
  /\ sends' = [sends EXCEPT ![p] = [mail |-> form, old |-> draftId, st |-> "waiting"]]
  /\ pending' = p /\ undo' = Offer(p)
  /\ Hidden /\ draftId' = Nil
  /\ UNCHANGED <<fresh, started, reqs, loose>> /\ Quiet

\* Mutant: S.pendingSend is left as it is.
Fire_KeepsPending(p) ==
  /\ sends[p].st = "waiting"
  /\ End(p, "posted")
  /\ Post("send", sends[p].mail, MaxSaves + p, sends[p].old)
  /\ UNCHANGED <<fresh, started, composer, pending, undo, loose>> /\ Quiet
\* The timer: S.pendingSend is cleared, whichever send it holds.
Fire(p) ==
  /\ sends[p].st = "waiting"
  /\ End(p, "posted")
  /\ Post("send", sends[p].mail, MaxSaves + p, sends[p].old)
  /\ pending' = Nil
  /\ UNCHANGED <<fresh, started, composer, undo, loose>> /\ Quiet

\* The toast outlives the timer by 400 ms; clearing a timer that has fired does nothing.
Undo ==
  /\ undo # Nil /\ undo' = Nil /\ pending' = Nil
  /\ IF sends[undo.press].st = "waiting" THEN End(undo.press, "undone") ELSE UNCHANGED sends
  /\ Opened(undo.mail, undo.old, TRUE)
  /\ UNCHANGED <<fresh, started, reqs, loose>> /\ Quiet

\* Its time is over, or another toast takes its place.
ToastGoes ==
  /\ undo # Nil /\ undo' = Nil
  /\ UNCHANGED <<fresh, started, composer, pending, sends, reqs, loose>> /\ Quiet

-----------------------------------------------------------------------------
(* Requests.                                                                *)

\* Email/set creates r.id in Drafts, or does not, and destroys r.old in any case.
Stored(r, created) ==
  drafts' = [i \in Ids |-> IF i = r.id /\ created THEN r.mail
                           ELSE IF i = r.old THEN Nil ELSE drafts[i]]
Missed == Upset /\ UNCHANGED drafts
Done(r) == reqs' = reqs \ {r} /\ UNCHANGED <<fresh, started, form, shown, armed>>

\* saveDraft.  The answer sets S.draftId whatever the form holds by now.
SaveDone(r) ==
  /\ r.kind = "save" /\ Done(r)
  /\ \/ /\ r.heard /\ Stored(r, TRUE) /\ Ok
        /\ draftId' = r.id /\ dirty' = FALSE
        /\ loose' = IF armed /\ form = r.mail THEN loose ELSE loose \cup {r.id}
     \/ /\ \/ ~r.heard /\ Stored(r, TRUE) /\ Ok
           \/ Stored(r, TRUE) /\ Upset            \* the answer is lost
           \/ Stored(r, FALSE) /\ Upset           \* notCreated
           \/ Missed
        /\ UNCHANGED <<draftId, dirty, loose>>
  /\ UNCHANGED <<sending, submitted>>

\* doSend: created and submitted, which files it under Sent; not submitted, which leaves it in
\* Drafts; not even created; or not carried out.  Its toast takes the place of an Undo.
SendDone(p, r) ==
  /\ r.kind = "send" /\ r.id = MaxSaves + p /\ Done(r)
  /\ \/ Stored(r, FALSE) /\ (Ok \/ Upset) /\ submitted' = [submitted EXCEPT ![p] = @ + 1]
     \/ \E created \in BOOLEAN : Stored(r, created) /\ Upset /\ UNCHANGED submitted
     \/ Missed /\ UNCHANGED submitted
  /\ End(p, "ended")
  /\ undo' = IF r.heard THEN Nil ELSE undo
  /\ UNCHANGED <<dirty, draftId, pending, loose>>

\* saveScheduled: a message in Scheduled, or the toast that it could not be; no toast when there
\* is no answer.
ScheduleDone(r) ==
  /\ r.kind = "schedule" /\ Done(r)
  /\ \/ Stored(r, FALSE) /\ (Ok \/ Upset) /\ undo' = IF r.heard THEN Nil ELSE undo
     \/ (Missed \/ (Stored(r, FALSE) /\ Upset)) /\ UNCHANGED undo
  /\ UNCHANGED <<dirty, draftId, pending, sends, submitted, loose>>

\* The rest of discardDraft: S.draftId is cleared, whichever mail it is of by now.
DiscardDone(r) ==
  /\ r.kind = "discard" /\ Done(r)
  /\ \/ drafts' = [drafts EXCEPT ![r.old] = Nil] /\ Ok
     \/ Missed
  /\ draftId' = IF r.heard THEN Nil ELSE draftId
  /\ undo' = IF r.heard THEN Nil ELSE undo
  /\ UNCHANGED <<dirty, pending, sends, submitted, loose>>

-----------------------------------------------------------------------------
(* What interrupts the composer.                                            *)

\* showDMs of dm.js hides the composer and cancels the pending send for good.
EnterDMs ==
  /\ Upset
  /\ shown' = FALSE
  /\ IF pending = Nil THEN UNCHANGED sends ELSE End(pending, "dropped")
  /\ pending' = Nil
  /\ UNCHANGED <<drafts, fresh, started, form, armed, dirty, draftId, undo, reqs, submitted, loose>>

\* The page goes away and is loaded again: beforeunload posts the pending send; the timers
\* and the form are gone; requests arrive all the same, and their answers are for nobody.
Reload ==
  /\ Upset
  /\ LET posted == IF pending = Nil THEN {}
                   ELSE {[kind |-> "send", mail |-> sends[pending].mail,
                          id |-> MaxSaves + pending, old |-> sends[pending].old,
                          heard |-> FALSE]}
     IN reqs' = {[r EXCEPT !.heard = FALSE] : r \in reqs} \cup posted
  /\ sends' = [p \in Presses |->
                 IF p = pending THEN [Unused EXCEPT !.st = "posted"]
                 ELSE IF sends[p].st = "waiting" THEN [Unused EXCEPT !.st = "dropped"]
                 ELSE sends[p]]
  /\ form' = Nil /\ shown' = FALSE /\ armed' = FALSE /\ dirty' = FALSE /\ draftId' = Nil
  /\ pending' = Nil /\ undo' = Nil
  /\ UNCHANGED <<drafts, fresh, started, submitted, loose>>

Next ==
  \/ \E m \in Mails : Start(m)
  \/ \E save \in BOOLEAN : Close(save)
  \/ Edit \/ Autosave \/ Discard \/ Schedule \/ \E i \in Ids : Resume(i)
  \/ \E p \in Presses : Send(p) \/ Fire(p)
  \/ Undo \/ ToastGoes
  \/ \E r \in reqs : \/ SaveDone(r) \/ ScheduleDone(r) \/ DiscardDone(r)
                     \/ \E p \in Presses : SendDone(p, r)
  \/ EnterDMs \/ Reload

Spec == Init /\ [][Next]_vars

\* A timer fires if it is not cleared, and a request is answered or fails.
FairSpec ==
  /\ Spec
  /\ \A p \in Presses : /\ WF_vars(Fire(p))
                        /\ WF_vars(\E r \in reqs : SendDone(p, r))

-----------------------------------------------------------------------------
(* Properties.                                                              *)

Newest(p) == sends[p] # Unused /\ \A q \in Presses : q > p => sends[q] = Unused
Requests == [kind : {"save", "send", "schedule", "discard"}, mail : Mails,
             id : Ids \cup {Nil}, old : Ids \cup {Nil}, heard : BOOLEAN]
States == {"unused", "waiting", "undone", "posted", "ended", "dropped"}

\* Types, and what the handlers rely on: a shown composer has its interval, an interval has a
\* mail, and what is pending or offered for Undo is the newest press of Send.
TypeOK ==
  /\ drafts \in [Ids -> Mails \cup {Nil}] /\ fresh \in 0 .. MaxSaves /\ started \in 0 .. MaxMails
  /\ form \in Mails \cup {Nil} /\ shown \in BOOLEAN /\ armed \in BOOLEAN /\ dirty \in BOOLEAN
  /\ draftId \in Ids \cup {Nil} /\ reqs \subseteq Requests
  /\ sends \in [Presses -> [mail : Mails \cup {Nil}, old : Ids \cup {Nil}, st : States]]
  /\ submitted \in [Presses -> Nat]
  /\ loose \subseteq Ids
  /\ upsets \in 0 .. MaxUpsets
  /\ (shown => armed) /\ (armed => form # Nil)
  /\ pending # Nil => Newest(pending) /\ sends[pending].st = "waiting"
  /\ undo # Nil => Newest(undo.press) /\ undo.mail \in Mails /\ undo.old \in Ids \cup {Nil}

\* Every press of Send submits its mail at most once, and one that was undone in time or
\* given up submits nothing: with a second send over the first, an Undo that outlives its
\* timer, a visit to the direct messages, and the beforeunload handler that posts what is
\* pending just when its timer fires (app.js:1146-1161, 4040-4042, dm.js:343).
SendOnce ==
  \A p \in Presses : /\ submitted[p] <= 1
                     /\ submitted[p] = 1 => sends[p].st = "ended"

\* A saved draft is destroyed only on behalf of its own mail, except one whose id reached
\* S.draftId by an answer that came after the composer had gone on (app.js:1097), and one
\* whose id openCompose kept, over an open composer or a discarded draft (app.js:980).
DraftsKept ==
  [][\A r \in reqs \ reqs', i \in Ids :
       drafts[i] # Nil /\ drafts'[i] = Nil => drafts[i] = r.mail \/ i \in loose]_vars

\* Every press of Send comes to an end, refused, failed or submitted, or undone, or given up
\* by showDMs or with the page: a later send that takes S.pendingSend does not stop it.
Settles ==
  \A p \in Presses :
    sends[p].st \in {"waiting", "posted"} ~> sends[p].st \in {"undone", "ended", "dropped"}
=============================================================================
