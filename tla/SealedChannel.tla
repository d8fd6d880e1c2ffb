--------------------------- MODULE SealedChannel ----------------------------
(***************************************************************************)
(* Direct messages over the sealed channel: dist/dm.js on top of the three *)
(* commands of src-tauri/src/channel.rs.  A sender drops one sealed blob   *)
(* into the peer's queue and one into its own; every client polls its      *)
(* queue, keeps what it opened in localStorage, and acknowledges, which    *)
(* makes the server delete.  JavaScript runs one callback at a time: what  *)
(* lies between two awaits is one step, except the loop over a batch,      *)
(* which is a chain of steps that only a crash interrupts.                 *)
(***************************************************************************)
EXTENDS Naturals, SequencesExt

CONSTANTS
  Users, Bodies,
  Talks,          \* <<u, q>>: u may write to q
  PollSlots,      \* u -> the polls of u that may overlap (12 s interval, 15 s timeout)
  SendSlots,      \* u -> the submits of u that may overlap
  Cap,            \* entries kept per conversation (1000 in dm.js)
  PullMax,        \* messages the server returns at most
  MaxLog,         \* bound on the messages the server ever accepts
  MaxFaults,      \* bound on lost requests and replies, damaged blobs and failed saves
  MaxCloses,      \* bound on how often clients are closed or die
  Nil

ASSUME ChannelAssumption ==
  /\ Talks \subseteq Users \X Users
  /\ DOMAIN PollSlots = Users /\ DOMAIN SendSlots = Users
  /\ \A u \in Users : PollSlots[u] \cap SendSlots[u] = {}
  /\ Cap \in Nat \ {0} /\ PullMax \in Nat \ {0}
  /\ MaxLog \in Nat /\ MaxFaults \in Nat /\ MaxCloses \in Nat
  /\ Nil \notin Users \cup Bodies

VARIABLES
  log,       \* every blob the server accepted; the index is msg_id
  queue,     \* the ids it has not deleted
  boot,      \* how far dm.js boot() is: "closed" when the client is not running
  self,      \* VfCrypto.self is set
  todo,      \* conversations restoreLocalDMs has still to read
  threads,   \* D.threads: threads[u][q] are the entries u sees with q, in memory
  store,     \* localStorage 'vfmail-dm-<q>' of u
  task,      \* the asynchronous work in flight in each client
  saved,     \* history: ids ever written to the recipient's localStorage
  unsaved,   \* history: ids a failed localStorage write did not keep
  faults, closes

client == <<boot, self, todo>>
server == <<log, queue>>
history == <<saved, unsaved>>
vars == <<log, queue, boot, self, todo, threads, store, task, history, faults, closes>>

Slots(u) == PollSlots[u] \cup SendSlots[u]
Stages == {"closed", "restore", "polling"}
PCs == {"idle", "batch", "ack", "toSelf", "reply", "refresh"}
\* A blob: whose queue, the sender and the "to" inside the envelope, and whether it opens.
Blob == [to : Users, from : Users, peer : Users, body : Bodies, opens : BOOLEAN]
\* A bubble; id 0 stands for the 'local-...' ids of optimistic ones.
Entry == [id : Nat, own : BOOLEAN, body : Bodies]
Task == [pc : PCs, batch : SUBSET Nat, ids : SUBSET Nat, peer : Users \cup {Nil},
         body : Bodies \cup {Nil}]

Idle == [pc |-> "idle", batch |-> {}, ids |-> {}, peer |-> Nil, body |-> Nil]
NoThreads == [q \in Users |-> <<>>]

Init ==
  /\ log = <<>> /\ queue = {}
  /\ boot = [u \in Users |-> "closed"] /\ self = [u \in Users |-> FALSE]
  /\ todo = [u \in Users |-> {}]
  /\ threads = [u \in Users |-> NoThreads] /\ store = [u \in Users |-> NoThreads]
  /\ task = [u \in Users |-> [k \in Slots(u) |-> Idle]]
  /\ saved = {} /\ unsaved = {} /\ faults = 0 /\ closes = 0

-----------------------------------------------------------------------------
Pc(u, k) == task[u][k].pc
Goto(u, k, pc) == task' = [task EXCEPT ![u][k].pc = pc]
Finish(u, k) == task' = [task EXCEPT ![u][k] = Idle]

\* The loop over a batch has begun and not ended: nothing else runs in that client.
MidLoop(u, k) == Pc(u, k) = "batch" /\ task[u][k].batch # task[u][k].ids
Free(u) == \A k \in Slots(u) : ~MidLoop(u, k)
Running(u) == boot[u] # "closed" /\ Free(u)

Ok == UNCHANGED faults
Fault == faults < MaxFaults /\ faults' = faults + 1

\* The conversation a blob belongs to: the envelope's "to" when the sender is the user.
Thread(u, m) == IF log[m].from = u THEN log[m].peer ELSE log[m].from
Has(entries, m) == \E i \in DOMAIN entries : entries[i].id = m

\* arr.push(entry), then splice from the front down to the cap.
Trim(entries) == IF Len(entries) <= Cap THEN entries ELSE Tail(entries)
\* Mutant: the cap is forgotten.
Saved_Uncapped(u, q, e) == [store EXCEPT ![u][q] = Append(@, e)]
Saved(u, q, e) == [store EXCEPT ![u][q] = Trim(Append(@, e))]

-----------------------------------------------------------------------------
(* boot(): user, identity, local history, mail, poll loop.                  *)

\* The application starts; waitForUser and ensureIdentity.  The identity is there, or its
\* command fails, or nobody has logged in after ten seconds and boot has no user to work for.
Open(u) ==
  /\ boot[u] = "closed"
  /\ \/ /\ self' = [self EXCEPT ![u] = TRUE] /\ Ok
        /\ boot' = [boot EXCEPT ![u] = "restore"]
     \/ /\ Fault /\ UNCHANGED self
        /\ boot' = [boot EXCEPT ![u] = "restore"]
     \/ /\ Fault /\ UNCHANGED self
        /\ boot' = [boot EXCEPT ![u] = "polling"]
  /\ todo' = [todo EXCEPT ![u] = IF boot'[u] = "restore"
                                   THEN {q \in Users : store[u][q] # <<>>} ELSE {}]
  /\ UNCHANGED <<threads, store, task, server, history, closes>>

\* The positions of a set, in order.
InOrder(K) == {f \in [1..Cardinality(K) -> K] : \A i, j \in DOMAIN f : i < j => f[i] < f[j]}
Readable(u, entries) == {i \in DOMAIN entries : self[u] \/ entries[i].id # 0}

\* restoreLocalDMs reads one conversation, in front of what is there: what polls kept is
\* plaintext, what sends kept is sealed and needs the identity.
Restore(u) ==
  /\ boot[u] = "restore" /\ Free(u)
  /\ \E q \in todo[u] :
       /\ \E f \in InOrder(Readable(u, store[u][q])) :
            threads' = [threads EXCEPT ![u][q] = [i \in DOMAIN f |-> store[u][q][f[i]]] \o @]
       /\ todo' = [todo EXCEPT ![u] = @ \ {q}]
  /\ UNCHANGED <<boot, self, store, task, server, history, faults, closes>>

\* refresh(): D.threads.clear(), then one conversation for each mail with $vfdm; no client
\* writes such mail any more (sendDMLegacy is not wired).
Cleared(u) == threads' = [threads EXCEPT ![u] = NoThreads]

BootRefresh(u) ==
  /\ boot[u] = "restore" /\ todo[u] = {} /\ Free(u)
  /\ boot' = [boot EXCEPT ![u] = "polling"]
  /\ \/ Cleared(u) /\ Ok
     \/ Fault /\ UNCHANGED threads
  /\ UNCHANGED <<self, todo, store, task, server, history, closes>>

\* app.js fires the callback of onStateChange after every refreshSoft.
StateChange(u) ==
  /\ Running(u)
  /\ Cleared(u)
  /\ UNCHANGED <<client, store, task, server, history, faults, closes>>

\* promptNewDM calls ensureIdentity again.
NewDM(u) ==
  /\ Running(u) /\ ~self[u]
  /\ self' = [self EXCEPT ![u] = TRUE]
  /\ UNCHANGED <<boot, todo, threads, store, task, server, history, faults, closes>>

\* The window is closed, or the process dies: memory goes, localStorage stays.
Close(u) ==
  /\ boot[u] # "closed" /\ closes < MaxCloses
  /\ boot' = [boot EXCEPT ![u] = "closed"]
  /\ self' = [self EXCEPT ![u] = FALSE]
  /\ todo' = [todo EXCEPT ![u] = {}]
  /\ threads' = [threads EXCEPT ![u] = NoThreads]
  /\ task' = [task EXCEPT ![u] = [k \in Slots(u) |-> Idle]]
  /\ closes' = closes + 1
  /\ UNCHANGED <<store, server, history, faults>>

-----------------------------------------------------------------------------
(* pollChannelOnce                                                          *)

\* The timer fires and the server answers, with the oldest ids of the queue; it deletes
\* nothing.  An empty answer changes nothing, and a failed pull waits for the next tick.
Queued(u) == {m \in queue : log[m].to = u}
Oldest(S) == {m \in S : Cardinality({n \in S : n <= m}) <= PullMax}

\* Mutant: the next poll is scheduled only by a pull that succeeds.
Pull_StopsOnError(u, k) ==
  /\ boot[u] = "polling" /\ Free(u) /\ self[u] /\ Pc(u, k) = "idle"
  /\ \/ /\ Queued(u) # {} /\ Ok
        /\ task' = [task EXCEPT ![u][k] =
             [Idle EXCEPT !.pc = "batch", !.ids = Oldest(Queued(u)), !.batch = Oldest(Queued(u))]]
     \/ Fault /\ Goto(u, k, "stopped")
  /\ UNCHANGED <<client, threads, store, server, history, closes>>

Pull(u, k) ==
  /\ boot[u] = "polling" /\ Free(u) /\ self[u] /\ Pc(u, k) = "idle"
  /\ \/ /\ Queued(u) # {} /\ Ok
        /\ task' = [task EXCEPT ![u][k] =
             [Idle EXCEPT !.pc = "batch", !.ids = Oldest(Queued(u)), !.batch = Oldest(Queued(u))]]
     \/ Fault /\ UNCHANGED task
  /\ UNCHANGED <<client, threads, store, server, history, closes>>

\* Mutant: the loop ends with the first message, and all are acknowledged.
NextOf_Break(u, k, m) == task' = [task EXCEPT ![u][k].batch = {}, ![u][k].pc = "ack"]
\* One message of the batch is done with: its id is among those to acknowledge.
NextOf(u, k, m) ==
  LET rest == task[u][k].batch \ {m} IN
  task' = [task EXCEPT ![u][k].batch = rest, ![u][k].pc = IF rest = {} THEN "ack" ELSE "batch"]

\* The optimistic bubble an own message replaces: the first with that text among the
\* bubbles of the last minute, here the last `recent' ones.
Optimistic(entries, body, recent) ==
  {i \in DOMAIN entries : i > Len(entries) - recent /\ entries[i].own /\ entries[i].body = body}
Shown(entries, e, recent) ==
  LET match == IF e.own THEN Optimistic(entries, e.body, recent) ELSE {} IN
  IF match = {} THEN Append(entries, e)
  ELSE [entries EXCEPT ![CHOOSE i \in match : \A j \in match : i <= j].id = e.id]

Handle(u, k) ==
  /\ Pc(u, k) = "batch" /\ (MidLoop(u, k) \/ Free(u))
  /\ \E m \in task[u][k].batch :
       LET q == Thread(u, m)
           e == [id |-> m, own |-> log[m].from = u, body |-> log[m].body] IN
       /\ \A n \in task[u][k].batch : m <= n
       /\ \/ /\ ~log[m].opens \/ Has(threads[u][q], m)       \* dropped, or seen before
             /\ Ok /\ UNCHANGED <<threads, store, history>>
          \/ /\ log[m].opens /\ ~Has(threads[u][q], m)
             /\ \E recent \in 0..Len(threads[u][q]) :
                  threads' = [threads EXCEPT ![u][q] = Shown(@, e, recent)]
             /\ \/ Ok /\ store' = Saved(u, q, e) /\ saved' = saved \cup {m} /\ UNCHANGED unsaved
                \/ /\ Fault /\ unsaved' = unsaved \cup {m}                  \* quota exceeded
                   /\ UNCHANGED <<store, saved>>
       /\ NextOf(u, k, m)
  /\ UNCHANGED <<client, server, closes>>

\* Mutant: everything up to the newest id is acknowledged.
Ack_UpToNewest(u, k) ==
  /\ Pc(u, k) = "ack" /\ Free(u)
  /\ \/ queue' = queue \ Queued(u) /\ Ok
     \/ queue' = queue /\ Fault
  /\ Finish(u, k)
  /\ UNCHANGED <<log, client, threads, store, history, closes>>

\* channel_ack; that it failed, or that its answer was lost, goes unnoticed.
Ack(u, k) ==
  /\ Pc(u, k) = "ack" /\ Free(u)
  /\ \/ queue' = queue \ task[u][k].ids /\ Ok
     \/ queue' = queue /\ Fault
  /\ Finish(u, k)
  /\ UNCHANGED <<log, client, threads, store, history, closes>>

-----------------------------------------------------------------------------
(* The composer's submit: sendDM, then refresh.                             *)

SendTasks == UNION {{u} \X SendSlots[u] : u \in Users}
Sending == {t \in SendTasks : Pc(t[1], t[2]) = "toSelf"}
LogBudget == Len(log) + Cardinality(Sending) + 2 <= MaxLog

\* The server accepts a blob for `to' from u, in the conversation with q.
Accepted(u, q, b, to, opens) ==
  /\ log' = Append(log, [to |-> to, from |-> u, peer |-> q, body |-> b, opens |-> opens])
  /\ queue' = queue \cup {Len(log) + 1}

Sent(u, k, q, b) ==
  task' = [task EXCEPT ![u][k] = [Idle EXCEPT !.pc = IF q = u THEN "reply" ELSE "toSelf",
                                              !.peer = q, !.body = b]]

\* Mutant: the first send is not awaited, so its failure goes unnoticed.
Submit_NotAwaited(u, k) ==
  /\ Running(u) /\ self[u] /\ Pc(u, k) = "idle" /\ LogBudget
  /\ \E q \in Users, b \in Bodies :
       /\ <<u, q>> \in Talks
       /\ \/ Accepted(u, q, b, q, TRUE) /\ Ok /\ Sent(u, k, q, b)
          \/ UNCHANGED server /\ Fault /\ Sent(u, k, q, b)
  /\ UNCHANGED <<client, threads, store, history, closes>>

\* The user submits and the blob goes to the peer: accepted, accepted but damaged so that it
\* will not open, or accepted with the answer lost, which ends the submit.  (A request that
\* is lost ends it too and changes nothing.)
Submit(u, k) ==
  /\ Running(u) /\ self[u] /\ Pc(u, k) = "idle" /\ LogBudget
  /\ \E q \in Users, b \in Bodies :
       /\ <<u, q>> \in Talks
       /\ \/ Accepted(u, q, b, q, TRUE) /\ Ok /\ Sent(u, k, q, b)
          \/ Accepted(u, q, b, q, FALSE) /\ Fault /\ Sent(u, k, q, b)
          \/ Accepted(u, q, b, q, TRUE) /\ Fault /\ UNCHANGED task
  /\ UNCHANGED <<client, threads, store, history, closes>>

ToSelf(u, k) ==
  /\ Pc(u, k) = "toSelf" /\ Free(u)
  /\ LET t == task[u][k] IN
     \/ Accepted(u, t.peer, t.body, u, TRUE) /\ Ok /\ Goto(u, k, "reply")
     \/ Accepted(u, t.peer, t.body, u, TRUE) /\ Fault /\ Finish(u, k)
     \/ UNCHANGED server /\ Fault /\ Finish(u, k)
  /\ UNCHANGED <<client, threads, store, history, closes>>

\* The optimistic bubble and saveLocalSealed.
Reply(u, k) ==
  /\ Pc(u, k) = "reply" /\ Free(u)
  /\ LET q == task[u][k].peer
         e == [id |-> 0, own |-> TRUE, body |-> task[u][k].body] IN
     /\ threads' = [threads EXCEPT ![u][q] = Append(@, e)]
     /\ \/ Ok /\ store' = Saved(u, q, e)
        \/ Fault /\ UNCHANGED store
  /\ Goto(u, k, "refresh")
  /\ UNCHANGED <<client, server, history, closes>>

SendRefresh(u, k) ==
  /\ Pc(u, k) = "refresh" /\ Free(u)
  /\ \/ Cleared(u) /\ Ok
     \/ Fault /\ UNCHANGED threads
  /\ Finish(u, k)
  /\ UNCHANGED <<client, store, server, history, closes>>

-----------------------------------------------------------------------------
Booting(u) == Open(u) \/ Restore(u) \/ BootRefresh(u)
Poll(u, k) == Pull(u, k) \/ Handle(u, k) \/ Ack(u, k)
Send(u, k) == ToSelf(u, k) \/ Reply(u, k) \/ SendRefresh(u, k)

Next ==
  \E u \in Users :
    \/ Booting(u) \/ StateChange(u) \/ NewDM(u) \/ Close(u)
    \/ \E k \in PollSlots[u] : Poll(u, k)
    \/ \E k \in SendSlots[u] : Submit(u, k) \/ Send(u, k)

Spec == Init /\ [][Next]_vars

\* The event loop runs every callback that is due and requests end (they time out); the
\* user opens the application again.  Nothing makes the user write.
Fairness ==
  \A u \in Users :
    /\ WF_vars(Booting(u))
    /\ \A k \in PollSlots[u] : WF_vars(Poll(u, k))
    /\ \A k \in SendSlots[u] : WF_vars(Send(u, k))
FairSpec == Spec /\ Fairness
-----------------------------------------------------------------------------
(* Properties.                                                              *)

\* The type invariant; a conversation on disk never exceeds its cap.
TypeOK ==
  /\ log \in Seq(Blob) /\ queue \subseteq 1..Len(log) /\ saved \cup unsaved \subseteq 1..Len(log)
  /\ boot \in [Users -> Stages] /\ self \in [Users -> BOOLEAN] /\ todo \in [Users -> SUBSET Users]
  /\ \A u, q \in Users :
       /\ threads[u][q] \in Seq(Entry)
       /\ store[u][q] \in Seq(Entry) /\ Len(store[u][q]) <= Cap
  /\ \A u \in Users : \A k \in Slots(u) : task[u][k] \in Task
  /\ faults \in 0..MaxFaults /\ closes \in 0..MaxCloses

\* The user of m's queue has it on disk, or had it until newer entries pushed it out.
Kept(m) ==
  LET u == log[m].to  entries == store[u][Thread(u, m)] IN
  Has(entries, m) \/ Len(entries) = Cap

\* dm.js:162, "so we survive restarts even after ack": a message the server accepted and
\* the recipient can open is in the queue until the recipient's disk has it, whatever
\* polls overlap, acknowledgements are lost, clients close or histories are cleared.
NoLoss == \A m \in DOMAIN log : log[m].opens => m \in queue \/ Kept(m) \/ m \in unsaved

\* dm.js sendDM drops the blob in the peer's queue before its own: what a client shows or
\* stores as sent was accepted for the peer.
Delivered(u, q, e) ==
  \E m \in DOMAIN log : log[m].to = q /\ log[m].from = u /\ log[m].body = e.body
OwnMeansDelivered ==
  \A u, q \in Users : \A e \in Range(threads[u][q]) \cup Range(store[u][q]) :
    e.own => Delivered(u, q, e)

\* Every message that can be opened reaches the recipient's disk, provided the client it
\* runs has an identity when it polls.
NoIdentity(u) == boot[u] = "polling" /\ ~self[u]
Arrives ==
  \A m \in 1..MaxLog :
    m \in DOMAIN log /\ log[m].opens
      ~> m \in DOMAIN log /\ (Kept(m) \/ m \in unsaved \/ NoIdentity(log[m].to))

\* Seen from the queues, the channel is the log of Delivery: what was accepted for a user is
\* taken in the order of acceptance, at least once, and forgotten by the server only after it
\* was taken or could not be.  A message that does not open is given up when it is sent, one
\* whose save failed with that failure, unless a redelivery is saved after all.
Log == INSTANCE Delivery WITH
         Recipients <- Users,
         sent <- [m \in DOMAIN log |-> log[m].to],
         waiting <- queue,
         taken <- saved,
         givenUp <- (unsaved \cup {m \in DOMAIN log : ~log[m].opens}) \ saved
LogImplemented == Log!Spec

\* dm.js:49, "Restore prior DMs from local sealed store": once boot is over, every text
\* kept on disk is shown.
HistoryShown ==
  \A u, q \in Users : boot[u] = "polling" /\ self[u] =>
    \A e \in Range(store[u][q]) :
      \E x \in Range(threads[u][q]) : x.own = e.own /\ x.body = e.body
=============================================================================
