---------------------------- MODULE KeyDirectory ----------------------------
(***************************************************************************)
(* Looking up the public key of one correspondent: keydir.rs with its      *)
(* cache of 24 hours under the vault, below the cache of vf-crypto.js,     *)
(* which keeps every answer, the negative ones too, until the page is      *)
(* loaded again.  Time runs in units that are long beside the 5 s a        *)
(* request may take: a lookup sees at most one tick.                       *)
(***************************************************************************)
EXTENDS Naturals

CONSTANTS
  Places,       \* 1 .. the number of URLs that are tried, in order
  Lookups,      \* calls of VfCrypto.lookup that may overlap (compose and direct messages)
  Ttl,          \* CACHE_TTL_SECS in ticks
  Nil, None,    \* no entry; the answer {found: false}
  MaxKeys,      \* bound on the keys the correspondent publishes
  MaxFaults     \* bound on failing requests and writes, and on outages

ASSUME DirectoryAssumption ==
  /\ Places \subseteq Nat \ {0} /\ 1 \in Places
  /\ \A n \in Places : n = 1 \/ n - 1 \in Places
  /\ Ttl \in Nat \ {0} /\ MaxKeys \in Nat /\ MaxFaults \in Nat
  /\ None # Nil /\ Nil \notin Nat /\ None \notin Nat

VARIABLES
  served,       \* the key each place serves; 0 when it has none
  newest,       \* the last key published
  online,       \* whether this machine reaches the network
  entry,        \* the cache file of the vault: Nil or key and age
  session,      \* the Map of the page: Nil, None or a key
  call,         \* the lookups in flight
  gone,         \* history: how long ago a key was last served anywhere (up to Ttl + 2)
  faults

vars == <<served, newest, online, entry, session, call, gone, faults>>

Keys == 1 .. MaxKeys
Idle == [pc |-> "idle", place |-> 1, key |-> None, late |-> FALSE, heard |-> TRUE]

Init ==
  /\ served = [n \in Places |-> 0] /\ newest = 0
  /\ online = TRUE
  /\ entry = Nil /\ session = Nil
  /\ call = [c \in Lookups |-> Idle]
  /\ gone = [k \in Keys |-> 0]
  /\ faults = 0

Fault == faults < MaxFaults /\ faults' = faults + 1
Put(c, r) == call' = [call EXCEPT ![c] = r]

-----------------------------------------------------------------------------
(* The correspondent, the network and time.                                 *)

\* A new identity is published in some of the places; the others keep what they serve.
Publish ==
  /\ newest < MaxKeys /\ newest' = newest + 1
  /\ \E P \in SUBSET Places \ {{}} :
       served' = [n \in Places |-> IF n \in P THEN newest + 1 ELSE served[n]]
  /\ UNCHANGED <<online, entry, session, call, gone, faults>>

Disconnect == online /\ Fault /\ online' = FALSE
              /\ UNCHANGED <<served, newest, entry, session, call, gone>>
Connect == ~online /\ online' = TRUE
           /\ UNCHANGED <<served, newest, entry, session, call, gone, faults>>

Older(n, limit) == IF n < limit THEN n + 1 ELSE n
Tick ==
  /\ \A c \in Lookups : ~call[c].late
  /\ call' = [c \in Lookups |-> [call[c] EXCEPT !.late = call[c].pc # "idle"]]
  /\ entry' = IF entry = Nil THEN Nil ELSE [entry EXCEPT !.age = Older(@, Ttl + 1)]
  /\ gone' = [k \in Keys |-> IF k > newest \/ \E n \in Places : served[n] = k
                               THEN 0 ELSE Older(gone[k], Ttl + 2)]
  /\ UNCHANGED <<served, newest, online, session, faults>>

-----------------------------------------------------------------------------
(* VfCrypto.lookup and keydir::lookup.                                      *)

\* Mutant: the age is compared with <=.
Fresh_OffByOne == entry # Nil /\ (entry.age <= Ttl)
\* now_ts() - entry.fetched_at < CACHE_TTL_SECS
Fresh == entry # Nil /\ entry.age < Ttl

\* The page has no answer; the cache file has a fresh one or the places are asked.
Lookup(c) ==
  /\ call[c].pc = "idle" /\ session = Nil
  /\ Put(c, IF Fresh THEN [Idle EXCEPT !.pc = "answer", !.key = entry.key]
                     ELSE [Idle EXCEPT !.pc = "ask"])
  /\ UNCHANGED <<served, newest, online, entry, session, gone, faults>>

\* Mutant: an error page is taken for a key.
Ask_AnyStatus(c) ==
  /\ call[c].pc = "ask" /\ online
  /\ Put(c, [call[c] EXCEPT !.pc = "store", !.key = served[call[c].place]])
  /\ UNCHANGED <<served, newest, online, entry, session, gone, faults>>
\* One candidate URL: its key, or on to the next, or to the answer that there is none.
Ask(c) ==
  /\ call[c].pc = "ask"
  /\ LET n == call[c].place
         Missed == Put(c, IF n + 1 \in Places THEN [call[c] EXCEPT !.place = n + 1]
                                              ELSE [call[c] EXCEPT !.pc = "answer"])
     IN \/ /\ online /\ served[n] # 0
           /\ Put(c, [call[c] EXCEPT !.pc = "store", !.key = served[n]]) /\ UNCHANGED faults
        \/ /\ ~online \/ served[n] = 0
           /\ Missed /\ UNCHANGED faults
        \/ Missed /\ Fault
  /\ UNCHANGED <<served, newest, online, entry, session, gone>>

\* The response is here: the entry is dated now.  An error in writing it is ignored, and a
\* torn entry reads as none.
Store(c) ==
  /\ call[c].pc = "store"
  /\ \/ entry' = [key |-> call[c].key, age |-> 0] /\ UNCHANGED faults
     \/ entry' \in {entry, Nil} /\ Fault
  /\ Put(c, [call[c] EXCEPT !.pc = "answer"])
  /\ UNCHANGED <<served, newest, online, session, gone>>

\* cache.set, unless the page that asked is gone.
Answer(c) ==
  /\ call[c].pc = "answer"
  /\ session' = IF call[c].heard THEN call[c].key ELSE session
  /\ Put(c, Idle)
  /\ UNCHANGED <<served, newest, online, entry, gone, faults>>

\* Mutant: the page remembers across loads that there was no key.
Reload_KeepsNone ==
  /\ session \notin {Nil, None} /\ session' = Nil
  /\ call' = [c \in Lookups |-> [call[c] EXCEPT !.heard = call[c].pc = "idle"]]
  /\ UNCHANGED <<served, newest, online, entry, gone, faults>>
\* The page is loaded again; the core goes on with what it was asked.
Reload ==
  /\ session # Nil /\ session' = Nil
  /\ call' = [c \in Lookups |-> [call[c] EXCEPT !.heard = call[c].pc = "idle"]]
  /\ UNCHANGED <<served, newest, online, entry, gone, faults>>

Step(c) == Lookup(c) \/ Ask(c) \/ Store(c) \/ Answer(c)
Next ==
  \/ Publish \/ Disconnect \/ Connect \/ Tick \/ Reload
  \/ \E c \in Lookups : Step(c)

Spec == Init /\ [][Next]_vars

\* Requests end, time passes, the network comes back, the user writes to the correspondent
\* again and restarts the application now and then.
FairSpec ==
  /\ Spec
  /\ WF_vars(Connect) /\ WF_vars(Tick) /\ WF_vars(Reload)
  /\ \A c \in Lookups : WF_vars(Step(c))

-----------------------------------------------------------------------------
TypeOK ==
  /\ served \in [Places -> Keys \cup {0}] /\ newest \in Keys \cup {0}
  /\ online \in BOOLEAN
  /\ entry \in [key : Keys, age : 0 .. Ttl + 1] \cup {Nil}
  /\ session \in Keys \cup {Nil, None}
  /\ call \in [Lookups -> [pc : {"idle", "ask", "store", "answer"}, place : Places,
                           key : Keys \cup {None}, late : BOOLEAN, heard : BOOLEAN]]
  /\ gone \in [Keys -> 0 .. Ttl + 2] /\ faults \in 0 .. MaxFaults

\* The core never answers with a key that was replaced everywhere more than the life of a
\* cache entry ago (and one tick, for a lookup under way), although a slow response may put
\* an old key over a newer one and date it with the time of its arrival.
StaleBound ==
  \A c \in Lookups : call[c].pc = "answer" /\ call[c].key # None =>
    gone[call[c].key] <= Ttl + 1

\* Once the places and the network settle, every later session uses the key that the first
\* place to have one serves: neither cache keeps an older key or a "none" for ever.
Current == IF \E n \in Places : served[n] # 0
             THEN served[CHOOSE n \in Places :
                           served[n] # 0 /\ \A i \in Places : i < n => served[i] = 0]
             ELSE None
Converges ==
  \A k \in Keys :
    <>[](Current = k /\ online) => <>[](session \in {Nil, k}) /\ []<>(session = k)
=============================================================================
