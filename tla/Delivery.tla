------------------------------ MODULE Delivery ------------------------------
(***************************************************************************)
(* What the sealed channel promises: a log of messages, each for one       *)
(* recipient, who takes them in order and at least once.  The log may      *)
(* forget a message only when the recipient has it, or never will.         *)
(***************************************************************************)
EXTENDS Naturals, Sequences

CONSTANT Recipients

VARIABLES
  sent,         \* the recipient of each message; the index is its id
  waiting,      \* the ids that would be delivered again
  taken,        \* the ids whose recipient has them in durable storage
  givenUp       \* the ids whose recipient could not read or keep them

vars == <<sent, waiting, taken, givenUp>>
Settled == taken \cup givenUp

Init == sent = <<>> /\ waiting = {} /\ taken = {} /\ givenUp = {}

\* A message is accepted, perhaps one that cannot be read.
Accept(u) ==
  LET m == Len(sent) + 1 IN
  /\ sent' = Append(sent, u)
  /\ waiting' = waiting \cup {m}
  /\ givenUp' \in {givenUp, givenUp \cup {m}}
  /\ UNCHANGED taken

\* Every earlier message for the same recipient is settled.
InTurn(m) == \A n \in 1 .. m - 1 : sent[n] = sent[m] => n \in Settled

\* The recipient takes a message, for the first time or after it was given up.
Take(m) ==
  /\ m \in (waiting \cup givenUp) \ taken /\ InTurn(m)
  /\ taken' = taken \cup {m} /\ givenUp' = givenUp \ {m}
  /\ UNCHANGED <<sent, waiting>>

GiveUp(m) ==
  /\ m \in waiting \ Settled /\ InTurn(m)
  /\ givenUp' = givenUp \cup {m}
  /\ UNCHANGED <<sent, waiting, taken>>

\* A recipient's settled messages are forgotten.
Release(u) ==
  /\ waiting' \subseteq waiting
  /\ \A m \in waiting \ waiting' : sent[m] = u /\ m \in Settled
  /\ UNCHANGED <<sent, taken, givenUp>>

Next ==
  \/ \E u \in Recipients : Accept(u) \/ Release(u)
  \/ \E m \in DOMAIN sent : Take(m) \/ GiveUp(m)

Spec == Init /\ [][Next]_vars
=============================================================================
