-------------------------- MODULE MCSealedChannel ---------------------------
(***************************************************************************)
(* Two clients; "a" writes to "b", and each polls its own queue.           *)
(***************************************************************************)
EXTENDS SealedChannel

MCUsers == {"a", "b"}
MCTalks == {<<"a", "b">>}

\* The recipient's polls may overlap.
MCPollSlots == [u \in MCUsers |-> IF u = "b" THEN {"p1", "p2"} ELSE {"p1"}]
MCSendSlots == [u \in MCUsers |-> IF u = "a" THEN {"s1"} ELSE {}]
=============================================================================
