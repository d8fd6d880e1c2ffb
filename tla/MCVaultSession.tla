--------------------------- MODULE MCVaultSession ---------------------------
(***************************************************************************)
(* Two folders and two commands in flight.                                 *)
(***************************************************************************)
EXTENDS VaultSession, TLC

AllCommands == {"create", "unlock", "lock", "ensure", "file", "move", "snapshot"}
\* What it takes to move a vault that was in use when the application ended.
MoveCommands == {"create", "unlock", "file", "move"}
MCSymmetry == Permutations(Roots) \cup Permutations(Slots)
=============================================================================
