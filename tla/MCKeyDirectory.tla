--------------------------- MODULE MCKeyDirectory ---------------------------
(***************************************************************************)
(* Two places, two lookups that overlap, two identities of the             *)
(* correspondent.                                                          *)
(***************************************************************************)
EXTENDS KeyDirectory

MCPlaces == 1 .. 2
=============================================================================
