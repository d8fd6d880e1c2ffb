----------------------------- MODULE MCCompose ------------------------------
(***************************************************************************)
(* Two mails in one composer, each of which may be saved, resumed,         *)
(* discarded, sent and undone while requests about the other are under way.*)
(***************************************************************************)
EXTENDS Compose
=============================================================================
