-------------------------- MODULE MCScheduledSend ---------------------------
(***************************************************************************)
(* One mail and two devices that may each reload, or two mails and one     *)
(* device; on the first device two calls of wakeDue may overlap.           *)
(***************************************************************************)
EXTENDS ScheduledSend

MCDevices == {"desk", "phone"}
MCRounds == [d \in MCDevices |-> IF d = "desk" THEN {1, 2} ELSE {1}]

MCFolders == {"scheduled", "drafts", "outbox", "sent"}
MCAccount(F, m, d) == [folders |-> F, mails |-> m, devices |-> d]
MCAccounts ==
  {MCAccount(F, {CHOOSE x \in Msgs : TRUE}, MCDevices) :
     F \in {MCFolders, MCFolders \ {"outbox"}, MCFolders \ {"sent"}}}
  \cup {MCAccount(MCFolders, Msgs, {"desk"})}
=============================================================================
