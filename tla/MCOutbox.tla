------------------------------ MODULE MCOutbox ------------------------------
(***************************************************************************)
(* Outbox with the values that the .cfg files give its constants.          *)
(***************************************************************************)
EXTENDS Outbox
=============================================================================
