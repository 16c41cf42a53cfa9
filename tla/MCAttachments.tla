--------------------------- MODULE MCAttachments ---------------------------
(***************************************************************************)
(* Attachments.tla with two uploads that race for the last place while a   *)
(* detach, the end, the deletion, the sweep and a restart come between.    *)
(***************************************************************************)
EXTENDS Attachments
=============================================================================
