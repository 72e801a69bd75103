------------------------- MODULE MCWebhookReceipts --------------------------
(***************************************************************************)
(* Identifiers for model checking WebhookReceipts.                         *)
(***************************************************************************)
EXTENDS WebhookReceipts

Ids == <<"op">>
=============================================================================
