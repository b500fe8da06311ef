------------------------- MODULE MCWebhookOwnership -------------------------
(* Instances of WebhookOwnership for TLC: the .cfg files hold the constants. *)
EXTENDS WebhookOwnership
=============================================================================
