--------------------------- MODULE MCWebhookIntake ---------------------------
(* Small instances of WebhookIntake for TLC.                               *)
EXTENDS WebhookIntake
=============================================================================
