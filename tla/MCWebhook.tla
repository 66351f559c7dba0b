----------------------------- MODULE MCWebhook ------------------------------
(***************************************************************************)
(* Small instances of the webhook delivery for TLC.                        *)
(***************************************************************************)
EXTENDS WebhookProperties, TLC

CONSTANTS d1, d2, j1, j2, j3, j4

Symmetry == Permutations(JobId) \cup Permutations(Delivery)
=============================================================================
