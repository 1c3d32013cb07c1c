------------------------- MODULE MCWebhookDelivery -------------------------
(* Instances of WebhookDelivery for TLC. *)
EXTENDS WebhookDelivery, TLC

\* Calls are interchangeable where no liveness is asked.
CallSymmetry == Permutations(Calls)
=============================================================================
