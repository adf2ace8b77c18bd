--------------------------- MODULE MCWebhookQueue ---------------------------
(***************************************************************************)
(* Instances of WebhookQueue for TLC.  Manual retries of one channel are   *)
(* interchangeable; a run of invariants only may use that.                 *)
(***************************************************************************)
EXTENDS WebhookQueue, TLC

Interchangeable == Permutations(Retriers)
=============================================================================
