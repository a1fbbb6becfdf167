-------------------------- MODULE MCWebhookWorker --------------------------
(* TLC instance of WebhookWorker.                                          *)
EXTENDS WebhookWorker, TLC

WorkerSymmetry == Permutations(Event) \cup Permutations(Worker)
=============================================================================
