-------------------------- MODULE MCWebhookInbound --------------------------
(* A small instance of WebhookInbound for TLC. *)
EXTENDS WebhookInbound, TLC

\* Requests differ by name only.
Symmetry == Permutations(Requests)
=============================================================================
