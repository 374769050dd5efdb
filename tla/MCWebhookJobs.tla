--------------------------- MODULE MCWebhookJobs ---------------------------
(* A small instance of WebhookJobs for TLC. *)
EXTENDS WebhookJobs

\* Two delays: one retry before the schedule is over.
MCRetries == <<2, 3>>
=============================================================================
